----------------------------- MODULE TicketFiles -----------------------------
(***************************************************************************)
(* Attachments of tickets (services/ticket_service.py,                     *)
(* ticket_attachments.py, storage_maintenance.py): a draft that was        *)
(* uploaded is moved into the folder of a ticket when the ticket is saved. *)
(* The file moves at once and the rows change at the commit; a journal     *)
(* file beside them says where a file went, and the sweep reads it.        *)
(*                                                                         *)
(* Every handler owns the storage lock until its transaction ends, and the *)
(* moves of one request have no await between them, so only a death of     *)
(* the server comes in between.  A place is a name in a draft's folder or  *)
(* in a ticket's; all files were uploaded under one name, whose numbered   *)
(* variants are 1, 2, ....                                                 *)
(***************************************************************************)
EXTENDS Naturals, FiniteSets

CONSTANTS
    File,        \* attachments: an upload task with its entry
    Ticket,      \* ticket rows, each created once
    None,
    MaxFaults,   \* bound: system calls and commits that fail
    MaxCrashes   \* bound: deaths of the server

Name == 1 .. Cardinality(File) + 1

Draft(f) == [folder |-> f, name |-> 1]

In(t) == [folder : {t}, name : Name]

Place == {Draft(f) : f \in File} \cup UNION {In(t) : t \in Ticket}

\* The folder of a draft is never that of a ticket.
FilesAssumption ==
    /\ IsFiniteSet(File) /\ File \cap Ticket = {}
    /\ None \notin File \cup Ticket \cup Place
    /\ MaxFaults \in Nat /\ MaxCrashes \in Nat

VARIABLES
    ticket,    \* an id that was never drawn ("none"), has a row ("open") or none ("gone")
    entry,     \* place the row of an attachment names, or None
    upload,    \* its upload task: status, and whether expires_at is ahead
    disk,      \* the file at a place, or None
    journal,   \* attachment-transfers: where an attachment was to go, or None
    garbage,   \* places of file_garbage
    tx,        \* the transaction that saves a ticket
    closing,   \* attachments whose journal a committed request will remove
    replaced,  \* history: a journal was written over the one that led to its file
    lost,      \* history: a commit that worked was reported as a failure
    faults, crashes

fileVars == <<ticket, entry, upload, disk, journal, garbage, tx, closing, replaced,
              lost, faults, crashes>>

NoTx == [pc |-> "idle", ticket |-> None, left |-> {}, moved |-> {},
         file |-> None, deletes |-> {}]

Init ==
    /\ ticket = [t \in Ticket |-> "none"] /\ entry = [f \in File |-> None]
    /\ upload = [f \in File |-> [status |-> "none", live |-> FALSE, ticket |-> None]]
    /\ disk = [p \in Place |-> None] /\ journal = [f \in File |-> None]
    /\ garbage = {} /\ tx = NoTx /\ closing = {}
    /\ replaced = FALSE /\ lost = FALSE /\ faults = 0 /\ crashes = 0

Unlocked == tx.pc = "idle"

Fault == faults < MaxFaults /\ faults' = faults + 1

IsDraft(f) == entry[f] = Draft(f)

Owned(t) == {f \in File : entry[f] \in In(t)}

-----------------------------------------------------------------------------
(* uploads into a ticket's form *)

\* An upload ends in the folder of its task; it may name the ticket it is for.
Uploaded(f, t) ==
    /\ Unlocked /\ upload[f].status = "none" /\ (t # None => ticket[t] = "open")
    /\ upload' = [upload EXCEPT ![f] = [status |-> "complete", live |-> TRUE, ticket |-> t]]
    /\ entry' = [entry EXCEPT ![f] = Draft(f)] /\ disk' = [disk EXCEPT ![Draft(f)] = f]
    /\ UNCHANGED <<ticket, journal, garbage, tx, closing, replaced, lost, faults, crashes>>

\* 48 hours pass.
ExpireUpload(f) ==
    /\ upload[f].live /\ upload' = [upload EXCEPT ![f].live = FALSE]
    /\ UNCHANGED <<ticket, entry, disk, journal, garbage, tx, closing, replaced, lost,
                   faults, crashes>>

\* Cancel of an upload; an attachment that was bound is managed in its ticket.
CancelUpload(f) ==
    /\ Unlocked /\ upload[f].status # "none"
    /\ upload[f].status = "complete" => entry[f] = None \/ IsDraft(f)
    /\ upload' = [upload EXCEPT ![f].status = "cancelled"]
    /\ entry' = [entry EXCEPT ![f] = None]
    /\ garbage' = garbage \cup IF IsDraft(f) THEN {Draft(f)} ELSE {}
    /\ UNCHANGED <<ticket, disk, journal, tx, closing, replaced, lost, faults, crashes>>

-----------------------------------------------------------------------------
(* create_ticket and update_ticket, with bind *)

\* A create draws an id of its own, which a create that fails never uses again.
BeginSave(t, up, deletes) ==
    /\ Unlocked /\ ticket[t] # "gone" /\ deletes \subseteq Owned(t)
    /\ tx' = [NoTx EXCEPT !.pc = "bind", !.ticket = t, !.left = up, !.deletes = deletes]
    /\ ticket' = [ticket EXCEPT ![t] = IF @ = "none" THEN "gone" ELSE @]
    /\ UNCHANGED <<entry, upload, disk, journal, garbage, closing, replaced, lost,
                   faults, crashes>>

\* What bind asks of a task before it moves the entry.
Bindable(f) ==
    /\ upload[f].status = "complete" /\ upload[f].live /\ IsDraft(f)
    /\ upload[f].ticket \in {None, tx.ticket}

\* available_name in the folder of the ticket.
Target == CHOOSE p \in In(tx.ticket) :
              disk[p] = None /\ \A q \in In(tx.ticket) : disk[q] = None => p.name <= q.name

\* An attachment the ticket already has is skipped.
Skip(f) ==
    /\ tx.pc = "bind" /\ f \in (tx.left \cap Owned(tx.ticket)) \ tx.deletes
    /\ tx' = [tx EXCEPT !.left = @ \ {f}]
    /\ UNCHANGED <<ticket, entry, upload, disk, journal, garbage, closing, replaced, lost,
                   faults, crashes>>

Refuse(f) ==
    /\ tx.pc = "bind" /\ f \in tx.left \ (Owned(tx.ticket) \ tx.deletes) /\ ~Bindable(f)
    /\ tx' = [tx EXCEPT !.pc = "undo"]
    /\ UNCHANGED <<ticket, entry, upload, disk, journal, garbage, closing, replaced, lost,
                   faults, crashes>>

\* The journal is written before the file moves; an older one is overwritten.
WriteJournal(f) ==
    /\ tx.pc = "bind" /\ f \in tx.left /\ Bindable(f)
    /\ journal' = [journal EXCEPT ![f] = Target]
    /\ replaced' = (replaced \/ (journal[f] # None /\ disk[journal[f]] = f))
    /\ tx' = [tx EXCEPT !.pc = "move", !.file = f]
    /\ UNCHANGED <<ticket, entry, upload, disk, garbage, closing, lost, faults, crashes>>

Renamed(from, to) == [disk EXCEPT ![to] = disk[from], ![from] = None]

Move(f) ==
    /\ tx.pc = "move" /\ f = tx.file /\ disk[Draft(f)] # None
    /\ disk' = Renamed(Draft(f), journal[f])
    /\ tx' = [tx EXCEPT !.pc = "bind", !.file = None, !.left = @ \ {f},
                        !.moved = @ \cup {f}]
    /\ UNCHANGED <<ticket, entry, upload, journal, garbage, closing, replaced, lost,
                   faults, crashes>>

\* There is no such file, or the rename fails: the journal of this file stays.
MoveFails ==
    /\ tx.pc = "move" /\ tx' = [tx EXCEPT !.pc = "undo", !.file = None]
    /\ IF disk[Draft(tx.file)] = None THEN UNCHANGED faults ELSE Fault
    /\ UNCHANGED <<ticket, entry, upload, disk, journal, garbage, closing, replaced, lost,
                   crashes>>

\* The rows of the transaction.
Committed ==
    /\ ticket' = [ticket EXCEPT ![tx.ticket] = "open"]
    /\ entry' = [f \in File |-> IF f \in tx.moved THEN journal[f]
                                ELSE IF f \in tx.deletes THEN None ELSE entry[f]]
    /\ garbage' = garbage \cup {entry[f] : f \in tx.deletes}
    /\ upload' = [f \in File |-> IF f \in tx.moved
                                 THEN [upload[f] EXCEPT !.ticket = tx.ticket] ELSE upload[f]]

CommitSave ==
    /\ tx.pc = "bind" /\ tx.left = {} /\ Committed
    /\ tx' = NoTx /\ closing' = closing \cup tx.moved
    /\ UNCHANGED <<disk, journal, replaced, lost, faults, crashes>>

CommitFails ==
    /\ tx.pc = "bind" /\ tx.left = {} /\ Fault /\ tx' = [tx EXCEPT !.pc = "undo"]
    /\ UNCHANGED <<ticket, entry, upload, disk, journal, garbage, closing, replaced, lost,
                   crashes>>

\* The COMMIT worked and its answer is lost.
LoseCommit ==
    /\ tx.pc = "bind" /\ tx.left = {} /\ Fault /\ Committed
    /\ tx' = [tx EXCEPT !.pc = "undo"] /\ lost' = TRUE
    /\ UNCHANGED <<disk, journal, closing, replaced, crashes>>

\* Mutant: the file stays in the folder of the ticket.
LeftThere(f) == disk

\* rollback_paths moves a file back unless another one took its place.
MovedBack(f) ==
    IF disk[journal[f]] # None /\ disk[Draft(f)] = None
    THEN Renamed(journal[f], Draft(f)) ELSE disk

Undo(f) ==
    /\ tx.pc = "undo" /\ f \in tx.moved /\ disk' = MovedBack(f)
    /\ journal' = [journal EXCEPT ![f] = None] /\ tx' = [tx EXCEPT !.moved = @ \ {f}]
    /\ UNCHANGED <<ticket, entry, upload, garbage, closing, replaced, lost, faults, crashes>>

\* Everything was moved back, or a rename fails and the rest stays.
UndoEnds ==
    /\ tx.pc = "undo" /\ tx' = NoTx
    /\ IF tx.moved = {} THEN UNCHANGED faults ELSE Fault
    /\ UNCHANGED <<ticket, entry, upload, disk, journal, garbage, closing, replaced, lost,
                   crashes>>

\* finalize_paths, after the commit: a journal that cannot be removed is left.
Finalize(f) ==
    /\ f \in closing /\ closing' = closing \ {f}
    /\ \/ journal' = [journal EXCEPT ![f] = None] /\ UNCHANGED faults
       \/ Fault /\ UNCHANGED journal
    /\ UNCHANGED <<ticket, entry, upload, disk, garbage, tx, replaced, lost, crashes>>

-----------------------------------------------------------------------------
(* delete_ticket, the sweep and the drain *)

\* Mutant: an upload whose attachment was deleted before still counts.
DraftsUnchecked(t) == {f \in File : upload[f].ticket = t}

DraftsOf(t) == {f \in File : upload[f].ticket = t /\ IsDraft(f)}

\* Attachments and drafts of the ticket are deleted, its uploads cancelled.
DeleteTicket(t) ==
    LET of == Owned(t) \cup DraftsOf(t) IN
    /\ Unlocked /\ ticket[t] = "open" /\ ticket' = [ticket EXCEPT ![t] = "gone"]
    /\ garbage' = garbage \cup {entry[f] : f \in of}
    /\ entry' = [f \in File |-> IF f \in of THEN None ELSE entry[f]]
    /\ upload' = [f \in File |-> IF upload[f].ticket = t
                                 THEN [upload[f] EXCEPT !.status = "cancelled"] ELSE upload[f]]
    /\ UNCHANGED <<disk, journal, tx, closing, replaced, lost, faults, crashes>>

\* The journal of an interrupted move, whose row still names the draft.
Interrupted(f) == journal[f] # None /\ IsDraft(f)

Claims(f) == Interrupted(f) /\ disk[Draft(f)] = None /\ disk[journal[f]] # None

\* The journals the sweep follows: the first it reads of those that name one place.
Followed ==
    {s \in SUBSET {f \in File : Claims(f)} :
        /\ \A f \in File : Claims(f) => \E g \in s : journal[g] = journal[f]
        /\ \A f, g \in s : journal[f] = journal[g] => f = g}

Recovered(s) ==
    [p \in Place |-> IF \E f \in s : p = Draft(f) THEN disk[journal[p.folder]]
                     ELSE IF \E f \in s : p = journal[f] THEN None ELSE disk[p]]

\* The sweep removes the journal; a deleted attachment is looked for in `seen`.
Answered(f, files, seen) ==
    \/ entry[f] = journal[f]
    \/ IsDraft(f) /\ files[Draft(f)] # None
    \/ entry[f] = None /\ seen[Draft(f)] = None /\ seen[journal[f]] = None

Stale(f) == upload[f].status = "complete" /\ ~upload[f].live /\ IsDraft(f)

Sweep ==
    /\ Unlocked /\ \E s \in Followed : disk' = Recovered(s)
    /\ \E seen \in {disk, disk'} :
           journal' = [f \in File |-> IF journal[f] # None /\ Answered(f, disk', seen)
                                      THEN None ELSE journal[f]]
    /\ entry' = [f \in File |-> IF Stale(f) THEN None ELSE entry[f]]
    /\ garbage' = garbage \cup {Draft(f) : f \in {g \in File : Stale(g)}}
    /\ upload' = [f \in File |-> IF Stale(f) THEN [upload[f] EXCEPT !.status = "expired"]
                                 ELSE upload[f]]
    /\ UNCHANGED <<ticket, tx, closing, replaced, lost, faults, crashes>>

\* drain_garbage: a place that a row names again is only forgotten.
Drain ==
    LET live == {entry[f] : f \in File} IN
    /\ Unlocked /\ garbage # {}
    /\ \E kept \in SUBSET (garbage \ live) :
           /\ IF kept = {} THEN UNCHANGED faults ELSE Fault
           /\ garbage' = kept
           /\ disk' = [p \in Place |-> IF p \in garbage \ (live \cup kept) THEN None
                                       ELSE disk[p]]
    /\ UNCHANGED <<ticket, entry, upload, journal, tx, closing, replaced, lost, crashes>>

Crash ==
    /\ tx # NoTx \/ closing # {}
    /\ crashes < MaxCrashes /\ crashes' = crashes + 1 /\ tx' = NoTx /\ closing' = {}
    /\ UNCHANGED <<ticket, entry, upload, disk, journal, garbage, replaced, lost, faults>>

Next ==
    \/ \E f \in File :
           \/ \E t \in Ticket \cup {None} : Uploaded(f, t)
           \/ ExpireUpload(f) \/ CancelUpload(f) \/ Skip(f) \/ Refuse(f)
           \/ WriteJournal(f) \/ Move(f) \/ Undo(f) \/ Finalize(f)
    \/ \E t \in Ticket : DeleteTicket(t) \/ \E up, del \in SUBSET File : BeginSave(t, up, del)
    \/ MoveFails \/ CommitSave \/ CommitFails \/ LoseCommit \/ UndoEnds
    \/ Sweep \/ Drain \/ Crash

Spec == Init /\ [][Next]_fileVars

-----------------------------------------------------------------------------

\* Rows, files, journals and the transaction keep their shapes.
TypeOK ==
    /\ ticket \in [Ticket -> {"none", "open", "gone"}]
    /\ entry \in [File -> Place \cup {None}]
    /\ upload \in [File -> [status : {"none", "complete", "cancelled", "expired"},
                            live : BOOLEAN, ticket : Ticket \cup {None}]]
    /\ disk \in [Place -> File \cup {None}] /\ journal \in [File -> Place \cup {None}]
    /\ garbage \subseteq Place
    /\ tx \in [pc : {"idle", "bind", "move", "undo"}, ticket : Ticket \cup {None},
               left : SUBSET File, moved : SUBSET File, file : File \cup {None}, deletes : SUBSET File]
    /\ closing \subseteq File /\ {lost, replaced} \subseteq BOOLEAN
    /\ faults \in Nat /\ crashes \in Nat

Kept(f) == disk[entry[f]] = f

Led(f) == journal[f] # None /\ disk[journal[f]] = f

\* The file of an attachment is where its row says, or, until a move that was cut short
\* is undone, where its journal says; unless the commit's answer was lost, or a ticket
\* was saved again before the sweep undid the move.
AttachmentsKept ==
    replaced \/ lost \/ \A f \in File : entry[f] = None \/ Kept(f) \/ (IsDraft(f) /\ Led(f))

\* "An attachment move that was not committed is undone after an interruption"
\* (docs/file-storage.md): whenever no request is under way, the sweep that runs next
\* finds the file of every draft in its folder, or brings it back.
MovesUndone ==
    Unlocked => \A f \in File, s \in Followed : IsDraft(f) => Recovered(s)[Draft(f)] = f
=============================================================================
