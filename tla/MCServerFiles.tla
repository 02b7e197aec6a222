---------------------------- MODULE MCServerFiles ----------------------------
(* The files of the server: uploads into a space (the constants and         *)
(* variables of UploadSession) and the attachments of tickets.  They share  *)
(* no folder and no row, so a behaviour is one of the part in focus, and    *)
(* the other part keeps its initial state.  Files and tasks are the same    *)
(* model values, so that one symmetry serves both.                          *)
EXTENDS MCUploadSession

CONSTANTS File, Ticket, MaxFaults

VARIABLES
    focus,
    ticket, entry, upload, places, journal, dropped, tx, closing, replaced, unsure,
    faults, deaths

ticketVars == <<ticket, entry, upload, places, journal, dropped, tx, closing, replaced,
                unsure, faults, deaths>>

Tickets == INSTANCE TicketFiles WITH disk <- places, garbage <- dropped, lost <- unsure,
                                     crashes <- deaths

ASSUME TicketsAssumption == Tickets!FilesAssumption

PartsInit == focus \in {"uploads", "tickets"} /\ Init /\ Tickets!Init

PartsNext ==
    \/ focus = "uploads" /\ Next /\ UNCHANGED <<focus, ticketVars>>
    \/ focus = "tickets" /\ Tickets!Next /\ UNCHANGED <<focus, vars>>

PartsSpec == PartsInit /\ [][PartsNext]_<<focus, vars, ticketVars>>

-----------------------------------------------------------------------------
(* Properties *)

\* The rows, folders and transactions of uploads and tickets keep their shapes.
FilesTypeOK == TypeOK /\ Tickets!TypeOK

\* What a row names is on the disk with the bytes of its upload: recovery never
\* attributes another file to it, no drain of older garbage removes it, and a move
\* into a ticket that was cut short leaves a journal that leads to the file.
RowsHaveFiles == SavedHasBytes /\ Tickets!AttachmentsKept
=============================================================================
