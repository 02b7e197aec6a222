---------------------------- MODULE KnowledgeIndex ----------------------------
(***************************************************************************)
(* One document of the knowledge base: its row, the Markdown file it is    *)
(* kept in, and the chunks it is searched by (services/knowledge_service,  *)
(* services/storage_service, routers/storage.py).  The page of a document, *)
(* the editor of the file browser, a reload of the folder and a rebuild of *)
(* the index all change it, and each computes embeddings, which takes up   *)
(* to 45 s, without any lock before it replaces the chunks.                *)
(*                                                                         *)
(* A title and a text are numbers, one for each version somebody wrote.    *)
(* Empty texts and unpublished documents, which have no chunks, are left   *)
(* out, and so is which encoder made a vector.                             *)
(***************************************************************************)
EXTENDS Naturals, FiniteSets

CONSTANTS
    Op,           \* requests and background tasks, each used once
    Page,         \* pages that show the document
    None,
    MaxVersions,  \* bound: versions written of titles and texts
    MaxCrashes    \* bound: deaths of the server process

KnowledgeAssumption ==
    /\ None \notin Nat /\ None \notin Op
    /\ IsFiniteSet(Op) /\ MaxVersions \in Nat /\ MaxCrashes \in Nat

VARIABLES
    doc,       \* database: title and text of the row, or None once deleted
    chunks,    \* database: what the chunks were made from, or None
    file,      \* the text in the Markdown file
    digest,    \* database: text whose sha256 the file's entry holds
    owner,     \* the transaction that holds the storage lock, or None
    op,        \* every operation: kind, pc and the values it carries
    page,      \* title and text shown by every page, or None
    versions,  \* versions written so far
    crashes,   \* deaths of the server process so far
    aborted    \* a transaction was the victim of a deadlock (history)

indexVars == <<doc, chunks, file, digest, owner, op, page, versions, crashes, aborted>>

Unused == [pc |-> "new", title |-> None, text |-> None, old |-> None,
           wiped |-> None, vectors |-> FALSE]

\* index_status of the document: no chunk, chunks without vectors, or all of them.
IndexStatus ==
    IF chunks = None THEN "pending" ELSE IF chunks.vectors THEN "ready" ELSE "text_only"

Init ==
    /\ doc = [title |-> 0, text |-> 0] /\ file = 0 /\ digest = 0
    /\ chunks = [title |-> 0, text |-> 0, vectors |-> TRUE]
    /\ owner = None /\ op = [o \in Op |-> Unused] /\ page = [p \in Page |-> None]
    /\ versions = 0 /\ crashes = 0 /\ aborted = FALSE

Goes(o, pc) == op' = [op EXCEPT ![o].pc = pc]

-----------------------------------------------------------------------------
(* the page of the document: PATCH of title and text *)

OpenPage(p) ==
    /\ doc # None /\ page' = [page EXCEPT ![p] = doc]
    /\ UNCHANGED <<doc, chunks, file, digest, owner, op, versions, crashes, aborted>>

\* Save: the page sends both fields, the one that was not edited as it shows it,
\* and saves again without waiting once a request took 60 s.  update_document reads
\* the row before it waits for the storage lock.
Patch(o, p, field) ==
    /\ op[o] = Unused /\ page[p] # None /\ doc # None /\ versions < MaxVersions
    /\ versions' = versions + 1
    /\ LET body == [page[p] EXCEPT ![field] = versions + 1] IN
       op' = [op EXCEPT ![o] = [Unused EXCEPT !.pc = "patch", !.title = body.title,
                                              !.text = body.text, !.old = doc]]
    /\ page' = [page EXCEPT ![p][field] = versions + 1]
    /\ UNCHANGED <<doc, chunks, file, digest, owner, crashes, aborted>>

\* _save_markdown_file: one transaction under the storage lock.  The session
\* updates the columns that differ from the row it read; the file gets the
\* text the session holds.
SaveMarkdown(o) ==
    /\ op[o].pc = "patch" /\ owner = None /\ doc # None
    /\ LET old == op[o].old IN
       doc' = [title |-> IF op[o].title # old.title THEN op[o].title ELSE doc.title,
               text  |-> IF op[o].text # old.text THEN op[o].text ELSE doc.text]
    /\ file' = op[o].text /\ digest' = op[o].text /\ chunks' = None
    /\ Goes(o, "embed")
    /\ UNCHANGED <<owner, page, versions, crashes, aborted>>

\* The row is gone: the update matches no row and raises.
PatchFails(o) ==
    /\ op[o].pc = "patch" /\ owner = None /\ doc = None /\ Goes(o, "over")
    /\ UNCHANGED <<doc, chunks, file, digest, owner, page, versions, crashes, aborted>>

-----------------------------------------------------------------------------
(* an edit in the file browser, a reload of the folder, a rebuild *)

\* attach_document: the chunks of another text are deleted; the row follows
\* with the flush of the commit.  `original` is what a rollback writes back.
Attach(o, text, original) ==
    /\ owner' = o
    /\ op' = [op EXCEPT ![o] = [Unused EXCEPT !.pc = "attached", !.text = text, !.old = original,
                                  !.wiped = IF doc.text # text THEN chunks ELSE None]]
    /\ chunks' = IF doc.text # text THEN None ELSE chunks

\* write_text with the revision of the present file.
Edit(o) ==
    /\ op[o] = Unused /\ owner = None /\ doc # None /\ versions < MaxVersions
    /\ versions' = versions + 1 /\ file' = versions + 1
    /\ Attach(o, versions + 1, file)
    /\ UNCHANGED <<doc, digest, page, crashes, aborted>>

\* reload: a file that changed, or whose index is not complete.
Reload(o) ==
    /\ op[o] = Unused /\ owner = None /\ doc # None
    /\ file # digest \/ IndexStatus # "ready"
    /\ Attach(o, file, None)
    /\ UNCHANGED <<doc, file, digest, page, versions, crashes, aborted>>

\* The commit; the index follows as a background task of the response.
CommitAttached(o) ==
    /\ owner = o /\ owner' = None
    /\ doc' = [doc EXCEPT !.text = op[o].text] /\ digest' = op[o].text
    /\ Goes(o, "queued")
    /\ UNCHANGED <<chunks, file, page, versions, crashes, aborted>>

\* run_index and reindex_document read the row in a session of their own.
ReadDocument(o) ==
    /\ \/ op[o].pc = "queued"
       \/ op[o] = Unused /\ doc # None
    /\ op' = [op EXCEPT ![o] =
                IF doc = None THEN [@ EXCEPT !.pc = "over"]
                ELSE [Unused EXCEPT !.pc = "embed", !.title = doc.title, !.text = doc.text]]
    /\ UNCHANGED <<doc, chunks, file, digest, owner, page, versions, crashes, aborted>>

\* Somebody changes the file on the server's disk.
ExternalEdit ==
    /\ doc # None /\ versions < MaxVersions
    /\ versions' = versions + 1 /\ file' = versions + 1
    /\ UNCHANGED <<doc, chunks, digest, owner, op, page, crashes, aborted>>

\* delete_document and deleting the file: row and chunks go in one transaction.
Delete ==
    /\ owner = None /\ doc # None /\ doc' = None /\ chunks' = None
    /\ UNCHANGED <<file, digest, owner, op, page, versions, crashes, aborted>>

-----------------------------------------------------------------------------
(* _vectorize_document *)

\* embed_chunks answers, or fails: the text is indexed without vectors.
Embed(o) ==
    /\ op[o].pc = "embed"
    /\ \E works \in BOOLEAN : op' = [op EXCEPT ![o].pc = "embedded", ![o].vectors = works]
    /\ UNCHANGED <<doc, chunks, file, digest, owner, page, versions, crashes, aborted>>

\* Mutant of Current: only a deleted document stops the index.
CurrentWhileThere(o) == doc # None

\* The row, locked for update, still holds what was embedded.
Current(o) == doc # None /\ doc = [title |-> op[o].title, text |-> op[o].text]

\* Chunks that a transaction under the storage lock deleted and has not committed.
Pending == owner # None /\ op[owner].wiped # None

\* The chunks are replaced and committed under the lock of the row.
ReplaceChunks(o) ==
    /\ op[o].pc = "embedded" /\ Goes(o, "over")
    /\ Current(o) /\ ~Pending
    /\ chunks' = [title |-> op[o].title, text |-> op[o].text, vectors |-> op[o].vectors]
    /\ UNCHANGED <<doc, file, digest, owner, page, versions, crashes, aborted>>

\* The document changed meanwhile: its newer edit owns the index.
LeaveIndex(o) ==
    /\ op[o].pc = "embedded" /\ Goes(o, "over") /\ ~Current(o)
    /\ UNCHANGED <<doc, chunks, file, digest, owner, page, versions, crashes, aborted>>

\* The index waits for the deleted chunks, and their transaction for the row:
\* PostgreSQL ends one of the two.
IndexIsVictim(o) ==
    /\ op[o].pc = "embedded" /\ Current(o) /\ Pending
    /\ Goes(o, "over") /\ aborted' = TRUE
    /\ UNCHANGED <<doc, chunks, file, digest, owner, page, versions, crashes>>

\* The edit is rolled back, with the file as it was; the index goes on.
EditIsVictim(o) ==
    /\ op[o].pc = "embedded" /\ Current(o) /\ Pending
    /\ op' = [op EXCEPT ![o].pc = "over", ![owner].pc = "over"]
    /\ file' = IF op[owner].old = None THEN file ELSE op[owner].old
    /\ owner' = None /\ aborted' = TRUE
    /\ chunks' = [title |-> op[o].title, text |-> op[o].text, vectors |-> op[o].vectors]
    /\ UNCHANGED <<doc, digest, page, versions, crashes>>

\* The process dies; an open transaction is rolled back, its file stays.
Crash ==
    /\ crashes < MaxCrashes /\ crashes' = crashes + 1
    /\ op' = [o \in Op |-> IF op[o] = Unused THEN Unused ELSE [op[o] EXCEPT !.pc = "over"]]
    /\ owner' = None
    /\ chunks' = IF Pending THEN op[owner].wiped ELSE chunks
    /\ UNCHANGED <<doc, file, digest, page, versions, aborted>>

Next ==
    \/ \E p \in Page : OpenPage(p)
    \/ \E o \in Op, p \in Page, field \in {"title", "text"} : Patch(o, p, field)
    \/ \E o \in Op :
           \/ SaveMarkdown(o) \/ PatchFails(o) \/ Edit(o) \/ Reload(o)
           \/ CommitAttached(o) \/ ReadDocument(o) \/ Embed(o) \/ ReplaceChunks(o)
           \/ LeaveIndex(o) \/ IndexIsVictim(o) \/ EditIsVictim(o)
    \/ ExternalEdit \/ Delete \/ Crash

Spec == Init /\ [][Next]_indexVars

-----------------------------------------------------------------------------

\* The row, the chunks, the file and the operations keep their shapes.
TypeOK ==
    /\ doc = None \/ doc \in [title : Nat, text : Nat]
    /\ chunks = None \/ chunks \in [title : Nat, text : Nat, vectors : BOOLEAN]
    /\ file \in Nat /\ digest \in Nat /\ owner \in Op \cup {None}
    /\ \A o \in Op : op[o].pc \in {"new", "patch", "attached", "queued", "embed",
                                   "embedded", "over"}
    /\ \A p \in Page : page[p] = None \/ page[p] \in [title : Nat, text : Nat]
    /\ versions \in Nat /\ crashes \in Nat /\ aborted \in BOOLEAN

\* No operation is under way, and none was killed on its way.
Settled == crashes = 0 /\ ~aborted /\ \A o \in Op : op[o].pc \in {"new", "over"}

\* Once every operation has ended, the search index of the document is about its
\* present title and text: an embedding that took longer than a newer edit never
\* replaces the newer index.
IndexIsCurrent ==
    Settled /\ doc # None /\ chunks # None =>
        doc = [title |-> chunks.title, text |-> chunks.text]

\* knowledge_service.py:140: "release the lock; a newer edit owns its own indexing
\* operation".  Once every operation has ended, a document has an index.
EditOwnsIndex == Settled /\ doc # None => chunks # None
=============================================================================
