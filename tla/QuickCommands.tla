----------------------------- MODULE QuickCommands -----------------------------
(***************************************************************************)
(* The list of quick commands in the terminal and the catalog file it      *)
(* edits (components/debug/quick-commands.tsx; services/command_files.py). *)
(* Others edit the same file.  A revision, a hash of the file in the code, *)
(* is the catalog itself; an answer may be lost on either way.             *)
(***************************************************************************)
EXTENDS Naturals

CONSTANTS
    MaxIds,    \* bound: commands ever created; ids are never used twice
    Body,      \* what a command says
    Absent,    \* no command
    MaxOthers, \* bound: changes others make to the file
    MaxSaves   \* bound: saves and deletions from the terminal

CommandsAssumption ==
    MaxIds \in Nat /\ Absent \notin Body /\ MaxOthers \in Nat /\ MaxSaves \in Nat

VARIABLES
    commands,  \* the list shown: body of every id
    revision,  \* the catalog the list was read from, or Missing
    failure,   \* an error is shown
    editor,    \* the draft, what it began from, and what the file held later
    request,   \* the request under way
    catalog,   \* server: the file
    ids,       \* ids created so far
    others, saves

commandVars == <<commands, revision, failure, editor, request, catalog, ids, others, saves>>

Id == 1 .. MaxIds

Empty == [i \in Id |-> Absent]

Missing == [exists |-> FALSE, at |-> Empty]

NoEditor == [status |-> "none", id |-> 0, draft |-> Absent, original |-> Absent,
             latest |-> Absent]

NoRequest == [pc |-> "idle", keep |-> FALSE, id |-> 0, base |-> Absent,
              next |-> Empty, revision |-> Missing]

Loading(keep) == [NoRequest EXCEPT !.pc = "load", !.keep = keep]

\* The file begins missing or with one command.
Init ==
    /\ commands = Empty /\ revision = Missing /\ failure = FALSE
    /\ editor = NoEditor /\ request = Loading(FALSE)
    /\ \/ catalog = Missing /\ ids = 0
       \/ /\ MaxIds > 0 /\ ids = 1
          /\ \E b \in Body : catalog = [exists |-> TRUE, at |-> [Empty EXCEPT ![1] = b]]
    /\ others = 0 /\ saves = 0

-----------------------------------------------------------------------------
(* loading *)

\* The Refresh button; the editor's own reload keeps the draft.
Load(keep) ==
    /\ request.pc = "idle"
    /\ IF keep THEN editor.status = "conflict" ELSE editor.status = "none"
    /\ request' = Loading(keep) /\ failure' = FALSE
    /\ UNCHANGED <<commands, revision, editor, catalog, ids, others, saves>>

\* What a reload does to the draft: it is saved already, its command changed, or
\* it goes on.
Reconciled(latest) ==
    CASE latest = editor.draft -> NoEditor
      [] latest # editor.draft /\ latest # editor.original ->
             [editor EXCEPT !.status = "compare", !.latest = latest]
      [] OTHER -> [editor EXCEPT !.status = "editing", !.latest = Absent]

Loaded ==
    /\ request.pc = "load" /\ request' = NoRequest
    /\ commands' = catalog.at /\ revision' = catalog
    /\ editor' = IF request.keep THEN Reconciled(catalog.at[editor.id]) ELSE editor
    /\ UNCHANGED <<failure, catalog, ids, others, saves>>

\* The list is emptied; the revision stays.
LoadFails ==
    /\ request.pc = "load" /\ request' = NoRequest
    /\ commands' = Empty /\ failure' = TRUE
    /\ UNCHANGED <<revision, editor, catalog, ids, others, saves>>

-----------------------------------------------------------------------------
(* editing *)

Edits(id, draft, original) ==
    /\ editor' = [status |-> "editing", id |-> id, draft |-> draft, original |-> original,
                  latest |-> Absent]
    /\ failure' = FALSE

New(b) ==
    /\ request.pc = "idle" /\ ~failure /\ editor.status = "none" /\ ids < MaxIds
    /\ ids' = ids + 1 /\ Edits(ids + 1, b, Absent)
    /\ UNCHANGED <<commands, revision, request, catalog, others, saves>>

Edit(i) ==
    /\ request.pc = "idle" /\ editor.status = "none" /\ commands[i] # Absent
    /\ Edits(i, commands[i], commands[i])
    /\ UNCHANGED <<commands, revision, request, catalog, ids, others, saves>>

Type(b) ==
    /\ request.pc = "idle" /\ editor.status # "none"
    /\ editor' = [editor EXCEPT !.draft = b]
    /\ UNCHANGED <<commands, revision, failure, request, catalog, ids, others, saves>>

Cancel ==
    /\ request.pc = "idle" /\ editor.status # "none"
    /\ editor' = NoEditor /\ failure' = FALSE
    /\ UNCHANGED <<commands, revision, request, catalog, ids, others, saves>>

\* "Keep my draft", or as a new command when its own was deleted.
KeepDraft ==
    /\ request.pc = "idle" /\ editor.status = "compare"
    /\ IF editor.latest # Absent
       THEN Edits(editor.id, editor.draft, editor.latest) /\ UNCHANGED ids
       ELSE ids < MaxIds /\ ids' = ids + 1 /\ Edits(ids + 1, editor.draft, Absent)
    /\ UNCHANGED <<commands, revision, request, catalog, others, saves>>

UseLatest ==
    /\ editor.status = "compare" /\ failure' = FALSE
    /\ editor' = IF editor.latest = Absent THEN NoEditor
                 ELSE [NoEditor EXCEPT !.status = "editing", !.id = editor.id,
                                       !.draft = editor.latest, !.original = editor.latest]
    /\ UNCHANGED <<commands, revision, request, catalog, ids, others, saves>>

-----------------------------------------------------------------------------
(* saving *)

Put(pc, i, base, b) ==
    /\ request.pc = "idle" /\ saves < MaxSaves /\ saves' = saves + 1 /\ failure' = FALSE
    /\ request' = [pc |-> pc, keep |-> FALSE, id |-> i, base |-> base,
                   next |-> [commands EXCEPT ![i] = b], revision |-> revision]

Save ==
    /\ editor.status = "editing" /\ Put("save", editor.id, editor.original, editor.draft)
    /\ UNCHANGED <<commands, revision, editor, catalog, ids, others>>

Remove(i) ==
    /\ editor.status = "none" /\ commands[i] # Absent /\ Put("remove", i, commands[i], Absent)
    /\ UNCHANGED <<commands, revision, editor, catalog, ids, others>>

\* save compares the revision under the storage lock.
PutArrives ==
    /\ request.pc \in {"save", "remove"}
    /\ IF request.revision = catalog
       THEN /\ catalog' = [exists |-> TRUE, at |-> request.next]
            /\ request' = [request EXCEPT !.pc = IF request.pc = "save" THEN "saved"
                                                                        ELSE "removed"]
       ELSE /\ request' = [request EXCEPT !.pc = IF request.pc = "save" THEN "refused"
                                                                        ELSE "failed"]
            /\ UNCHANGED catalog
    /\ UNCHANGED <<commands, revision, failure, editor, ids, others, saves>>

Answered ==
    /\ request.pc \in {"saved", "removed"} /\ request' = NoRequest
    /\ commands' = request.next /\ revision' = [exists |-> TRUE, at |-> request.next]
    /\ editor' = IF request.pc = "saved" THEN NoEditor ELSE editor
    /\ UNCHANGED <<failure, catalog, ids, others, saves>>

\* A refusal, or no answer: the draft asks for a reload.  A removal only fails.
Fails ==
    /\ request.pc \notin {"idle", "load"} /\ request' = NoRequest /\ failure' = TRUE
    /\ editor' = IF request.pc \in {"save", "saved", "refused"}
                 THEN [editor EXCEPT !.status = "conflict", !.latest = Absent] ELSE editor
    /\ UNCHANGED <<commands, revision, catalog, ids, others, saves>>

\* Any other answer, a file too large for instance: the draft is still being edited.
Rejected ==
    /\ request.pc = "save" /\ request' = NoRequest /\ failure' = TRUE
    /\ UNCHANGED <<commands, revision, editor, catalog, ids, others, saves>>

\* Another terminal or the file editor adds, changes or removes a command.
OtherSave(i, b) ==
    /\ others < MaxOthers /\ others' = others + 1
    /\ \/ i <= ids /\ catalog.at[i] # Absent /\ catalog.at[i] # b /\ UNCHANGED ids
       \/ i = ids + 1 /\ b # Absent /\ ids' = i
    /\ catalog' = [exists |-> TRUE, at |-> [catalog.at EXCEPT ![i] = b]]
    /\ UNCHANGED <<commands, revision, failure, editor, request, saves>>

-----------------------------------------------------------------------------

Next ==
    \/ \E keep \in BOOLEAN : Load(keep)
    \/ Loaded \/ LoadFails \/ Cancel \/ KeepDraft \/ UseLatest \/ Save \/ PutArrives
    \/ Answered \/ Fails \/ Rejected
    \/ \E b \in Body : New(b) \/ Type(b)
    \/ \E i \in Id : Edit(i) \/ Remove(i) \/ \E b \in Body \cup {Absent} : OtherSave(i, b)

Spec == Init /\ [][Next]_commandVars

-----------------------------------------------------------------------------

Catalog == [exists : BOOLEAN, at : [Id -> Body \cup {Absent}]]

\* The list, the editor, the request and the file keep their shapes.
TypeOK ==
    /\ commands \in [Id -> Body \cup {Absent}] /\ revision \in Catalog /\ failure \in BOOLEAN
    /\ editor \in [status : {"none", "editing", "conflict", "compare"}, id : 0 .. MaxIds,
                   draft : Body \cup {Absent}, original : Body \cup {Absent},
                   latest : Body \cup {Absent}]
    /\ request \in [pc : {"idle", "load", "save", "remove", "saved", "removed", "refused",
                          "failed"},
                    keep : BOOLEAN, id : 0 .. MaxIds, base : Body \cup {Absent},
                    next : [Id -> Body \cup {Absent}], revision : Catalog]
    /\ catalog \in Catalog /\ ids \in 0 .. MaxIds
    /\ others \in 0 .. MaxOthers /\ saves \in 0 .. MaxSaves

\* The command a save or a deletion replaces is the one its author saw, at the start
\* of the edit or in the comparison after a conflict, whatever answers were lost
\* (quick-commands.tsx:126-168, 247-285, 397-427).
ReviewedFirst ==
    [][PutArrives /\ catalog' # catalog => catalog.at[request.id] = request.base]_commandVars

\* docs/device-tools.md:86: "Other users' unrelated commands remain intact."
UnrelatedKept ==
    [][PutArrives => \A i \in Id \ {request.id} : catalog'.at[i] = catalog.at[i]]_commandVars
=============================================================================
