---------------------------- MODULE MCServerSafe ----------------------------
(* Parts of the server that share no row: workers of the automation queue   *)
(* on two messages (the constants and variables of WorkbenchJobs), the      *)
(* check queue, the delivery of mail and the index of a document.  A        *)
(* behaviour is one of the part in focus, and the other parts keep their    *)
(* initial states.  The processes and rows of all parts are the same model  *)
(* values, so that one symmetry serves them all.                            *)
EXTENDS MCWorkbenchJobs

CONSTANTS
    User, Scheduled, Checker, Requester, Free, Mail, MaxLosses, MaxSyncs,
    Draft, Request, NoDraft, Op, Page, MaxVersions

VARIABLES
    focus,
    checks, holder, checker, collecting, requester, batch, due, open, active,
    cooling, losses, syncs,
    draft, sending, used, posts, delivery, mailed, confirmed, deaths,
    doc, chunks, markdown, digest, owner, op, page, versions, restarts, aborted

checkVars == <<checks, holder, checker, collecting, requester, batch, due, open, active,
               cooling, losses, syncs>>
deliveryVars == <<draft, sending, used, posts, delivery, mailed, confirmed, deaths>>
knowledgeVars ==
    <<doc, chunks, markdown, digest, owner, op, page, versions, restarts, aborted>>

Queue == INSTANCE CheckQueue WITH queue <- checks, worker <- checker, client <- requester,
                                  Worker <- Checker, Client <- Requester
Delivery == INSTANCE MailDelivery
Index == INSTANCE KnowledgeIndex WITH file <- markdown, crashes <- restarts

ASSUME ChecksAssumption == Queue!HolderAssumption /\ Queue!LossBounds /\ IsFiniteSet(User)
ASSUME DeliveryAssumption == Delivery!MailAssumption
ASSUME IndexAssumption == Index!KnowledgeAssumption

PartsInit ==
    /\ focus \in {"jobs", "checks", "mail", "index"}
    /\ Init /\ Queue!Init /\ Delivery!Init /\ Index!Init

PartsNext ==
    \/ /\ focus = "jobs" /\ Next
       /\ UNCHANGED <<focus, checkVars, deliveryVars, knowledgeVars>>
    \/ /\ focus = "checks" /\ Queue!Next
       /\ UNCHANGED <<focus, vars, deliveryVars, knowledgeVars>>
    \/ /\ focus = "mail" /\ Delivery!Next
       /\ UNCHANGED <<focus, vars, checkVars, knowledgeVars>>
    \/ /\ focus = "index" /\ Index!Next
       /\ UNCHANGED <<focus, vars, checkVars, deliveryVars>>

PartsSpec ==
    PartsInit /\ [][PartsNext]_<<focus, vars, checkVars, deliveryVars, knowledgeVars>>

-----------------------------------------------------------------------------
(* Properties *)

\* Jobs, checks, drafts and operations on a document keep their shapes.
StoresTypeOK == TypeOK /\ Queue!TypeOK /\ Delivery!TypeOK /\ Index!TypeOK

\* Checks start strictly in order: clicks in several tabs, several API processes and
\* the scheduler never insert a second active check of one origin, and who holds the
\* global lock for a check owns the oldest row, so that not even after lost connections
\* and requeues does the end of a check remove another user's row.
ChecksInOrder == Queue!OneRowPerOrigin /\ Queue!OnlyOldestRuns /\ Queue!HolderOwnsOldest

\* A scheduled tick does not duplicate work already pending for the user.
TickOnlyWhenIdle == Queue!TickOnlyWhenIdle

\* However often a draft is sent again after an answer, a connection or the server
\* was lost, its mail leaves once.
SentOnce == Delivery!SentOnce

\* Once no operation on a document is under way, its chunks are those of its title
\* and text: an index that took long never replaces the work of a newer one.
IndexIsCurrent == Index!IndexIsCurrent
=============================================================================
