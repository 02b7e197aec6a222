---------------------------- MODULE MCServerLive ----------------------------
(* What the server must end: the steps of an automation job (the constants  *)
(* and variables of WorkbenchJobs), the checks of a user, and the rotation  *)
(* between automations.  They share no row, so a behaviour is one of the    *)
(* part in focus, and the other parts keep their initial states.            *)
EXTENDS MCWorkbenchJobs

CONSTANTS
    User, Checker, Requester, Free, Mail, MaxLosses, MaxSyncs,
    u1, u2, a1, a2, a3, b1, Automation, MaxQueue, MaxReorders

\* Three automations of one user and one of another.
Owner == (a1 :> u1) @@ (a2 :> u1) @@ (a3 :> u1) @@ (b1 :> u2)

VARIABLES
    focus,
    checks, holder, checker, collecting, requester, batch, due, open, active,
    cooling, losses, syncs,
    waiting, position, last, reorders, passed

checkVars == <<checks, holder, checker, collecting, requester, batch, due, open, active,
               cooling, losses, syncs>>
rotationVars == <<waiting, position, last, reorders, passed>>

Queue == INSTANCE CheckQueue WITH queue <- checks, worker <- checker, client <- requester,
                                  Worker <- Checker, Client <- Requester,
                                  User <- {u1}, Scheduled <- {u1}
Rotation == INSTANCE JobRotation WITH queue <- waiting

ASSUME Queue!HolderAssumption /\ Queue!LossBounds
ASSUME RotationHolds == Rotation!OwnerAssumption /\ Rotation!RotationBounds

\* A part that does not move begins in one of its initial states, whichever.
Settled ==
    /\ focus # "jobs" => plan = CHOOSE p \in Plans : TRUE
    /\ focus # "rotation" => position = CHOOSE p \in Rotation!Ranks : TRUE

PartsInit ==
    /\ focus \in {"jobs", "checks", "rotation"}
    /\ Init /\ Queue!Init /\ Rotation!Init /\ Settled

PartsNext ==
    \/ focus = "jobs" /\ Next /\ UNCHANGED <<focus, checkVars, rotationVars>>
    \/ focus = "checks" /\ Queue!Next /\ UNCHANGED <<focus, vars, rotationVars>>
    \/ focus = "rotation" /\ Rotation!Next /\ UNCHANGED <<focus, vars, checkVars>>

\* No fair action of a part is enabled in its initial states, so the fairness of
\* one part asks nothing of the behaviours of another.
PartsSpec ==
    /\ PartsInit /\ [][PartsNext]_<<focus, vars, checkVars, rotationVars>>
    /\ Fairness /\ Queue!Fairness /\ WF_rotationVars(Rotation!PickSome)

-----------------------------------------------------------------------------
(* Properties *)

\* Every check that was accepted ends, whatever connections are lost and
\* whatever mailbox refreshes hold the user's lock on the way.
EveryCheckEnds == Queue!EveryCheckEnds

\* The oldest queued job is overtaken by at most one job of each of its user's
\* other automations, however many jobs arrive meanwhile.
BoundedOvertaking == Rotation!BoundedOvertaking

\* An automation whose backlog never empties is served again and again: neither
\* its user's other automations nor another user's jobs shut it out.
EveryAutomationServed == Rotation!EveryAutomationServed
=============================================================================
