----------------------------- MODULE UpdateInbox -----------------------------
(***************************************************************************)
(* What the workbench promises about the updates of an issue, without      *)
(* revisions, jobs, locks or retention: a message is offered until a job   *)
(* takes it, an update of a message nobody works on offers it again, and   *)
(* work that ends behind the newest update offers it again.  Module        *)
(* WorkbenchJobs implements it.                                            *)
(***************************************************************************)
CONSTANT Message

VARIABLES
    shown,     \* absent, offered, taken, dismissed or gone
    busy,      \* a job works on the message
    answered   \* some job took the newest update of the message

vars == <<shown, busy, answered>>

Init ==
    /\ shown = [m \in Message |-> "absent"]
    /\ busy = [m \in Message |-> FALSE]
    /\ answered = [m \in Message |-> FALSE]

Present(m) == shown[m] \in {"offered", "taken", "dismissed"}

\* An update stays with the work in progress and with a dismissal.
Arrive(m) ==
    /\ shown[m] # "gone"
    /\ answered' = [answered EXCEPT ![m] = FALSE]
    /\ shown' = [shown EXCEPT ![m] = IF @ = "dismissed" \/ (@ = "taken" /\ busy[m])
                                     THEN @ ELSE "offered"]
    /\ UNCHANGED busy

\* A submit takes the newest update; a retry may work on an older one.
Take(m) ==
    /\ shown[m] \in {"offered", "taken"} /\ ~busy[m]
    /\ shown' = [shown EXCEPT ![m] = "taken"]
    /\ busy' = [busy EXCEPT ![m] = TRUE]
    /\ \E a \in {TRUE, answered[m]} : answered' = [answered EXCEPT ![m] = a]

End(m) ==
    /\ busy[m]
    /\ busy' = [busy EXCEPT ![m] = FALSE]
    /\ \/ answered[m] /\ UNCHANGED shown
       \/ shown[m] = "dismissed" /\ UNCHANGED shown
       \/ shown[m] = "taken" /\ shown' = [shown EXCEPT ![m] = "offered"]
    /\ UNCHANGED answered

Dismiss(m) ==
    /\ Present(m)
    /\ shown' = [shown EXCEPT ![m] = "dismissed"]
    /\ UNCHANGED <<busy, answered>>

Restore(m) ==
    /\ Present(m)
    /\ shown' = [shown EXCEPT ![m] = IF busy[m] THEN "taken" ELSE "offered"]
    /\ UNCHANGED <<busy, answered>>

Drop(m) ==
    /\ Present(m)
    /\ shown' = [shown EXCEPT ![m] = "gone"]
    /\ busy' = [busy EXCEPT ![m] = FALSE]
    /\ UNCHANGED answered

Next == \E m \in Message : \/ Arrive(m) \/ Take(m) \/ End(m)
                           \/ Dismiss(m) \/ Restore(m) \/ Drop(m)

Spec == Init /\ [][Next]_vars

\* No message rests in the taken state without an answer to its newest update.
NothingHidden == \A m \in Message : shown[m] = "taken" => busy[m] \/ answered[m]
=============================================================================
