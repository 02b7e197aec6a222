--------------------------- MODULE MCWorkbenchJobs ---------------------------
(* Model-checking instance of WorkbenchJobs.                                *)
EXTENDS WorkbenchJobs, TLC

\* Two automations that put the ticket after and before another step, so that
\* an edit between a failure and a retry can move it.
MCPlans == {<<"ai", "ticket">>, <<"ticket", "ai">>}

\* One short automation, for the runs about messages rather than steps.
MCOnePlan == {<<"ticket">>}

Symmetry == Permutations(Job) \cup Permutations(Worker) \cup Permutations(Client)

SymmetryOfMessages == Symmetry \cup Permutations(Message)
=============================================================================
