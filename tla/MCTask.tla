------------------------------- MODULE MCTask -------------------------------
(* Task execution for TLC: tasks are interchangeable. *)
EXTENDS Task, TLC

Symmetry == Permutations(Tasks) \cup Permutations(Leads)

\* One thing at a time is amended or withdrawn, rebriefed, handed over or held.
Changed(t) == Len(task[t]) > 1 \/ (task[t] # <<>> /\ task[t][1].state = "withdrawn")

OneChange ==
    Cardinality({t \in Tasks : Changed(t)}) + Cardinality(held)
        + (brief - 1) + (ownership - 1) <= 1
=============================================================================
