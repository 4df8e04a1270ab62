------------------------------- MODULE MCDesk -------------------------------
(* Instance of module DeskReader, and with it of Desk, for TLC. *)
EXTENDS DeskReader, TLC

\* Processes of one kind are interchangeable, and so are the idempotency
\* keys and the bodies: the desk compares them and does nothing else.
Symmetry == Permutations(Instances) \cup Permutations(Keys)
              \cup Permutations(Bodies)
=============================================================================
