----------------------------- MODULE MCMachine -----------------------------
(* Constants for model-checking MachineController. *)
EXTENDS MachineRefinement, TLC

\* The Machine's failure domain is left to the hash, or set by Cluster API.
Unpinned == [m \in Machines |-> NoHost]
Pinned == [m \in Machines |-> 2]
Hashes == [m \in Machines |-> 3]

UIDSymmetry == Permutations(UIDs)
=============================================================================
