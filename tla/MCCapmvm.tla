------------------------------ MODULE MCCapmvm ------------------------------
(* Constants for model-checking Capmvm. *)
EXTENDS Capmvm

Host(e, c) == [endpoint |-> e, cp |-> c]

\* A pool and the one it is edited to; host 1 is in neither.
OnePool == { <<Host(2, TRUE)>> }
OtherPool == { <<Host(2, TRUE), Host(3, FALSE)>> }

Unpinned == [m \in Machines |-> NoHost]
Hashes == [m \in Machines |-> 3]
=============================================================================
