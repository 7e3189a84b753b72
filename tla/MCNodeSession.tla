--------------------------- MODULE MCNodeSession ---------------------------
(***************************************************************************)
(* NodeSession with the processes that start later interchangeable.        *)
(***************************************************************************)
EXTENDS NodeSession, TLC

Later == Permutations(Instances \ {First})

=============================================================================
