------------------------- MODULE MCIdentityRefresh -------------------------
(* A small instance of IdentityRefresh: the second tailnet is added later,  *)
(* and its device list shares a key with one version of the first's list.   *)
EXTENDS IdentityRefresh

CONSTANTS a, b, k1, k2

MCDevices == [t \in {a, b} |-> IF t = a THEN <<{k1}, {k2}>> ELSE <<{k2}>>]

=============================================================================
