----------------------------- MODULE MCAccounts -----------------------------
(***************************************************************************)
(* Accounts for TLC.  Users, requests and passwords are                    *)
(* interchangeable, and no liveness is checked, so permuting them is sound.*)
(***************************************************************************)
EXTENDS Accounts, TLC

Symmetry == Permutations(Users) \cup Permutations(Requests) \cup Permutations(Passwords)
=============================================================================
