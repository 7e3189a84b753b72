----------------------------- MODULE Admission -----------------------------
(***************************************************************************)
(* What the relay promises about its clients: a connection is open for a   *)
(* key under a grant only if the policy admits the pair, a new policy      *)
(* closes at once what it does not admit, an admission that has lapsed     *)
(* does not come back by itself, and what has lapsed is closed in the end. *)
(***************************************************************************)
EXTENDS Naturals

CONSTANTS
  Conns,   \* connections
  Keys,    \* node keys of clients
  Grants   \* grants of the node

VARIABLES
  version, \* the policies published so far
  inForce, \* the pairs of a key and a grant that are admitted now
  open     \* the pair under which each connection is open, or Closed

vars == <<version, inForce, open>>

Pairs == Keys \X Grants
Closed == <<>>

Init ==
  /\ version = 0
  /\ inForce = {}
  /\ open = [c \in Conns |-> Closed]

\* The connections that a set of admitted pairs leaves open.
Kept(pairs) == [c \in Conns |-> IF open[c] \in pairs THEN open[c] ELSE Closed]

\* A new policy.
Publish ==
  /\ version' = version + 1
  /\ inForce' \subseteq Pairs
  /\ open' = Kept(inForce')

\* Time passes.
Lapse ==
  /\ inForce' \subseteq inForce
  /\ UNCHANGED <<version, open>>

Admit(c) ==
  /\ open[c] = Closed
  /\ open'[c] \in inForce
  /\ open' = [open EXCEPT ![c] = open'[c]]
  /\ UNCHANGED <<version, inForce>>

Leave(c) ==
  /\ open' = [open EXCEPT ![c] = Closed]
  /\ UNCHANGED <<version, inForce>>

Reap ==
  /\ open' = Kept(inForce)
  /\ UNCHANGED <<version, inForce>>

Next == Publish \/ Lapse \/ (\E c \in Conns : Admit(c) \/ Leave(c)) \/ Reap

SafetySpec == Init /\ [][Next]_vars

Spec == SafetySpec /\ WF_vars(Reap)

=============================================================================
