--------------------------- MODULE PolicyRegister ---------------------------
(***************************************************************************)
(* What the node's policy cache promises, with no files, crashes or write  *)
(* errors in sight: one register that holds the newest accepted policy of  *)
(* one node identity.                                                      *)
(*                                                                         *)
(* A policy is accepted only if it does not go back: the same identity, no *)
(* lower revision, and never a second content for the same revision.  Two  *)
(* processes read the register.  The daemon reads in one step, the derper  *)
(* in two (it picks a value up, then installs it), and what either obtains *)
(* was the newest accepted policy when its read began.  PolicyCache        *)
(* implements this module with two files.                                  *)
(***************************************************************************)
EXTENDS PolicyValues

VARIABLES
  held,     \* the newest accepted policy
  loaded,   \* what the daemon last read
  reading,  \* what the derper has picked up and not installed yet
  running   \* the policy the derper enforces

vars == <<held, loaded, reading, running>>

Init ==
  /\ held = None
  /\ loaded = None
  /\ reading = None
  /\ running = None

Accept(p) ==
  /\ held # None => Follows(p, held)
  /\ held' = p
  /\ UNCHANGED <<loaded, reading, running>>

Forget ==
  /\ held' = None
  /\ UNCHANGED <<loaded, reading, running>>

Load ==
  /\ held # None
  /\ loaded' = held
  /\ UNCHANGED <<held, reading, running>>

BeginRead ==
  /\ held # None
  /\ reading' = held
  /\ UNCHANGED <<held, loaded, running>>

EndRead ==
  /\ reading # None
  /\ running # None => Follows(reading, running)
  /\ running' = reading
  /\ reading' = None
  /\ UNCHANGED <<held, loaded>>

AbandonRead ==
  /\ reading' = None
  /\ UNCHANGED <<held, loaded, running>>

DaemonExit ==
  /\ loaded' = None
  /\ UNCHANGED <<held, reading, running>>

DerperExit ==
  /\ reading' = None
  /\ running' = None
  /\ UNCHANGED <<held, loaded>>

Next ==
  \/ \E p \in Policies : Accept(p)
  \/ Forget
  \/ Load
  \/ BeginRead
  \/ EndRead
  \/ AbandonRead
  \/ DaemonExit
  \/ DerperExit

Spec == Init /\ [][Next]_vars

=============================================================================
