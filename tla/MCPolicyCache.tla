--------------------------- MODULE MCPolicyCache ---------------------------
(* The policy cache of a host that meets two contents of one revision, a    *)
(* newer revision, and a policy of a second registration, with a clock that *)
(* can be set back by two ticks where one is tolerated.                     *)
EXTENDS PolicyCache

CONSTANTS idA, idB, bodyX, bodyY

MCIds == {idA, idB}
MCBodies == {bodyX, bodyY}

MCIssued ==
  { [id |-> idA, rev |-> 1, body |-> bodyX],
    [id |-> idA, rev |-> 1, body |-> bodyY],
    [id |-> idA, rev |-> 2, body |-> bodyX],
    [id |-> idB, rev |-> 1, body |-> bodyX] }
=============================================================================
