--------------------------- MODULE MCDerperServer ---------------------------
(***************************************************************************)
(* Two connections, two keys and two tailnets.  The policies admit the     *)
(* keys to a tailnet each, move the first key to the other tailnet, which  *)
(* is then shared, or leave the second key and its tailnet out; a tailnet  *)
(* may go and come back.                                                   *)
(***************************************************************************)
EXTENDS DerperServer, TLC

CONSTANTS c1, c2, k1, k2, g1, g2, t1, t2

MCKeyOf == (c1 :> k1) @@ (c2 :> k2)
MCTailnetOf == (g1 :> t1) @@ (g2 :> t2)
Until(g, u) == [grant |-> g, until |-> u]
Offer(a, b, shared) ==
  [keys |-> (k1 :> a) @@ (k2 :> b),
   group |-> [t \in Tailnets |-> IF t \in shared THEN "shared" ELSE "owner"]]
MCBoot == Offer(Until(g2, 2), Until(g1, 2), {})
MCOffers ==
  {MCBoot,
   Offer(Until(g1, 2), None, {t1}),
   Offer(Until(g2, 2), None, {})}

=============================================================================
