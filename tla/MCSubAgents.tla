---------------------------- MODULE MCSubAgents ----------------------------
(* Small instances of SubAgents: two members, so that a cap of one can      *)
(* refuse one, on two instances of different size.                          *)
EXTENDS SubAgents, TLC

CONSTANTS a1, a2, small, large
MCInstances == {small, large}
MCConcurrency == (small :> 1) @@ (large :> 2)
MCAgents == {a1, a2}
MCObject == (a1 :> 2) @@ (a2 :> 1)
=============================================================================
