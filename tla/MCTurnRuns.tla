----------------------------- MODULE MCTurnRuns -----------------------------
(* Small instances of TurnRuns: one call that may simply run again and one  *)
(* that may not, asked for by each of a few passes.                         *)
EXTENDS TurnRuns

CONSTANTS safe, risky
MCCalls == {safe, risky}
MCRerunnable == {safe}
=============================================================================
