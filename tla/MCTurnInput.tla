---------------------------- MODULE MCTurnInput ----------------------------
(* Small instances of TurnInput: two inputs, so that one can be under offer *)
(* while the other waits, and two turns, so that a restart meets a dead one *)
(* before or after another has ended.                                       *)
EXTENDS TurnInput

CONSTANTS i1, i2, t1, t2
MCInputs == {i1, i2}
MCTurns == {t1, t2}
=============================================================================
