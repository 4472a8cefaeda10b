------------------------------ MODULE MCWaits ------------------------------
(* Small instances of Waits. A question that blocks and a card that does    *)
(* not, so that a crash can meet the park of the one while the answer of    *)
(* the other is on its way; and a question that blocks beside two pauses    *)
(* and a raise, so that waits of both registries overlap and a raise can be *)
(* late for its pause.                                                      *)
EXTENDS Waits

CONSTANTS blocks, card, p1, r1
=============================================================================
