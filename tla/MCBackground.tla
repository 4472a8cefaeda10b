---------------------------- MODULE MCBackground ----------------------------
(* Small instances of Background: a task dispatched the default way, one    *)
(* detached, and a monitor with two events and its exit.                    *)
EXTENDS Background

CONSTANTS ends, stays
=============================================================================
