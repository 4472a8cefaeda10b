------------------------------ MODULE RunState ------------------------------
(***************************************************************************)
(* One loop's turn as its waits see it, and the mark its conversation      *)
(* carries while the turn is parked on its user (ConversationRunState):    *)
(* a count of parks in this process, and `runState: "awaiting_user"` in    *)
(* the conversation's document, written on the first park and cleared on   *)
(* the last. Writes are issued, not ordered: the driver's connections may  *)
(* land two that are under way together in either order.                   *)
(***************************************************************************)
EXTENDS Naturals

CONSTANTS MaxTurn,   \* bound: turns of the loop
          MaxCrash,  \* bound: process crashes
          MaxFault   \* bound: failed database calls

ASSUME RunStateAssumption ==
    MaxTurn \in Nat \ {0} /\ MaxCrash \in Nat /\ MaxFault \in Nat

VARIABLES
    turn,      \* where the turn is
    resumed,   \* is it driven again after a restart?
    stops,     \* turns whose signal was aborted
    parks,     \* parkCounts of the conversation
    awaiting,  \* the mark in the conversation's document
    writes,    \* writes of the mark under way, by what they set
    crossed,   \* history: two different writes were under way together
    turns, crashes, faults

turnVars == <<turn, resumed, stops, turns>>
marks == <<parks, awaiting, writes, crossed>>
runVars == <<turnVars, marks, crashes, faults>>

stopped == turns \in stops

RunInit ==
    /\ turn = "idle" /\ resumed = FALSE /\ stops = {}
    /\ parks = 0 /\ awaiting = FALSE /\ writes = [set \in BOOLEAN |-> 0]
    /\ crossed = FALSE /\ turns = 0 /\ crashes = 0 /\ faults = 0

Fault == faults < MaxFault /\ faults' = faults + 1

Write(set) ==
    /\ writes' = [writes EXCEPT ![set] = @ + 1]
    /\ crossed' = (crossed \/ writes[~set] > 0)
    /\ UNCHANGED awaiting

NoWrite == UNCHANGED <<awaiting, writes, crossed>>

\* park(): counted at once; only the first park of the conversation writes.
Park ==
    /\ parks' = parks + 1
    /\ IF parks = 0 THEN Write(TRUE) ELSE NoWrite

\* (mutant: every wait that ends clears the mark)
UnparkEach(n) ==
    /\ parks' = parks - n
    /\ IF n > 0 THEN Write(FALSE) ELSE NoWrite

\* unpark(), n times in a row: the last park clears the mark; nobody waits for
\* the write.
Unpark(n) ==
    /\ parks' = parks - n
    /\ IF n > 0 /\ parks = n THEN Write(FALSE) ELSE NoWrite

\* clear(): a park still counted in this process wins.
Clear ==
    /\ UNCHANGED parks
    /\ IF parks = 0 THEN Write(FALSE) ELSE NoWrite

\* A write lands, or fails and is only logged.
MarkLands(set) ==
    /\ writes[set] > 0
    /\ writes' = [writes EXCEPT ![set] = @ - 1]
    /\ \/ awaiting' = set /\ UNCHANGED faults
       \/ Fault /\ UNCHANGED awaiting
    /\ UNCHANGED <<turnVars, parks, crossed, crashes>>

\* A crash: what is under way lands or is lost, the counts are gone.
MarkCrash ==
    /\ parks' = 0 /\ writes' = [set \in BOOLEAN |-> 0] /\ UNCHANGED crossed
    /\ awaiting' \in {awaiting} \cup {set \in BOOLEAN : writes[set] > 0}

Quiet == writes = [set \in BOOLEAN |-> 0]

RunTypeOK ==
    /\ turn \in {"idle", "fresh", "adopting", "taking", "running", "sealed",
                 "ending", "closing", "lapsed", "down", "lapsing"}
    /\ resumed \in BOOLEAN /\ stops \subseteq 1..MaxTurn /\ parks \in Nat
    /\ awaiting \in BOOLEAN /\ writes \in [BOOLEAN -> Nat] /\ crossed \in BOOLEAN
    /\ turns \in 0..MaxTurn /\ crashes \in 0..MaxCrash /\ faults \in 0..MaxFault
=============================================================================
