---------------------------- MODULE DecisionBoard ----------------------------
(***************************************************************************)
(* What the store of pending decisions promises, whoever uses it: an item  *)
(* is asked about once, taken out of "pending" once, and never changed     *)
(* again. An item whose record could not be persisted is volatile: a       *)
(* restart may take it back to before its decision, and only such an item. *)
(***************************************************************************)
EXTENDS Naturals

CONSTANTS Items,     \* the records
          Verdicts   \* what may be decided

VARIABLES outcome,   \* of each item: "absent", "pending" or its verdict
          volatile   \* the items only this process remembers

board == <<outcome, volatile>>

Init == /\ outcome = [i \in Items |-> "absent"]
        /\ volatile = {}

\* Cards go out for S, of which V could not be persisted.
Ask(S, V) ==
    /\ \A i \in S : outcome[i] = "absent"
    /\ V \subseteq S
    /\ outcome' = [i \in Items |-> IF i \in S THEN "pending" ELSE outcome[i]]
    /\ volatile' = volatile \cup V

\* S leaves "pending" for one verdict.
Decide(S, v) ==
    /\ \A i \in S : outcome[i] = "pending"
    /\ outcome' = [i \in Items |-> IF i \in S THEN v ELSE outcome[i]]
    /\ UNCHANGED volatile

\* The process is gone, and what only it remembered.
Forget ==
    /\ \A i \in Items : outcome'[i] # outcome[i] =>
          i \in volatile /\ outcome'[i] \in {"absent", "pending"}
    /\ volatile' = {}

Next == \/ \E S \in SUBSET Items : \E V \in SUBSET S : Ask(S, V)
        \/ \E S \in SUBSET Items, v \in Verdicts : Decide(S, v)
        \/ Forget

Spec == Init /\ [][Next]_board
=============================================================================
