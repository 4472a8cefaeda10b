---------------------------- MODULE BudgetPause ----------------------------
(***************************************************************************)
(* The pauses of a loop at its cost cap: the `budget` records and the one  *)
(* waiter of BudgetPauseRegistry, the gate that opens a pause for a turn's *)
(* budget (waitForBudgetRaise; one at a time for each SharedCostBudget),   *)
(* and the raise route. A pause is numbered in the order of the inserts,   *)
(* its newest record last. A raise too low to lift the cap is refused      *)
(* before it touches anything and is left out.                             *)
(***************************************************************************)
EXTENDS RunState, FiniteSets, Sequences

CONSTANTS
    Raises,    \* raise requests
    MaxPause   \* bound: pauses recorded

ASSUME BudgetPauseAssumption == IsFiniteSet(Raises) /\ MaxPause \in Nat

VARIABLES
    pause,    \* the pauses' records
    kept,     \* raises stored with `delivered: false`
    waiter,   \* the pause this process's waiter is for; 0: none
    gate,     \* the gate of each turn's budget: where it is, its pause, what it read
    lapses,   \* a lapse() that has dropped its waiter and not yet settled the records
    raise,    \* each raise request: where it is, its pause, the waiter it saw
    applied,  \* history: how often a pause's raise was applied to a budget
    overtaken,\* history: pauses raised just before their gate held its waiter
    late      \* history: turns whose gate was on its way when a lapse passed it

pVars == <<pause, kept, waiter, gate, lapses, raise, applied, overtaken, late>>

Pauses == 1..Len(pause)
Asking == {p \in Pauses : pause[p] = "pending"}
Newest == CHOOSE p \in Asking : \A o \in Asking : o <= p
Waits(t) == gate[t].at = "wait"
Shut == [at |-> "none", p |-> 0, read |-> "none"]
NoRaise == [at |-> "idle", p |-> 0, sees |-> FALSE]
Told == [NoRaise EXCEPT !.at = "done"]

PInit ==
    /\ pause = <<>> /\ kept = {} /\ waiter = 0 /\ lapses = FALSE
    /\ gate = [t \in 1..MaxTurn |-> Shut]
    /\ raise = [r \in Raises |-> NoRaise]
    /\ applied = [p \in 1..MaxPause |-> 0] /\ overtaken = {} /\ late = {}

At(t, to) == gate' = [gate EXCEPT ![t].at = to]

\* release(): the waiter goes, whoever's it is, and its gate stops waiting;
\* `then` is where that gate goes.
Drop == waiter' = 0 /\ Unpark(IF waiter = 0 THEN 0 ELSE 1)
Opening == {t \in 1..MaxTurn : gate[t].at \notin {"none", "wait", "lift"}}
Passes(by) == late' = late \cup (Opening \ by)

\* (mutant: the waiter is dropped and its gate not told)
Untold == gate

Woken == [t \in 1..MaxTurn |-> IF Waits(t) /\ gate[t].p = waiter THEN Shut ELSE gate[t]]

-----------------------------------------------------------------------------
(* The gate: waitForBudgetRaise, BudgetPauseRegistry.open *)

\* A loop on the running turn's budget is at the cap: the root's, or a
\* sub-agent's, which may outlive the turn. A re-driven turn looks first.
GateOpens(child) ==
    /\ turn \in {"running"} \cup (IF child THEN {"sealed", "ending", "closing"} ELSE {})
    /\ ~stopped /\ gate[turns].at = "none"
    /\ IF resumed THEN At(turns, "look") /\ UNCHANGED <<waiter, marks, late>>
       ELSE /\ Drop /\ gate' = [Woken EXCEPT ![turns].at = "lapse"] /\ Passes({turns})
    /\ UNCHANGED <<pause, kept, lapses, raise, applied, overtaken, turnVars, crashes, faults>>

\* The newest record of the loop, as it is when it is read.
GateLooks(t) ==
    /\ gate[t].at = "look"
    /\ gate' = [gate EXCEPT ![t] =
           [at |-> "seen", p |-> Len(pause),
            read |-> IF pause = <<>> THEN "none"
                     ELSE IF Len(pause) \in kept THEN "kept" ELSE pause[Len(pause)]]]
    /\ UNCHANGED <<pause, kept, waiter, lapses, raise, applied, overtaken, late, runVars>>

\* park(): a waiter left from an earlier pause is over; one park less, one more.
ParksOn(t, p) ==
    /\ waiter' = p /\ gate' = [Woken EXCEPT ![t] = [at |-> "wait", p |-> p, read |-> "none"]]
    /\ IF waiter = 0 THEN Park
       ELSE \* unpark() of the last park writes before park() does
            /\ UNCHANGED parks
            /\ IF parks = 1
               THEN /\ writes' = [set \in BOOLEAN |-> writes[set] + 1]
                    /\ crossed' = TRUE /\ UNCHANGED awaiting
               ELSE NoWrite

GateResumes(t) ==
    /\ gate[t].at = "seen" /\ gate[t].read = "pending" /\ ParksOn(t, gate[t].p)
    /\ UNCHANGED <<pause, kept, lapses, raise, applied, overtaken, late, turnVars, crashes, faults>>

\* A raise made while the turn was down is marked delivered first; a failure
\* stops the turn at its cap.
GateTakes(t) ==
    /\ gate[t].at = "seen" /\ gate[t].read = "kept"
    /\ \/ kept' = kept \ {gate[t].p} /\ At(t, "lift") /\ UNCHANGED faults
       \/ Fault /\ gate' = [gate EXCEPT ![t] = Shut] /\ UNCHANGED kept
    /\ UNCHANGED <<pause, waiter, lapses, raise, applied, overtaken, late, turnVars, marks, crashes>>

\* ... and applied to the budget.
GateLifts(t) ==
    /\ gate[t].at = "lift"
    /\ applied' = [applied EXCEPT ![gate[t].p] = @ + 1]
    /\ gate' = [gate EXCEPT ![t] = Shut]
    /\ UNCHANGED <<pause, kept, waiter, lapses, raise, overtaken, late, runVars>>

\* Neither: lapse("superseded"), its waiter here, its records in the next step.
GateSupersedes(t) ==
    /\ gate[t].at = "seen" /\ gate[t].read \notin {"pending", "kept"}
    /\ Drop /\ gate' = [Woken EXCEPT ![t] = [Shut EXCEPT !.at = "lapse"]] /\ Passes({t})
    /\ UNCHANGED <<pause, kept, lapses, raise, applied, overtaken, turnVars, crashes, faults>>

\* (mutant: the update of all records is not conditional on "pending")
SettleAny == pause' = [p \in Pauses |-> "cancelled"]

SettlePauses == pause' = [p \in Pauses |-> IF pause[p] = "pending" THEN "cancelled" ELSE pause[p]]

GateLapses(t) ==
    /\ gate[t].at = "lapse" /\ At(t, "insert")
    /\ \/ SettlePauses /\ UNCHANGED faults
       \/ Fault /\ UNCHANGED pause
    /\ UNCHANGED <<kept, waiter, lapses, raise, applied, overtaken, late, turnVars, marks, crashes>>

GateInserts(t) ==
    /\ gate[t].at = "insert" /\ Len(pause) < MaxPause
    /\ pause' = Append(pause, "pending")
    /\ gate' = [gate EXCEPT ![t] = [at |-> "hold", p |-> Len(pause) + 1, read |-> "none"]]
    /\ UNCHANGED <<kept, waiter, lapses, raise, applied, overtaken, late, runVars>>

GateHolds(t) ==
    /\ gate[t].at = "hold" /\ ParksOn(t, gate[t].p)
    /\ UNCHANGED <<pause, kept, lapses, raise, applied, overtaken, late, turnVars, crashes, faults>>

\* The abort listener, or the check after the pause was set up: cancel().
GateWithdraws(t) ==
    /\ Waits(t) /\ t \in stops
    /\ Drop /\ gate' = Woken /\ lapses' = TRUE /\ Passes({})
    /\ UNCHANGED <<pause, kept, raise, applied, overtaken, turnVars, crashes, faults>>

\* The records of a lapse are settled, or are left pending by a failure.
LapseLands ==
    /\ lapses /\ lapses' = FALSE
    /\ \/ SettlePauses /\ UNCHANGED faults
       \/ Fault /\ UNCHANGED pause
    /\ UNCHANGED <<kept, waiter, gate, raise, applied, overtaken, late, turnVars, marks, crashes>>

-----------------------------------------------------------------------------
(* The raise route *)

RaiseGoes(r, to) ==
    raise' = [raise EXCEPT ![r] = IF to = "done" THEN Told ELSE [@ EXCEPT !.at = to]]

\* getPendingRecord().
RaiseFind(r) ==
    /\ turn \notin {"down", "lapsing"} /\ raise[r].at = "idle" /\ Asking # {}
    /\ raise' = [raise EXCEPT ![r] = [at |-> "found", p |-> Newest, sees |-> FALSE]]
    /\ UNCHANGED <<pause, kept, waiter, gate, lapses, applied, overtaken, late, runVars>>

\* Is this process's turn waiting on it? The write that follows says so.
RaiseLooks(r) ==
    /\ raise[r].at = "found"
    /\ raise' = [raise EXCEPT ![r].at = "sent", ![r].sees = (waiter = raise[r].p)]
    /\ UNCHANGED <<pause, kept, waiter, gate, lapses, applied, overtaken, late, runVars>>

\* (mutant: every raise is stored as one no turn took)
StoredAlways(r) == kept \cup {raise[r].p}

Stored(r) == IF raise[r].sees THEN kept ELSE kept \cup {raise[r].p}

\* settle(), conditional on "pending", with whether a turn takes it.
RaiseSettles(r) ==
    LET p == raise[r].p IN
    /\ raise[r].at = "sent"
    /\ IF pause[p] = "pending"
       THEN /\ pause' = [pause EXCEPT ![p] = "raised"] /\ RaiseGoes(r, "won")
            /\ kept' = Stored(r)
            /\ overtaken' = IF raise[r].sees \/ \A t \in 1..MaxTurn : gate[t].p # p
                            THEN overtaken ELSE overtaken \cup {p}
       ELSE RaiseGoes(r, "done") /\ UNCHANGED <<pause, kept, overtaken>>
    /\ UNCHANGED <<waiter, gate, lapses, applied, late, runVars>>

\* It saw the turn waiting: whoever waits now is woken with the raise.
RaiseWakes(r) ==
    /\ raise[r].at = "won" /\ raise[r].sees /\ RaiseGoes(r, "done")
    /\ Drop /\ gate' = Woken
    /\ applied' = IF waiter = 0 THEN applied
                  ELSE [applied EXCEPT ![raise[r].p] = @ + 1]
    /\ UNCHANGED <<pause, kept, lapses, overtaken, late, turnVars, crashes, faults>>

\* It saw none: isParked(), and clear() after it. `more`: a question is pending.
RaiseChecks(r, more) ==
    /\ raise[r].at = "won" /\ ~raise[r].sees
    /\ RaiseGoes(r, IF Asking # {} \/ more THEN "done" ELSE "clear")
    /\ UNCHANGED <<pause, kept, waiter, gate, lapses, applied, overtaken, late, runVars>>

RaiseClears(r) ==
    /\ raise[r].at = "clear" /\ RaiseGoes(r, "done") /\ Clear
    /\ UNCHANGED <<pause, kept, waiter, gate, lapses, applied, overtaken, late, turnVars, crashes, faults>>

-----------------------------------------------------------------------------
(* The turn around them *)

\* retireOrphans(): a live pause is left alone.
RetirePauses == IF waiter = 0 THEN SettlePauses /\ Passes({}) ELSE UNCHANGED <<pause, late>>

PCrash ==
    /\ waiter' = 0 /\ lapses' = FALSE /\ gate' = [t \in 1..MaxTurn |-> Shut]
    /\ raise' = [r \in Raises |-> IF raise[r].at = "idle" THEN raise[r] ELSE Told]
    /\ UNCHANGED <<pause, kept, applied, overtaken>> /\ late' = {}

PTypeOK ==
    /\ pause \in Seq({"pending", "raised", "cancelled"}) /\ Len(pause) <= MaxPause
    /\ kept \subseteq Pauses /\ waiter \in 0..Len(pause) /\ lapses \in BOOLEAN
    /\ gate \in [1..MaxTurn -> [at : {"none", "look", "seen", "lift", "lapse", "insert",
                                      "hold", "wait"},
                                p : 0..Len(pause),
                                read : {"none", "pending", "kept", "raised", "cancelled"}]]
    /\ raise \in [Raises -> [at : {"idle", "found", "sent", "won", "clear", "done"},
                             p : 0..Len(pause), sees : BOOLEAN]]
    /\ applied \in [1..MaxPause -> Nat]
    /\ overtaken \subseteq Pauses /\ late \subseteq 1..MaxTurn
=============================================================================
