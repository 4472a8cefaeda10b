------------------------------- MODULE Waits -------------------------------
(***************************************************************************)
(* What a root turn waits for besides its approvals: the questions it asks *)
(* and the pauses at its cost cap, over one park count, one mark on the    *)
(* conversation and one life cycle: a fresh turn retires what an earlier   *)
(* process left, a re-driven one adopts it; a stop withdraws it; the end   *)
(* closes it; a boot drives the turn again or lapses what it waited for.   *)
(* A turn starts when the last is over (turns that overlap: Approvals).    *)
(***************************************************************************)
EXTENDS Questions, BudgetPause

vars == <<runVars, qVars, pVars>>

Init == RunInit /\ QInit /\ PInit

Ends(at, to) == turn = at /\ turn' = to /\ UNCHANGED <<resumed, stops, turns>>

StartTurn ==
    /\ turn = "idle" /\ turns < MaxTurn
    /\ turn' = "fresh" /\ turns' = turns + 1 /\ resumed' = FALSE
    /\ UNCHANGED <<stops, marks, crashes, faults, qVars, pVars>>

\* retireOrphanedDecisions, best effort; then the mailbox opens.
Retire ==
    /\ Ends("fresh", "running")
    /\ \/ RetireQuestions /\ RetirePauses /\ UNCHANGED faults
       \/ Fault /\ UNCHANGED <<question, pause, late>>
    /\ UNCHANGED <<marks, crashes, owed, held, call, earlier, adopted, handed, withdrawn, post, got,
                   torn, missed, kept, waiter, gate, lapses, raise, applied, overtaken>>

Stop ==
    /\ turn \in {"fresh", "adopting", "taking", "running"} /\ ~stopped
    /\ stops' = stops \cup {turns}
    /\ UNCHANGED <<turn, resumed, turns, marks, crashes, faults, qVars, pVars>>

\* The last boundary: nothing in flight; a sub-agent may sit at the cap.
Seal ==
    /\ Ends("running", "sealed") /\ InFlight = {}
    /\ stopped \/ {q \in Asked : call[q] = "replay"} = {}
    /\ stopped => ~Waits(turns)
    /\ UNCHANGED <<marks, crashes, faults, qVars, pVars>>

\* QuestionRegistry.cancelAll of the turn's end.
EndQuestions ==
    /\ Ends("sealed", "ending") /\ ReleaseAll
    /\ UNCHANGED <<crashes, faults, question, owed, call, earlier, adopted, handed, withdrawn, post,
                   got, torn, missed, pVars>>

SettleQuestions ==
    /\ Ends("ending", "closing")
    /\ \/ SettleOpen /\ UNCHANGED faults
       \/ Fault /\ UNCHANGED question
    /\ UNCHANGED <<marks, crashes, owed, held, call, earlier, adopted, handed, withdrawn, post, got,
                   torn, missed, pVars>>

\* detachPauser, BudgetPauseRegistry.cancel.
EndPauses ==
    /\ Ends("closing", "lapsed") /\ Drop /\ gate' = Woken /\ lapses' = TRUE
    /\ Passes({})
    /\ UNCHANGED <<crashes, faults, pause, kept, raise, applied, overtaken, qVars>>

TurnOver ==
    /\ Ends("lapsed", "idle") /\ ~lapses /\ CallsOver
    /\ UNCHANGED <<marks, crashes, faults, question, owed, held, earlier, adopted, handed, withdrawn,
                   post, got, torn, missed, pVars>>

\* Only a turn that was running is driven again.
Crash ==
    /\ turn # "down" /\ crashes < MaxCrash /\ crashes' = crashes + 1
    /\ turn' = "down" /\ stops' = {} /\ resumed' = (turn \in {"adopting", "taking", "running"})
    /\ MarkCrash /\ QCrash /\ PCrash
    /\ UNCHANGED <<turns, faults>>

Redrive ==
    /\ turn = "down" /\ resumed /\ turn' = "adopting"
    /\ UNCHANGED <<resumed, stops, turns, marks, crashes, faults, qVars, pVars>>

\* prepare() and lapseDecisionsOf a loop that has something pending; the mark is
\* cleared behind it.
BootLapses ==
    /\ turn = "down" /\ CallsOver
    /\ turn' = IF Pending # {} \/ Asking # {} THEN "lapsing" ELSE "idle"
    /\ resumed' = FALSE /\ SettleOpen /\ SettlePauses
    /\ UNCHANGED <<stops, turns, marks, crashes, faults, owed, held, earlier, adopted, handed,
                   withdrawn, post, got, torn, missed, kept, waiter, gate, lapses, raise,
                   applied, overtaken, late>>

BootClears ==
    /\ Ends("lapsing", "idle") /\ Clear
    /\ UNCHANGED <<crashes, faults, qVars, pVars>>

\* The steps of the other module leave this one's state alone.
Lands == (\E set \in BOOLEAN : MarkLands(set)) /\ UNCHANGED <<qVars, pVars>>

CallSteps(q) ==
    Ask(q) \/ Reread(q) \/ TakeEarlier(q) \/ Hold(q) \/ Withdraw(q) \/ WithdrawalLands(q)
        \/ AdoptHands(q)

PostSteps(p) ==
    \/ PostSettle(p) \/ PostHands(p) \/ PostTakesBack(p) \/ PostFindsNobody(p) \/ PostOwes(p)
    \/ PostChecks(p, Asking # {}) \/ PostClears(p)

QSteps ==
    /\ \/ \E q \in Asked : CallSteps(q)
       \/ \E p \in Posts : PostSteps(p)
       \/ AdoptList \/ AdoptMarks \/ AdoptEnds
    /\ UNCHANGED pVars

GateSteps(t) ==
    \/ GateLooks(t) \/ GateResumes(t) \/ GateTakes(t) \/ GateLifts(t) \/ GateSupersedes(t)
    \/ GateLapses(t) \/ GateInserts(t) \/ GateHolds(t) \/ GateWithdraws(t)

RaiseSteps(r) ==
    \/ RaiseLooks(r) \/ RaiseSettles(r) \/ RaiseWakes(r)
    \/ RaiseChecks(r, Parking # {}) \/ RaiseClears(r)

PSteps ==
    /\ \/ \E t \in 1..MaxTurn : GateSteps(t)
       \/ \E r \in Raises : RaiseSteps(r)
       \/ LapseLands
    /\ UNCHANGED qVars

\* What people and models do: nothing says they ever will.
Outside ==
    \/ StartTurn \/ Stop \/ Crash
    \/ (\E p \in Posts, q \in Asked : PostFind(p, q)) /\ UNCHANGED pVars
    \/ ((\E child \in BOOLEAN : GateOpens(child)) \/ (\E r \in Raises : RaiseFind(r)))
           /\ UNCHANGED qVars

TurnSteps ==
    \/ Retire \/ Seal \/ EndQuestions \/ SettleQuestions \/ EndPauses \/ TurnOver
    \/ Redrive \/ BootLapses \/ BootClears

System == TurnSteps \/ Lands \/ QSteps \/ PSteps

Next == Outside \/ System

Spec == Init /\ [][Next]_vars

\* The event loop goes on while it has something to do; a database call returns.
FairSpec == Spec /\ WF_vars(System)

-----------------------------------------------------------------------------
TypeOK == RunTypeOK /\ QTypeOK /\ PTypeOK

\* The answer of a card reaches the model once: only one that a crash or a
\* failed write caught between delivering it and recording that it was may come
\* again. Behind it: the conditional settle, the waiter map, `undelivered`.
AnswerOnce ==
    \A q \in Asked : got[q] <= IF q \in torn THEN 1 + crashes + faults ELSE 1

\* An answer the route accepted is never dropped: it was delivered, is kept for
\* the re-driven turn, or its request is still at it.
AnswerKept ==
    \A q \in Cards : question[q] = "answered" =>
        \/ got[q] > 0 \/ q \in owed \/ q \in torn
        \/ \E p \in Posts : post[p].q = q /\ post[p].at \in {"won", "refused", "owes"}

\* The parks counted are the waits held, of both registries, at every step.
ParksCounted == parks = Cardinality(held \cap Blocking) + IF waiter = 0 THEN 0 ELSE 1

\* With no write under way the mark on the document says whether the turn waits
\* for its user. Two writes under way together may land in either order, a failed
\* one is not tried again, and a mark may be left by a process that died.
MarkIsTrue ==
    Quiet /\ ~crossed /\ faults = 0 =>
        /\ held \cap Blocking # {} \/ waiter # 0 => awaiting
        /\ awaiting => held \cap Blocking # {} \/ waiter # 0 \/ crashes > 0

\* A raise is applied to the budget at most once, and only one that was
\* recorded: woken here, or stored and taken by the re-driven turn, never both.
RaiseOnce ==
    \A p \in 1..MaxPause : applied[p] > 0 =>
        applied[p] = 1 /\ p \in Pauses /\ pause[p] = "raised" /\ p \notin kept

\* A gate waits for a pause that can still be raised, or whose raise is about to
\* wake it. Else the raise came just before the waiter was held, or a gate that a
\* lapse passed on its way goes on and takes the others' pauses with it.
WaitsForOpen ==
    \A t \in 1..MaxTurn : Waits(t) =>
        \/ pause[gate[t].p] = "pending" \/ gate[t].p \in overtaken \/ late # {}
        \/ \E r \in Raises : raise[r].p = gate[t].p /\ raise[r].at = "won" /\ raise[r].sees

\* The records of the pauses, as the promise of the store describes them. None is
\* volatile: an insert that fails, and keeps its record in memory, is left out.
PauseOutcome == [p \in 1..MaxPause |-> IF p \in Pauses THEN pause[p] ELSE "absent"]

PauseBoard == INSTANCE DecisionBoard
    WITH Items <- 1..MaxPause, Verdicts <- {"raised", "cancelled"},
         outcome <- PauseOutcome, volatile <- {}

\* A pause is asked about once, decided once and never changed again: a raise and
\* a lapse racing for it, of this process or the next, cannot both have it.
PausesKeepPromise == PauseBoard!Spec

\* No pause outlives the turn it paused, unless its gate was still opening it
\* when the turn's end lapsed the pauses.
EndsWithTurn ==
    \A t \in 1..MaxTurn :
        Waits(t) /\ (t < turns \/ turn \in {"lapsed", "idle"}) => t \in late

\* A sub-agent still on the budget of a turn that is over stops at the cap:
\* nobody is left to raise it for.
NobodyLeftWaiting == turn = "idle" => waiter = 0

\* A stopped turn does not stay parked on a card or a pause: it ends.
StopEnds == stopped ~> (turn \in {"idle", "down"})

\* An answered question lets its call go on, unless the answer came before the
\* call's waiter was held.
AnsweredGoesOn ==
    \A q \in Blocking :
        (call[q] = "waiting" /\ question[q] = "answered" /\ q \notin missed)
            ~> (call[q] # "waiting")
=============================================================================
