----------------------------- MODULE TaskWakes -----------------------------
(***************************************************************************)
(* TaskNotificationDelivery for one root conversation: a notice that       *)
(* background work owes it goes into the running turn's mailbox, or wakes  *)
(* a turn of its own. One wake at a time; it waits for the turn that holds *)
(* the conversation, and notices that come meanwhile join it. The turn is  *)
(* modelled as far as the wake sees it. What an open mailbox accepts has   *)
(* reached the conversation: that is TurnInput's promise. Turns that a     *)
(* stop lets overlap are Approvals' subject.                               *)
(***************************************************************************)
EXTENDS Naturals, FiniteSets

CONSTANTS Tasks,     \* async tasks
          MaxSeq,    \* bound: events of the watched workspace task
          MaxTurn,   \* bound: turns the user starts
          MaxFault   \* bound: failed database or workspace calls

ASSUME TaskWakesAssumption ==
    /\ IsFiniteSet(Tasks) /\ Tasks \cap Nat = {}
    /\ MaxSeq \in Nat /\ MaxTurn \in Nat /\ MaxFault \in Nat

Frames == 1..(MaxSeq + 1)      \* the workspace task's events, and its exit
Notices == Tasks \cup Frames
Joiners == Frames              \* notices that may join a turn they did not start

VARIABLES
    turn,    \* the conversation's turn: where it is, and what started it
    turns,   \* turns the user started
    wake,    \* the pending wake: where runWake is, its queue, what woke its turn
    heard,   \* how often each notice reached the conversation
    failed,  \* notices whose hand-over failed; logged, not tried again
    faults

wakeVars == <<turn, turns, wake, heard, failed, faults>>

NoTurn == [at |-> "none", by |-> "nobody"]
NoWake == [at |-> "none", queue |-> {}, woken |-> {}]
Open == turn.at = "open"
Runs == turn.at \notin {"none", "down"}
Registered == wake.at \in {"appending", "requesting", "running"}

WakesInit ==
    /\ turn = NoTurn /\ turns = 0 /\ wake = NoWake
    /\ heard = [n \in Notices |-> 0] /\ failed = {} /\ faults = 0

Fault == faults < MaxFault /\ faults' = faults + 1

Hears(S) == heard' = [n \in Notices |-> IF n \in S /\ heard[n] < 2 THEN heard[n] + 1 ELSE heard[n]]

\* (mutant: a notice that comes while a wake is under way is not queued)
Forgotten(n) == wake' = [wake EXCEPT !.queue = @] /\ UNCHANGED heard

\* wake(): joins the wake under way, or starts one.
WakesFor(n) ==
    IF wake.at = "none"
    THEN wake' = [NoWake EXCEPT !.at = "finding", !.queue = {n}] /\ UNCHANGED heard
    ELSE IF Registered /\ Open THEN Hears({n}) /\ UNCHANGED wake
    ELSE wake' = [wake EXCEPT !.queue = @ \cup {n}] /\ UNCHANGED heard

HandedOver(n) == n \notin wake.queue /\ ~(wake.at = "appending" /\ n \in wake.woken)

\* The end of runWake: notices left in its queue wake the next turn.
Rewakes(left) == wake' = IF left = {} THEN NoWake ELSE [NoWake EXCEPT !.at = "finding", !.queue = left]

Fails(S) == failed' = failed \cup S /\ wake' = NoWake

-----------------------------------------------------------------------------
(* runWake *)

\* The conversation cannot be found or read.
WakeLosesIt ==
    /\ wake.at = "finding" /\ Fault /\ Fails(wake.queue)
    /\ UNCHANGED <<turn, turns, heard>>

\* (mutant: only a turn that listens holds the conversation)
Listens == Open

\* hasRunningTurn.
Held == Runs

\* A turn holds the conversation: once its mailbox is open it takes what may
\* join it; the rest waits for it to end.
WakeWaits ==
    /\ wake.at \in {"finding", "holding"} /\ Held
    /\ LET joins == IF Open THEN wake.queue \cap Joiners ELSE {}
       IN  /\ Hears(joins)
           /\ wake' = IF wake.queue \subseteq joins THEN NoWake
                      ELSE [wake EXCEPT !.at = "holding", !.queue = @ \ joins]
    /\ UNCHANGED <<turn, turns, failed, faults>>

\* Nothing runs: this wake's turn does.
WakeTakesOver ==
    /\ wake.at \in {"finding", "holding"} /\ ~Held /\ turn.at # "down"
    /\ turn' = [at |-> "opening", by |-> "wake"]
    /\ wake' = [at |-> "appending", queue |-> {}, woken |-> wake.queue]
    /\ UNCHANGED <<turns, heard, failed, faults>>

\* Its notices join the transcript.
WakeAppends ==
    /\ wake.at = "appending"
    /\ \/ Hears(wake.woken) /\ wake' = [wake EXCEPT !.at = "requesting"]
          /\ UNCHANGED <<turn, failed, faults>>
       \/ Fault /\ Fails(wake.queue \cup wake.woken) /\ turn' = NoTurn /\ UNCHANGED heard
    /\ UNCHANGED turns

\* The woken turn's request; without a model to run it the wake ends.
WakeRequests ==
    /\ wake.at = "requesting" /\ UNCHANGED <<turns, heard>>
    /\ \/ wake' = [wake EXCEPT !.at = "running"] /\ UNCHANGED <<turn, failed, faults>>
       \/ Fault /\ turn' = NoTurn
          /\ \/ Rewakes(wake.queue) /\ UNCHANGED failed
             \/ Fails(wake.queue)

\* handOverWhenOpen.
WakeHandsOver ==
    /\ wake.at = "running" /\ Open /\ wake.queue # {}
    /\ Hears(wake.queue) /\ wake' = [wake EXCEPT !.queue = {}]
    /\ UNCHANGED <<turn, turns, failed, faults>>

WakeEnds ==
    /\ wake.at = "running" /\ turn.at = "ending"
    /\ turn' = NoTurn /\ Rewakes(wake.queue)
    /\ UNCHANGED <<turns, heard, failed, faults>>

-----------------------------------------------------------------------------
(* The turns *)

\* A turn that runs already answers 409.
UserStarts ==
    /\ turn.at = "none" /\ turns < MaxTurn
    /\ turn' = [at |-> "opening", by |-> "user"] /\ turns' = turns + 1
    /\ UNCHANGED <<wake, heard, failed, faults>>

Opens == turn.at = "opening" /\ (turn.by = "wake" => wake.at = "running")

TurnEnds ==
    /\ turn.at = "ending" /\ turn.by # "wake" /\ turn' = NoTurn
    /\ UNCHANGED <<turns, wake, heard, failed, faults>>

TurnStates == [at : {"none", "opening", "open", "sealed", "ending", "down"},
               by : {"nobody", "user", "wake", "redriven", "cut"}]
WakeStates == [at : {"none", "finding", "holding", "appending", "requesting", "running"},
               queue : SUBSET Notices, woken : SUBSET Notices]

WakesTypeOK ==
    /\ turn \in TurnStates /\ wake \in WakeStates
    /\ turns \in 0..MaxTurn /\ heard \in [Notices -> 0..2] /\ failed \subseteq Notices
    /\ faults \in 0..MaxFault
=============================================================================
