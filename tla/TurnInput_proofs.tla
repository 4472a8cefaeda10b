-------------------------- MODULE TurnInput_proofs --------------------------
(***************************************************************************)
(* For every number of inputs and turns, every bound, overlapping turns or *)
(* not: an input is in one place of its conversation at most. For turns    *)
(* that do not overlap: none is dropped.                                   *)
(***************************************************************************)
EXTENDS TurnInput, TLAPS

LEMMA InitInv == Init => Inv
BY TurnInputAssumption DEF Init, Inv, TypeOK, TakenOnce, CheckpointIsAhead,
   OnlyAccepted, BootIsQuiet,
   NoBox, Delivered, Has, Active

\* A step that changes neither what is accepted nor where it is: what remains
\* to show is its types and that a boot stays quiet.
LEMMA Unmoved ==
    ASSUME TypeOK, TakenOnce, CheckpointIsAhead, OnlyAccepted,
           UNCHANGED <<msgs, taken, transcript, ckpt, store, listed, accepted>>,
           box'.entries \subseteq box.entries, box'.recorded \subseteq box.recorded,
           \A w \in writes' : w \in writes \/ w[2] \subseteq box.recorded
    PROVE  TakenOnce' /\ CheckpointIsAhead' /\ OnlyAccepted'
<1>1. TakenOnce' /\ CheckpointIsAhead'
    BY DEF TakenOnce, CheckpointIsAhead, Delivered, Has
<1>2. OnlyAccepted'
    BY DEF OnlyAccepted, Delivered, Has
<1> QED BY <1>1, <1>2

LEMMA StepInv == Inv /\ [Next]_vars => Inv'
<1> SUFFICES ASSUME Inv, [Next]_vars PROVE Inv'
    OBVIOUS
<1> USE TurnInputAssumption DEF Inv, vars, turnVars, durable, history, Active, Delivered, Has
<1>1. ASSUME NEW t \in Turns, StartTurn(t) PROVE Inv'
    <2>1. TypeOK'
        BY <1>1 DEF StartTurn, Goto, NoBox, TypeOK
    <2>2. TakenOnce' /\ CheckpointIsAhead' /\ OnlyAccepted'
        BY <1>1, Unmoved DEF StartTurn, Goto, NoBox, TypeOK
    <2>3. BootIsQuiet'
        BY <1>1 DEF StartTurn, Goto, NoBox, TypeOK, BootIsQuiet
    <2> QED BY <2>1, <2>2, <2>3
<1>2. ASSUME NEW i \in Inputs, Post(i) PROVE Inv'
    <2>1. TypeOK'
        <3>1. PICK held \in SUBSET {i} : box' = [box EXCEPT !.entries = @ \cup {i}, !.recorded = @ \cup {i},
                                                         !.held = @ \cup held] /\ offers' = offers \cup held
            BY <1>2 DEF Post
        <3>2. box' \in [open : BOOLEAN, sealed : BOOLEAN, entries : SUBSET Inputs,
                       held : SUBSET Inputs, recorded : SUBSET Inputs] /\ box'.held \subseteq box'.entries
            BY <3>1 DEF TypeOK
        <3>3. writes' \subseteq {"record", "forget"} \X SUBSET Inputs /\ offers' \subseteq Inputs
            BY <1>2, <3>1 DEF Post, TypeOK
        <3> QED BY <1>2, <3>2, <3>3 DEF Post, TypeOK
    <2>2. TakenOnce' /\ CheckpointIsAhead'
        BY <1>2 DEF Post, TypeOK, TakenOnce, CheckpointIsAhead, OnlyAccepted,
           BootIsQuiet
    <2>3. OnlyAccepted'
        BY <1>2 DEF Post, TypeOK, OnlyAccepted
    <2>4. BootIsQuiet'
        BY <1>2 DEF Post, TypeOK, BootIsQuiet
    <2> QED BY <2>1, <2>2, <2>3, <2>4
<1>3. ASSUME NEW w \in {"record", "forget"} \X SUBSET Inputs,
           WriteLands(w) PROVE Inv'
    <2>1. TypeOK'
        BY <1>3 DEF WriteLands, Fault, TypeOK
    <2>2. TakenOnce' /\ CheckpointIsAhead'
        BY <1>3 DEF WriteLands, Fault, TypeOK, TakenOnce, CheckpointIsAhead,
           OnlyAccepted, BootIsQuiet
    <2>3. OnlyAccepted'
        BY <1>3 DEF WriteLands, Fault, TypeOK, OnlyAccepted
    <2>4. BootIsQuiet'
        BY <1>3 DEF WriteLands, Fault, TypeOK, BootIsQuiet
    <2> QED BY <2>1, <2>2, <2>3, <2>4
<1>4. ASSUME NEW t \in Turns, Drain(t) PROVE Inv'
    <2>1. TypeOK'
        BY <1>4 DEF Drain, Drainable, Add, TypeOK
    <2>2. TakenOnce' /\ CheckpointIsAhead'
        BY <1>4 DEF Drain, Drainable, Add, TypeOK, TakenOnce, CheckpointIsAhead,
           OnlyAccepted, BootIsQuiet
    <2>3. OnlyAccepted'
        BY <1>4 DEF Drain, Drainable, Add, TypeOK, OnlyAccepted
    <2>4. BootIsQuiet'
        BY <1>4 DEF Drain, Drainable, Add, TypeOK, BootIsQuiet
    <2> QED BY <2>1, <2>2, <2>3, <2>4
<1>5. ASSUME NEW t \in Turns, Checkpoint(t) PROVE Inv'
    <2>1. TypeOK'
        BY <1>5 DEF Checkpoint, TypeOK
    <2>2. TakenOnce' /\ CheckpointIsAhead'
        BY <1>5 DEF Checkpoint, TypeOK, TakenOnce, CheckpointIsAhead,
           OnlyAccepted, BootIsQuiet
    <2>3. OnlyAccepted'
        BY <1>5 DEF Checkpoint, TypeOK, OnlyAccepted
    <2>4. BootIsQuiet'
        BY <1>5 DEF Checkpoint, TypeOK, BootIsQuiet
    <2> QED BY <2>1, <2>2, <2>3, <2>4
<1>6. ASSUME NEW t \in Turns, StreamBegins(t) PROVE Inv'
    <2>1. TypeOK'
        BY <1>6 DEF StreamBegins, Goto, TypeOK
    <2>2. TakenOnce' /\ CheckpointIsAhead' /\ OnlyAccepted'
        BY <1>6, Unmoved DEF StreamBegins, Goto, TypeOK
    <2>3. BootIsQuiet'
        BY <1>6 DEF StreamBegins, Goto, TypeOK, BootIsQuiet
    <2> QED BY <2>1, <2>2, <2>3
<1>7. ASSUME NEW i \in Inputs, SteerApplied(i) PROVE Inv'
    <2>1. TypeOK'
        BY <1>7 DEF SteerApplied, TypeOK
    <2>2. TakenOnce' /\ CheckpointIsAhead' /\ OnlyAccepted'
        BY <1>7, Unmoved DEF SteerApplied, TypeOK
    <2>3. BootIsQuiet'
        BY <1>7 DEF SteerApplied, TypeOK, BootIsQuiet
    <2> QED BY <2>1, <2>2, <2>3
<1>8. ASSUME NEW i \in Inputs, SteerFallsBack(i) PROVE Inv'
    <2>1. TypeOK'
        BY <1>8 DEF SteerFallsBack, TypeOK
    <2>2. TakenOnce' /\ CheckpointIsAhead' /\ OnlyAccepted'
        BY <1>8, Unmoved DEF SteerFallsBack, TypeOK
    <2>3. BootIsQuiet'
        BY <1>8 DEF SteerFallsBack, TypeOK, BootIsQuiet
    <2> QED BY <2>1, <2>2, <2>3
<1>9. ASSUME NEW t \in Turns, TakeApplied(t) PROVE Inv'
    <2>1. TypeOK'
        BY <1>9 DEF TakeApplied, Taken, Add, TypeOK
    <2>2. TakenOnce' /\ CheckpointIsAhead'
        BY <1>9 DEF TakeApplied, Taken, Add, TypeOK, TakenOnce, CheckpointIsAhead,
           OnlyAccepted, BootIsQuiet
    <2>3. OnlyAccepted'
        BY <1>9 DEF TakeApplied, Taken, Add, TypeOK, OnlyAccepted
    <2>4. BootIsQuiet'
        BY <1>9 DEF TakeApplied, Taken, Add, TypeOK, BootIsQuiet
    <2> QED BY <2>1, <2>2, <2>3, <2>4
<1>10. ASSUME NEW t \in Turns, StreamEnds(t) PROVE Inv'
    <2>1. TypeOK'
        BY <1>10 DEF StreamEnds, StreamStops, Goto, Add, StillHeld, TypeOK
    <2>2. TakenOnce' /\ CheckpointIsAhead'
        BY <1>10 DEF StreamEnds, StreamStops, Goto, Add, StillHeld, TypeOK,
           TakenOnce, CheckpointIsAhead, OnlyAccepted, BootIsQuiet
    <2>3. OnlyAccepted'
        BY <1>10 DEF StreamEnds, StreamStops, Goto, Add, StillHeld, TypeOK,
           OnlyAccepted
    <2>4. BootIsQuiet'
        BY <1>10 DEF StreamEnds, StreamStops, Goto, Add, StillHeld, TypeOK,
           BootIsQuiet
    <2> QED BY <2>1, <2>2, <2>3, <2>4
<1>11. ASSUME NEW t \in Turns, StreamFails(t) PROVE Inv'
    <2>1. TypeOK'
        BY <1>11 DEF StreamFails, StreamStops, Goto, StillHeld, TypeOK
    <2>2. TakenOnce' /\ CheckpointIsAhead'
        BY <1>11 DEF StreamFails, StreamStops, Goto, StillHeld, TypeOK, TakenOnce,
           CheckpointIsAhead, OnlyAccepted, BootIsQuiet
    <2>3. OnlyAccepted'
        BY <1>11 DEF StreamFails, StreamStops, Goto, StillHeld, TypeOK, OnlyAccepted
    <2>4. BootIsQuiet'
        BY <1>11 DEF StreamFails, StreamStops, Goto, StillHeld, TypeOK, BootIsQuiet
    <2> QED BY <2>1, <2>2, <2>3, <2>4
<1>12. ASSUME NEW t \in Turns, Seal(t) PROVE Inv'
    <2>1. TypeOK'
        BY <1>12 DEF Seal, Goto, Sealed, Drainable, Add, TypeOK
    <2>2. TakenOnce' /\ CheckpointIsAhead'
        BY <1>12 DEF Seal, Goto, Sealed, Drainable, Add, TypeOK, TakenOnce,
           CheckpointIsAhead, OnlyAccepted, BootIsQuiet
    <2>3. OnlyAccepted'
        BY <1>12 DEF Seal, Goto, Sealed, Drainable, Add, TypeOK, OnlyAccepted
    <2>4. BootIsQuiet'
        BY <1>12 DEF Seal, Goto, Sealed, Drainable, Add, TypeOK, BootIsQuiet
    <2> QED BY <2>1, <2>2, <2>3, <2>4
<1>13. ASSUME NEW t \in Turns, Finalize(t) PROVE Inv'
    <2>1. TypeOK'
        BY <1>13 DEF Finalize, Goto, Appended, Fault, TypeOK
    <2>2. TakenOnce' /\ CheckpointIsAhead'
        BY <1>13 DEF Finalize, Goto, Appended, Fault, TypeOK, TakenOnce,
           CheckpointIsAhead, OnlyAccepted, BootIsQuiet
    <2>3. OnlyAccepted'
        BY <1>13 DEF Finalize, Goto, Appended, Fault, TypeOK, OnlyAccepted
    <2>4. BootIsQuiet'
        BY <1>13 DEF Finalize, Goto, Appended, Fault, TypeOK, BootIsQuiet
    <2> QED BY <2>1, <2>2, <2>3, <2>4
<1>14. ASSUME NEW t \in Turns, Close(t) PROVE Inv'
    <2>1. TypeOK'
        BY <1>14 DEF Close, Goto, NoBox, TypeOK
    <2>2. TakenOnce' /\ CheckpointIsAhead' /\ OnlyAccepted'
        BY <1>14, Unmoved DEF Close, Goto, NoBox, TypeOK
    <2>3. BootIsQuiet'
        BY <1>14 DEF Close, Goto, NoBox, TypeOK, BootIsQuiet
    <2> QED BY <2>1, <2>2, <2>3
<1>15. ASSUME Crash PROVE Inv'
    <2>1. TypeOK'
        BY <1>15 DEF Crash, NoBox, TypeOK
    <2>2. TakenOnce' /\ CheckpointIsAhead'
        BY <1>15 DEF Crash, NoBox, TypeOK, TakenOnce, CheckpointIsAhead,
           OnlyAccepted, BootIsQuiet
    <2>3. OnlyAccepted'
        BY <1>15 DEF Crash, NoBox, TypeOK, OnlyAccepted
    <2>4. BootIsQuiet'
        BY <1>15 DEF Crash, NoBox, TypeOK, BootIsQuiet
    <2> QED BY <2>1, <2>2, <2>3, <2>4
<1>16. ASSUME Merge PROVE Inv'
    <2>1. TypeOK'
        BY <1>16 DEF Merge, Appended, TypeOK
    <2>2. TakenOnce' /\ CheckpointIsAhead'
        BY <1>16 DEF Merge, Appended, TypeOK, TakenOnce, CheckpointIsAhead,
           OnlyAccepted, BootIsQuiet
    <2>3. OnlyAccepted'
        BY <1>16 DEF Merge, Appended, TypeOK, OnlyAccepted
    <2>4. BootIsQuiet'
        BY <1>16 DEF Merge, Appended, TypeOK, BootIsQuiet
    <2> QED BY <2>1, <2>2, <2>3, <2>4
<1>17. ASSUME List PROVE Inv'
    <2>1. TypeOK'
        BY <1>17 DEF List, Fault, TypeOK
    <2>2. TakenOnce' /\ CheckpointIsAhead'
        BY <1>17 DEF List, Fault, TypeOK, TakenOnce, CheckpointIsAhead,
           OnlyAccepted, BootIsQuiet
    <2>3. OnlyAccepted'
        BY <1>17 DEF List, Fault, TypeOK, OnlyAccepted
    <2>4. BootIsQuiet'
        BY <1>17 DEF List, Fault, TypeOK, BootIsQuiet
    <2> QED BY <2>1, <2>2, <2>3, <2>4
<1>18. ASSUME NEW t \in Turns, Redrive(t) PROVE Inv'
    <2>1. TypeOK'
        BY <1>18 DEF Redrive, NoBox, Missing, TypeOK
    <2>2. TakenOnce' /\ CheckpointIsAhead'
        BY <1>18 DEF Redrive, NoBox, Missing, TypeOK, TakenOnce,
           CheckpointIsAhead, OnlyAccepted, BootIsQuiet
    <2>3. OnlyAccepted'
        BY <1>18 DEF Redrive, NoBox, Missing, TypeOK, OnlyAccepted
    <2>4. BootIsQuiet'
        BY <1>18 DEF Redrive, NoBox, Missing, TypeOK, BootIsQuiet
    <2> QED BY <2>1, <2>2, <2>3, <2>4
<1>19. ASSUME Deliver PROVE Inv'
    <2>1. TypeOK'
        BY <1>19 DEF Deliver, Appended, Missing, Fault, TypeOK
    <2>2. TakenOnce'
        <3>1. box = NoBox /\ \A t \in Turns : Has(t) = {}
            BY <1>19 DEF Deliver, BootIsQuiet
        <3>2. transcript' \in [Inputs -> Nat] /\ \A i \in Inputs : transcript'[i] <= 1
            BY <1>19 DEF Deliver, Appended, Missing, TypeOK, TakenOnce
        <3> QED BY <1>19, <3>1, <3>2 DEF Deliver, TakenOnce, NoBox
    <2>3. CheckpointIsAhead'
        BY <1>19 DEF Deliver, Appended, Missing, Fault, TypeOK, TakenOnce,
           CheckpointIsAhead, OnlyAccepted, BootIsQuiet
    <2>4. OnlyAccepted'
        BY <1>19 DEF Deliver, Appended, Missing, Fault, TypeOK, OnlyAccepted
    <2>5. BootIsQuiet'
        BY <1>19 DEF Deliver, Appended, Missing, Fault, TypeOK, BootIsQuiet
    <2> QED BY <2>1, <2>2, <2>3, <2>4, <2>5
<1>20. ASSUME Forget PROVE Inv'
    <2>1. TypeOK'
        BY <1>20 DEF Forget, Fault, TypeOK
    <2>2. TakenOnce' /\ CheckpointIsAhead'
        BY <1>20 DEF Forget, Fault, TypeOK, TakenOnce, CheckpointIsAhead,
           OnlyAccepted, BootIsQuiet
    <2>3. OnlyAccepted'
        BY <1>20 DEF Forget, Fault, TypeOK, OnlyAccepted
    <2>4. BootIsQuiet'
        BY <1>20 DEF Forget, Fault, TypeOK, BootIsQuiet
    <2> QED BY <2>1, <2>2, <2>3, <2>4
<1>21. ASSUME UNCHANGED vars PROVE Inv'
    BY <1>21 DEF TypeOK, TakenOnce, CheckpointIsAhead, OnlyAccepted, BootIsQuiet
<1> QED
    BY <1>1, <1>2, <1>3, <1>4, <1>5, <1>6, <1>7, <1>8, <1>9, <1>10, <1>11, <1>12,
       <1>13, <1>14, <1>15, <1>16, <1>17, <1>18, <1>19, <1>20, <1>21 DEF Next,
       Ends, Boots

\* Types, and with them where every accepted input is, hold in every state.
THEOREM Invariance == Spec => []Inv
BY InitInv, StepInv, PTL DEF Spec

\* The mailbox and the turns keep their shape.
THEOREM TypeCorrect == Spec => []TypeOK
<1>1. Inv => TypeOK
    BY DEF Inv
<1> QED BY <1>1, Invariance, PTL

\* No input is in two places of its conversation: not twice in the transcript,
\* not in the transcript and still waiting, not in two turns.
THEOREM OncePerInput == Spec => []TakenOnce
<1>1. Inv => TakenOnce
    BY DEF Inv
<1> QED BY <1>1, Invariance, PTL

-----------------------------------------------------------------------------
(* Turns that do not overlap drop nothing *)

\* What was accepted and must not be lost, and what needs keeping no longer.
Owed == accepted \ (excused \cup cut)
Settled == Delivered \cup excused \cup cut

\* One turn runs at a time; between turns there is no mailbox, and a turn that
\* is to finalize leaves nothing in its box but what a stream cut off.
OneTurn ==
    /\ \A t, u \in Turns : pc[t] \in Active /\ pc[u] \in Active => t = u
    /\ (\A t \in Turns : pc[t] \notin Active) => box = NoBox
    /\ \A t \in Turns : pc[t] \in {"finalizing", "closing"} => box.sealed /\ box.entries \subseteq cut

\* What is held is under offer, or in the stream, or was cut off with it.
HeldIsOffered ==
    /\ box.held \subseteq offers \cup applied \cup cut
    /\ (\A t \in Turns : pc[t] # "streaming") => offers = {} /\ applied = {}

\* The running turn has what its checkpoint and its box's records stand for.
TurnHasIt ==
    /\ boot = "up" => \A i \in ckpt \ Settled : \E t \in Turns : i \in msgs[t]
    /\ \A i \in box.recorded \ (Settled \cup box.entries) : \E t \in Turns : i \in Has(t)

\* What is not settled is stored or about to be, and nothing else is forgotten;
\* a boot has read all of it, unless a call failed.
Recorded ==
    /\ \A i \in Owed \ Delivered : i \in store \/ \E w \in writes : w[1] = "record" /\ i \in w[2]
    /\ \A w \in writes : w[1] = "forget" => w[2] \subseteq Settled
    /\ boot # "up" => writes = {}
    /\ boot \in {"deliver", "forget"} => store \subseteq listed \/ faults > 0
    /\ boot = "forget" => listed \subseteq Delivered

KeepInv == OneTurn /\ HeldIsOffered /\ TurnHasIt /\ Recorded /\ NothingDropped

\* Before any crash or failed call, the server has been up and nothing has an
\* excuse to be lost but what a stream cut off.
Unexcused == crashes = 0 /\ faults = 0 => boot = "up" /\ excused = {}

\* Without a crash, a failed call or overlapping turns, every end of a turn has
\* delivered all it accepted but what a stream that broke off had applied.
EndDeliversAllButCut ==
    crashes = 0 /\ faults = 0 /\ (\A t \in Turns : pc[t] \notin Active)
        => accepted \subseteq Delivered \cup cut

\* A post adds one entry, and the write of its copy.
LEMMA PostKeeps ==
    ASSUME ~Overlap, Inv, KeepInv, NEW i \in Inputs, Post(i)
    PROVE  OneTurn' /\ Recorded'
<1> USE TurnInputAssumption DEF KeepInv, Active, Settled, Delivered, Has
<1>1. PICK held \in SUBSET {i} : box' = [box EXCEPT !.entries = @ \cup {i}, !.recorded = @ \cup {i},
                                                 !.held = @ \cup held]
    BY DEF Post
<1>2. pc' = pc /\ cut' = cut /\ box.open /\ ~box.sealed
    BY DEF Post
<1>3. \A t \in Turns : pc[t] \notin {"finalizing", "closing"}
    BY <1>2 DEF OneTurn
<1>4. \E t \in Turns : pc[t] \in Active
    BY <1>2 DEF OneTurn, NoBox
<1>5. OneTurn'
    BY <1>2, <1>3, <1>4 DEF OneTurn
<1>6. i \notin accepted /\ accepted' = accepted \cup {i} /\ writes' = writes \cup {<<"record", {i}>>}
      /\ UNCHANGED <<boot, store, listed, transcript, excused, cut, faults>> /\ boot = "up"
    BY DEF Post, durable
<1>7. \A j \in Owed' \ Delivered : j \in store \/ \E w \in writes' : w[1] = "record" /\ j \in w[2]
    <2> SUFFICES ASSUME NEW j \in Owed' \ Delivered
                 PROVE  j \in store \/ \E w \in writes' : w[1] = "record" /\ j \in w[2]
        OBVIOUS
    <2>1. CASE j = i
        <3> DEFINE own == <<"record", {i}>>
        <3>1. own \in writes' /\ own[1] = "record" /\ j \in own[2]
            BY <1>6, <2>1
        <3> HIDE DEF own
        <3> QED BY <3>1
    <2>2. CASE j # i
        BY <1>6, <2>2 DEF Owed, Recorded
    <2> QED BY <2>1, <2>2
<1>8. Recorded'
    BY <1>6, <1>7 DEF Recorded, Owed
<1> QED BY <1>5, <1>8

\* Each step keeps KeepInv.
LEMMA KeepStep == ~Overlap /\ Inv /\ KeepInv /\ [Next]_vars => KeepInv'
<1> SUFFICES ASSUME ~Overlap, Inv, KeepInv, [Next]_vars PROVE KeepInv'
    OBVIOUS
<1> USE TurnInputAssumption DEF KeepInv, vars, turnVars, durable, history, Active, Settled, Delivered, Has
<1>1. ASSUME NEW t \in Turns, StartTurn(t) PROVE KeepInv'
    <2>1. OneTurn'
        BY <1>1 DEF StartTurn, Goto, OneTurn, Inv, TypeOK
    <2>2. HeldIsOffered'
        BY <1>1 DEF StartTurn, NoBox, HeldIsOffered
    <2>3. TurnHasIt'
        BY <1>1 DEF StartTurn, NoBox, TurnHasIt
    <2>4. Recorded'
        BY <1>1 DEF StartTurn, Recorded, Owed
    <2>5. NothingDropped'
        BY <1>1 DEF StartTurn, OneTurn, NothingDropped
    <2> QED BY <2>1, <2>2, <2>3, <2>4, <2>5
<1>2. ASSUME NEW i \in Inputs, Post(i) PROVE KeepInv'
    <2>1. OneTurn' /\ Recorded'
        BY <1>2, PostKeeps
    <2>2. HeldIsOffered'
        BY <1>2 DEF Post, HeldIsOffered
    <2>3. TurnHasIt'
        BY <1>2 DEF Post, TurnHasIt
    <2>4. NothingDropped'
        BY <1>2 DEF Post, NothingDropped
    <2> QED BY <2>1, <2>2, <2>3, <2>4
<1>3. ASSUME NEW w \in {"record", "forget"} \X SUBSET Inputs, WriteLands(w) PROVE KeepInv'
    <2>1. OneTurn'
        BY <1>3 DEF WriteLands, OneTurn
    <2>2. HeldIsOffered'
        BY <1>3 DEF WriteLands, HeldIsOffered
    <2>3. TurnHasIt'
        BY <1>3 DEF WriteLands, TurnHasIt
    <2>4. Recorded'
        BY <1>3 DEF WriteLands, Recorded, Owed
    <2>5. NothingDropped'
        BY <1>3 DEF WriteLands, Fault, Recorded, NothingDropped, Inv, TypeOK
    <2> QED BY <2>1, <2>2, <2>3, <2>4, <2>5
<1>4. ASSUME NEW t \in Turns, Drain(t) PROVE KeepInv'
    <2>1. OneTurn'
        BY <1>4 DEF Drain, OneTurn
    <2>2. HeldIsOffered'
        BY <1>4 DEF Drain, HeldIsOffered
    <2>3. TurnHasIt'
        BY <1>4 DEF Drain, Add, TurnHasIt, Inv, TypeOK
    <2>4. Recorded'
        BY <1>4 DEF Drain, Recorded, Owed
    <2>5. NothingDropped'
        BY <1>4 DEF Drain, Add, NothingDropped, Inv, TypeOK
    <2> QED BY <2>1, <2>2, <2>3, <2>4, <2>5
<1>5. ASSUME NEW t \in Turns, Checkpoint(t) PROVE KeepInv'
    <2>1. OneTurn'
        BY <1>5 DEF Checkpoint, OneTurn
    <2>2. HeldIsOffered'
        BY <1>5 DEF Checkpoint, HeldIsOffered
    <2>3. TurnHasIt'
        BY <1>5 DEF Checkpoint, TurnHasIt
    <2>4. Recorded'
        BY <1>5 DEF Checkpoint, Recorded, Owed
    <2>5. NothingDropped'
        BY <1>5 DEF Checkpoint, TurnHasIt, Recorded, NothingDropped, Owed
    <2> QED BY <2>1, <2>2, <2>3, <2>4, <2>5
<1>6. ASSUME NEW t \in Turns, StreamBegins(t) PROVE KeepInv'
    <2>1. OneTurn'
        BY <1>6 DEF StreamBegins, Goto, OneTurn
    <2>2. HeldIsOffered'
        BY <1>6 DEF StreamBegins, Goto, HeldIsOffered
    <2>3. TurnHasIt'
        BY <1>6 DEF StreamBegins, TurnHasIt
    <2>4. Recorded'
        BY <1>6 DEF StreamBegins, Recorded, Owed
    <2>5. NothingDropped'
        BY <1>6 DEF StreamBegins, NothingDropped
    <2> QED BY <2>1, <2>2, <2>3, <2>4, <2>5
<1>7. ASSUME NEW i \in Inputs, SteerApplied(i) PROVE KeepInv'
    <2>1. OneTurn'
        BY <1>7 DEF SteerApplied, OneTurn
    <2>2. HeldIsOffered'
        BY <1>7 DEF SteerApplied, HeldIsOffered
    <2>3. TurnHasIt'
        BY <1>7 DEF SteerApplied, TurnHasIt
    <2>4. Recorded'
        BY <1>7 DEF SteerApplied, Recorded, Owed
    <2>5. NothingDropped'
        BY <1>7 DEF SteerApplied, NothingDropped
    <2> QED BY <2>1, <2>2, <2>3, <2>4, <2>5
<1>8. ASSUME NEW i \in Inputs, SteerFallsBack(i) PROVE KeepInv'
    <2>1. OneTurn'
        BY <1>8 DEF SteerFallsBack, OneTurn, HeldIsOffered
    <2>2. HeldIsOffered'
        BY <1>8 DEF SteerFallsBack, HeldIsOffered
    <2>3. TurnHasIt'
        BY <1>8 DEF SteerFallsBack, TurnHasIt
    <2>4. Recorded'
        BY <1>8 DEF SteerFallsBack, Recorded, Owed
    <2>5. NothingDropped'
        BY <1>8 DEF SteerFallsBack, NothingDropped
    <2> QED BY <2>1, <2>2, <2>3, <2>4, <2>5
<1>9. ASSUME NEW t \in Turns, TakeApplied(t) PROVE KeepInv'
    <2>1. OneTurn'
        BY <1>9 DEF TakeApplied, Taken, OneTurn
    <2>2. HeldIsOffered'
        BY <1>9 DEF TakeApplied, Taken, HeldIsOffered
    <2>3. TurnHasIt'
        BY <1>9 DEF TakeApplied, Taken, TurnHasIt, Inv, TypeOK
    <2>4. Recorded'
        BY <1>9 DEF TakeApplied, Taken, Recorded, Owed
    <2>5. NothingDropped'
        BY <1>9 DEF TakeApplied, Taken, NothingDropped, Inv, TypeOK
    <2> QED BY <2>1, <2>2, <2>3, <2>4, <2>5
<1>10. ASSUME NEW t \in Turns, StreamEnds(t) PROVE KeepInv'
    <2>1. OneTurn'
        BY <1>10 DEF StreamEnds, StreamStops, Goto, OneTurn
    <2>2. HeldIsOffered'
        BY <1>10 DEF StreamEnds, StreamStops, StillHeld, HeldIsOffered
    <2>3. TurnHasIt'
        BY <1>10 DEF StreamEnds, StreamStops, Add, TurnHasIt, Inv, TypeOK
    <2>4. Recorded'
        BY <1>10 DEF StreamEnds, StreamStops, Recorded, Owed
    <2>5. NothingDropped'
        BY <1>10 DEF StreamEnds, StreamStops, Add, NothingDropped, Inv, TypeOK
    <2> QED BY <2>1, <2>2, <2>3, <2>4, <2>5
<1>11. ASSUME NEW t \in Turns, StreamFails(t) PROVE KeepInv'
    <2>1. OneTurn'
        BY <1>11 DEF StreamFails, StreamStops, Goto, OneTurn
    <2>2. HeldIsOffered'
        BY <1>11 DEF StreamFails, StreamStops, StillHeld, HeldIsOffered
    <2>3. TurnHasIt'
        BY <1>11 DEF StreamFails, StreamStops, TurnHasIt
    <2>4. Recorded'
        BY <1>11 DEF StreamFails, StreamStops, Recorded, Owed
    <2>5. NothingDropped'
        BY <1>11 DEF StreamFails, StreamStops, NothingDropped
    <2> QED BY <2>1, <2>2, <2>3, <2>4, <2>5
<1>12. ASSUME NEW t \in Turns, Seal(t) PROVE KeepInv'
    <2>1. OneTurn'
        BY <1>12 DEF Seal, Goto, Sealed, Drainable, OneTurn, HeldIsOffered
    <2>2. HeldIsOffered'
        BY <1>12 DEF Seal, Goto, Sealed, HeldIsOffered
    <2>3. TurnHasIt'
        BY <1>12 DEF Seal, Sealed, Add, TurnHasIt, Inv, TypeOK
    <2>4. Recorded'
        BY <1>12 DEF Seal, Sealed, Recorded, Owed
    <2>5. NothingDropped'
        BY <1>12 DEF Seal, Sealed, Add, NothingDropped, Inv, TypeOK
    <2> QED BY <2>1, <2>2, <2>3, <2>4, <2>5
<1>13. ASSUME NEW t \in Turns, Finalize(t) PROVE KeepInv'
    <2>1. OneTurn'
        BY <1>13 DEF Finalize, Goto, OneTurn
    <2>2. HeldIsOffered'
        BY <1>13 DEF Finalize, Goto, HeldIsOffered
    <2>3. TurnHasIt'
        BY <1>13 DEF Finalize, Appended, TurnHasIt, Inv, TypeOK
    <2>4. Recorded'
        BY <1>13 DEF Finalize, Appended, Fault, Recorded, Owed, Inv, TypeOK
    <2>5. NothingDropped'
        BY <1>13 DEF Finalize, Appended, Fault, TurnHasIt, Recorded, NothingDropped, Owed,
           Inv, TypeOK
    <2> QED BY <2>1, <2>2, <2>3, <2>4, <2>5
<1>14. ASSUME NEW t \in Turns, Close(t) PROVE KeepInv'
    <2>1. OneTurn'
        BY <1>14 DEF Close, Goto, OneTurn, Inv, TypeOK
    <2>2. HeldIsOffered'
        BY <1>14 DEF Close, Goto, NoBox, HeldIsOffered
    <2>3. TurnHasIt'
        BY <1>14 DEF Close, NoBox, TurnHasIt
    <2>4. Recorded'
        BY <1>14 DEF Close, OneTurn, TurnHasIt, Recorded, BootIsQuiet, Owed, Inv
    <2>5. NothingDropped'
        BY <1>14 DEF Close, OneTurn, NothingDropped
    <2> QED BY <2>1, <2>2, <2>3, <2>4, <2>5
<1>15. ASSUME Crash PROVE KeepInv'
    <2>1. OneTurn'
        BY <1>15 DEF Crash, OneTurn
    <2>2. HeldIsOffered'
        BY <1>15 DEF Crash, NoBox, HeldIsOffered
    <2>3. TurnHasIt'
        BY <1>15 DEF Crash, NoBox, TurnHasIt
    <2>4. Recorded'
        BY <1>15 DEF Crash, Recorded, Owed
    <2>5. NothingDropped'
        BY <1>15 DEF Crash, Recorded, NothingDropped, Owed
    <2> QED BY <2>1, <2>2, <2>3, <2>4, <2>5
<1>16. ASSUME Merge PROVE KeepInv'
    <2>1. OneTurn'
        BY <1>16 DEF Merge, OneTurn
    <2>2. HeldIsOffered'
        BY <1>16 DEF Merge, HeldIsOffered
    <2>3. TurnHasIt'
        BY <1>16 DEF Merge, Appended, TurnHasIt, Inv, TypeOK
    <2>4. Recorded'
        BY <1>16 DEF Merge, Appended, Recorded, Owed, Inv, TypeOK
    <2>5. NothingDropped'
        BY <1>16 DEF Merge, Appended, NothingDropped, Inv, TypeOK
    <2> QED BY <2>1, <2>2, <2>3, <2>4, <2>5
<1>17. ASSUME List PROVE KeepInv'
    <2>1. OneTurn'
        BY <1>17 DEF List, OneTurn
    <2>2. HeldIsOffered'
        BY <1>17 DEF List, HeldIsOffered
    <2>3. TurnHasIt'
        BY <1>17 DEF List, TurnHasIt
    <2>4. Recorded'
        BY <1>17 DEF List, Fault, Recorded, Owed, Inv, TypeOK
    <2>5. NothingDropped'
        BY <1>17 DEF List, NothingDropped
    <2> QED BY <2>1, <2>2, <2>3, <2>4, <2>5
<1>18. ASSUME NEW t \in Turns, Redrive(t) PROVE KeepInv'
    <2>1. OneTurn'
        BY <1>18 DEF Redrive, OneTurn, BootIsQuiet, Inv
    <2>2. HeldIsOffered'
        BY <1>18 DEF Redrive, NoBox, HeldIsOffered
    <2>3. TurnHasIt'
        BY <1>18 DEF Redrive, TurnHasIt, BootIsQuiet, Inv
    <2>4. Recorded'
        BY <1>18 DEF Redrive, Recorded, Owed
    <2>5. NothingDropped'
        BY <1>18 DEF Redrive, Missing, Recorded, NothingDropped, Owed
    <2> QED BY <2>1, <2>2, <2>3, <2>4, <2>5
<1>19. ASSUME Deliver PROVE KeepInv'
    <2>1. OneTurn'
        BY <1>19 DEF Deliver, OneTurn
    <2>2. HeldIsOffered'
        BY <1>19 DEF Deliver, HeldIsOffered
    <2>3. TurnHasIt'
        BY <1>19 DEF Deliver, Appended, TurnHasIt, BootIsQuiet, Inv, TypeOK
    <2>4. Recorded'
        BY <1>19 DEF Deliver, Appended, Missing, Recorded, Owed, Inv, TypeOK
    <2>5. NothingDropped'
        BY <1>19 DEF Deliver, Appended, Fault, NothingDropped, Inv, TypeOK
    <2> QED BY <2>1, <2>2, <2>3, <2>4, <2>5
<1>20. ASSUME Forget PROVE KeepInv'
    <2>1. OneTurn'
        BY <1>20 DEF Forget, OneTurn
    <2>2. HeldIsOffered'
        BY <1>20 DEF Forget, HeldIsOffered
    <2>3. TurnHasIt'
        BY <1>20 DEF Forget, TurnHasIt, BootIsQuiet, Inv
    <2>4. Recorded'
        BY <1>20 DEF Forget, Recorded, Owed
    <2>5. NothingDropped'
        BY <1>20 DEF Forget, Fault, Recorded, NothingDropped, Inv, TypeOK
    <2> QED BY <2>1, <2>2, <2>3, <2>4, <2>5
<1>21. CASE UNCHANGED vars
    BY <1>21 DEF OneTurn, HeldIsOffered, TurnHasIt, Recorded, NothingDropped, Owed
<1> QED BY <1>1, <1>2, <1>3, <1>4, <1>5, <1>6, <1>7, <1>8, <1>9, <1>10, <1>11, <1>12, <1>13,
       <1>14, <1>15, <1>16, <1>17, <1>18, <1>19, <1>20, <1>21 DEF Next, Ends, Boots

\* Only a crash and a failed call excuse.
LEMMA UnexcusedStep == Inv /\ Unexcused /\ [Next]_vars => Unexcused'
<1> SUFFICES ASSUME Inv, Unexcused, [Next]_vars, crashes' = 0, faults' = 0
             PROVE  boot' = "up" /\ excused' = {}
    BY DEF Unexcused
<1>0. crashes \in Nat /\ faults \in Nat
    BY TurnInputAssumption DEF Inv, TypeOK
<1>1. ~Crash
    BY <1>0 DEF Crash
<1>2. ~Fault
    BY <1>0 DEF Fault
<1>3. crashes = 0 /\ faults = 0
    BY <1>0, <1>1, <1>2 DEF Next, Ends, Boots, vars, turnVars, history, durable, StartTurn, Post, WriteLands, Drain,
       Checkpoint, StreamBegins, TakeApplied, StreamEnds, StreamFails, StreamStops, Seal, Finalize, Close,
       Redrive, SteerApplied, SteerFallsBack, Merge, List, Deliver, Forget
<1>4. boot = "up" /\ excused = {}
    BY <1>3 DEF Unexcused
<1> QED
    BY <1>1, <1>2, <1>4 DEF Next, Ends, Boots, vars, turnVars, history, durable, StartTurn, Post, WriteLands, Drain,
       Checkpoint, StreamBegins, TakeApplied, StreamEnds, StreamFails, StreamStops, Seal, Finalize, Close,
       Redrive, SteerApplied, SteerFallsBack, Merge, List, Deliver, Forget

\* Between turns there is nowhere left to wait but the transcript.
LEMMA NoneLeft == ~Overlap /\ Inv /\ KeepInv /\ Unexcused => EndDeliversAllButCut
<1> SUFFICES ASSUME Inv, KeepInv, Unexcused, crashes = 0, faults = 0,
                    \A t \in Turns : pc[t] \notin Active,
                    NEW i \in accepted, i \notin cut
             PROVE  i \in Delivered
    BY DEF EndDeliversAllButCut
<1>1. boot = "up" /\ excused = {} /\ box = NoBox
    BY DEF Unexcused, KeepInv, OneTurn
<1>2. \A t \in Turns : msgs[t] = {} /\ taken[t] = {}
    BY DEF Inv, BootIsQuiet, Active
<1>3. i \in ckpt \cup Delivered
    BY <1>1, <1>2 DEF KeepInv, NothingDropped, Has, NoBox
<1>4. i \in ckpt => i \in Delivered
    BY <1>1, <1>2 DEF KeepInv, TurnHasIt, Settled
<1> QED BY <1>3, <1>4

\* A turn, however it ends or dies and whatever is driven again, drops nothing
\* its mailbox accepted, where turns do not overlap.
THEOREM NothingIsDropped == Spec => [](~Overlap => NothingDropped)
<1>1. Init => KeepInv
    BY DEF Init, KeepInv, OneTurn, HeldIsOffered, TurnHasIt, Recorded, NothingDropped, Owed, Active, NoBox
<1>2. CASE Overlap
    BY <1>2, PTL
<1>3. CASE ~Overlap
    <2>1. Inv /\ KeepInv /\ [Next]_vars => KeepInv'
        BY <1>3, KeepStep
    <2>2. KeepInv => NothingDropped
        BY DEF KeepInv
    <2> QED BY <1>1, <2>1, <2>2, Invariance, PTL DEF Spec
<1> QED BY <1>2, <1>3

\* The end of a turn loses nothing but what its streams cut off, as long as no
\* process dies and no call fails.
THEOREM EndsDeliver == Spec => [](~Overlap => EndDeliversAllButCut)
<1>1. Init => KeepInv /\ Unexcused
    BY DEF Init, KeepInv, OneTurn, HeldIsOffered, TurnHasIt, Recorded, NothingDropped, Owed, Active, NoBox,
       Unexcused
<1>2. CASE Overlap
    BY <1>2, PTL
<1>3. CASE ~Overlap
    <2>1. Inv /\ KeepInv /\ Unexcused /\ [Next]_vars => KeepInv' /\ Unexcused'
        BY <1>3, KeepStep, UnexcusedStep
    <2>2. Inv /\ KeepInv /\ Unexcused => EndDeliversAllButCut
        BY <1>3, NoneLeft
    <2> QED BY <1>1, <2>1, <2>2, Invariance, PTL DEF Spec
<1> QED BY <1>2, <1>3
=============================================================================
