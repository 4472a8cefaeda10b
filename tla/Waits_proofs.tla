---------------------------- MODULE Waits_proofs ----------------------------
(***************************************************************************)
(* For every number of questions, answers, raises, pauses, turns, crashes  *)
(* and failures: an accepted answer is never dropped and given once, a     *)
(* raise lifts the cap once, and the park count is the waits held.         *)
(***************************************************************************)
EXTENDS Waits, FiniteSetTheorems, WellFoundedInduction, TLAPS

\* A turn that is somewhere has a number.
Live == (turn \notin {"idle", "down", "lapsing"} \/ resumed) => turns > 0

\* A call is under way in a running turn only, and a blocking question has a
\* waiter only while its call waits.
WaitsBlock ==
    \A q \in Asked : /\ call[q] \in {"asking", "earlier", "waiting"} => turn = "running"
                     /\ call[q] = "waiting" => q \in Blocking
                     /\ q \in held \cap Blocking => call[q] = "waiting"

\* A call that is about to ask finds nothing to overwrite.
AboutToAsk(q) == call[q] = "todo" \/ (call[q] = "earlier" /\ earlier[q] \in {"absent", "cancelled"})
AsksAfresh == \A q \in Asked : AboutToAsk(q) => question[q] \in {"absent", "cancelled"}

\* The request that won a card holds its answer alone, and nobody had it yet.
Busy(p) == post[p].at \in {"won", "refused", "owes"}
OneWinner ==
    \A p \in Posts : Busy(p) =>
        /\ question[post[p].q] = "answered" /\ got[post[p].q] = 0
        /\ post[p].q \notin owed \cup torn
        /\ post[p].at # "won" => post[p].q \in Cards
        /\ \A o \in Posts : Busy(o) /\ post[o].q = post[p].q => o = p

\* What was given or is owed is an answer.
GivenIsAnswered ==
    \A q \in Asked : got[q] > 0 \/ q \in owed \cup torn => question[q] = "answered"

\* An adoption works on answers that are owed; one at a time is between its two
\* writes, and one that is owed and not there was never given.
OwedOnce ==
    /\ handed \subseteq adopted.owed /\ adopted.owed \subseteq owed
    /\ turn # "taking" => adopted.owed = {}
    /\ \A q \in handed : got[q] > 0
    /\ \A q \in owed \ (torn \cup handed) : got[q] = 0

\* How often an answer was given: once more for each crash or fault that tore it.
Tallied ==
    /\ \A q \in Blocking : got[q] = 0
    /\ \A q \in Asked : got[q] <= 1 + crashes + faults /\ (q \notin torn => got[q] <= 1)
    /\ turn \in {"down", "adopting"} => \A q \in owed : got[q] <= crashes + faults
    /\ turn = "taking" => \A q \in adopted.owed \ handed : got[q] <= crashes + faults

QInv ==
    /\ QTypeOK /\ WaitsBlock /\ AsksAfresh /\ OneWinner /\ GivenIsAnswered /\ OwedOnce /\ Tallied
    /\ AnswerKept

\* The raise of a request that is about to wake the gate, and a gate about to lift.
Due(r) == raise[r].at = "won" /\ raise[r].sees
Lifts(t) == gate[t].at = "lift"
Looks(t) == gate[t].at \in {"look", "seen", "lift"}

\* A gate or a request that is past its look has a pause.
Numbered ==
    /\ \A t \in 1..MaxTurn : gate[t].at \in {"lift", "hold", "wait"} => gate[t].p # 0
    /\ \A t \in 1..MaxTurn : gate[t].at = "seen" /\ gate[t].read # "none" => gate[t].p # 0
    /\ \A r \in Raises : raise[r].at \in {"found", "sent", "won"} => raise[r].p # 0

\* Only the re-driven turn looks for a stored raise, so nobody takes it before it.
OneLooks ==
    /\ resumed => \A t \in 1..MaxTurn : Looks(t) => t = turns
    /\ \A t, o \in 1..MaxTurn : Looks(t) /\ Looks(o) => t = o
    /\ \A t \in 1..MaxTurn : gate[t].at = "seen" /\ gate[t].read = "kept" => gate[t].p \in kept

\* A raise is in one place: stored, about to lift, about to wake, or applied.
RaisedIsOnce ==
    /\ \A p \in kept : pause[p] = "raised" /\ applied[p] = 0
    /\ \A t \in 1..MaxTurn : Lifts(t) =>
          pause[gate[t].p] = "raised" /\ applied[gate[t].p] = 0 /\ gate[t].p \notin kept
    /\ \A r \in Raises : raise[r].at = "won" => pause[raise[r].p] = "raised"
    /\ \A r \in Raises : Due(r) =>
          /\ applied[raise[r].p] = 0 /\ raise[r].p \notin kept
          /\ \A t \in 1..MaxTurn : Lifts(t) => gate[t].p # raise[r].p
          /\ \A o \in Raises : Due(o) /\ raise[o].p = raise[r].p => o = r

PInv == PTypeOK /\ Numbered /\ OneLooks /\ RaisedIsOnce /\ RaiseOnce

RunInv == RunTypeOK /\ Live /\ ParksCounted

Inv == RunInv /\ QInv /\ PInv

-----------------------------------------------------------------------------
(* The park count *)

MarksOK == parks \in Nat /\ awaiting \in BOOLEAN /\ writes \in [BOOLEAN -> Nat] /\ crossed \in BOOLEAN

LEMMA WritesOK ==
    ASSUME MarksOK, NEW set \in BOOLEAN, Write(set)
    PROVE  awaiting' \in BOOLEAN /\ writes' \in [BOOLEAN -> Nat] /\ crossed' \in BOOLEAN
BY DEF MarksOK, Write

LEMMA Counts ==
    ASSUME QTypeOK
    PROVE  /\ IsFiniteSet(held) /\ Cardinality(held \cap Blocking) \in Nat
           /\ \A S : /\ IsFiniteSet(S \cap held \cap Blocking) 
                     /\ Cardinality((held \ S) \cap Blocking)
                           = Cardinality(held \cap Blocking) - Cardinality(S \cap held \cap Blocking)
                     /\ Cardinality(S \cap held \cap Blocking) \in 0..Cardinality(held \cap Blocking)
<1>1. IsFiniteSet(held)
    BY QuestionsAssumption, FS_Subset DEF QTypeOK
<1>2. IsFiniteSet(held \cap Blocking)
    BY <1>1, FS_Subset
<1>3. ASSUME NEW S
      PROVE  /\ IsFiniteSet(S \cap held \cap Blocking)
             /\ Cardinality((held \ S) \cap Blocking)
                   = Cardinality(held \cap Blocking) - Cardinality(S \cap held \cap Blocking)
             /\ Cardinality(S \cap held \cap Blocking) \in 0..Cardinality(held \cap Blocking)
    <2> DEFINE B == held \cap Blocking
               C == S \cap held \cap Blocking
    <2>1. B \cap C = C
        OBVIOUS
    <2>2. IsFiniteSet(C) /\ Cardinality(C) <= Cardinality(B)
        BY <1>2, FS_Subset
    <2>3. Cardinality(B \ C) = Cardinality(B) - Cardinality(B \cap C)
        BY <1>2, FS_Difference
    <2>4. Cardinality(B) \in Nat /\ Cardinality(C) \in Nat
        BY <1>2, <2>2, FS_CardinalityType
    <2>5. (held \ S) \cap Blocking = B \ C
        OBVIOUS
    <2> HIDE DEF B, C
    <2>6. Cardinality(B \cap C) = Cardinality(C)
        BY <2>1
    <2>7. Cardinality(C) \in 0..Cardinality(B)
        BY <2>2, <2>4
    <2> QED BY <2>2, <2>3, <2>5, <2>6, <2>7 DEF B, C
<1> QED BY <1>1, <1>2, <1>3, FS_CardinalityType

\* What a step of the count leaves true of it.
Counted == MarksOK' /\ ParksCounted'

LEMMA Unparks ==
    ASSUME MarksOK, NEW n \in Nat, n <= parks, Unpark(n)
    PROVE  MarksOK' /\ parks' = parks - n
<1>1. parks' = parks - n /\ parks' \in Nat
    BY DEF Unpark, MarksOK
<1>2. CASE n > 0 /\ parks = n
    BY <1>1, <1>2, WritesOK DEF Unpark, MarksOK
<1>3. CASE ~(n > 0 /\ parks = n)
    BY <1>1, <1>3 DEF Unpark, MarksOK, NoWrite
<1> QED BY <1>2, <1>3

LEMMA ParkOne ==
    ASSUME MarksOK, Park
    PROVE  MarksOK' /\ parks' = parks + 1
<1>1. CASE parks = 0
    <2>1. Write(TRUE) /\ parks' = parks + 1 /\ TRUE \in BOOLEAN
        BY <1>1 DEF Park
    <2>2. awaiting' \in BOOLEAN /\ writes' \in [BOOLEAN -> Nat] /\ crossed' \in BOOLEAN
        BY <2>1, WritesOK
    <2> QED BY <2>1, <2>2 DEF MarksOK
<1>2. CASE parks # 0
    BY <1>2 DEF Park, MarksOK, NoWrite
<1> QED BY <1>1, <1>2

LEMMA Clears ==
    ASSUME MarksOK, Clear
    PROVE  MarksOK' /\ parks' = parks
<1>1. CASE parks = 0
    BY <1>1, WritesOK DEF Clear, MarksOK
<1>2. CASE parks # 0
    BY <1>2 DEF Clear, MarksOK, NoWrite
<1> QED BY <1>1, <1>2

LEMMA Releases ==
    ASSUME MarksOK, ParksCounted, QTypeOK, NEW S, Release(S), waiter' = waiter
    PROVE  Counted
<1> DEFINE n == Cardinality(S \cap held \cap Blocking)
           m == Cardinality(held \cap Blocking)
<1>0. n \in 0..m /\ m \in Nat
    BY Counts
<1>a. parks >= m
    BY <1>0 DEF ParksCounted
<1>1. n \in Nat /\ n <= parks
    <2> HIDE DEF n, m
    <2> QED BY <1>0, <1>a DEF MarksOK
<1>2. MarksOK' /\ parks' = parks - n
    BY <1>1, Unparks DEF Release
<1>3. Cardinality(held' \cap Blocking) = Cardinality(held \cap Blocking) - n
    BY Counts DEF Release
<1> QED BY <1>1, <1>2, <1>3, Counts DEF ParksCounted, Counted

LEMMA Drops ==
    ASSUME MarksOK, ParksCounted, QTypeOK, Drop, held' = held
    PROVE  Counted
<1> DEFINE n == IF waiter = 0 THEN 0 ELSE 1
<1>1. n \in Nat /\ n <= parks
    BY Counts DEF ParksCounted
<1>2. MarksOK' /\ parks' = parks - n
    BY <1>1, Unparks DEF Drop
<1> QED BY <1>1, <1>2, Counts DEF ParksCounted, Counted, Drop

LEMMA ParksOnOne ==
    ASSUME MarksOK, ParksCounted, QTypeOK, PTypeOK, held' = held,
           NEW t \in 1..MaxTurn, NEW p, p # 0, ParksOn(t, p)
    PROVE  Counted
<1>1. CASE waiter = 0
    BY <1>1, ParkOne, Counts DEF ParksOn, ParksCounted, Counted
<1>2. CASE waiter # 0
    <2>1. parks' = parks /\ waiter' = p
        BY <1>2 DEF ParksOn
    <2>2. MarksOK'
        <3>1. CASE parks = 1
            BY <1>2, <2>1, <3>1 DEF ParksOn, MarksOK
        <3>2. CASE parks # 1
            BY <1>2, <2>1, <3>2 DEF ParksOn, MarksOK, NoWrite
        <3> QED BY <3>1, <3>2
    <2> QED BY <1>2, <2>1, <2>2 DEF ParksCounted, Counted
<1> QED BY <1>1, <1>2

LEMMA CountsKept ==
    ASSUME MarksOK, ParksCounted, UNCHANGED <<marks, waiter>>, held' \cap Blocking = held \cap Blocking
    PROVE  Counted
BY DEF MarksOK, ParksCounted, Counted, marks

-----------------------------------------------------------------------------
(* RunInv, step by step *)

TurnOK ==
    /\ turn \in {"idle", "fresh", "adopting", "taking", "running", "sealed",
                 "ending", "closing", "lapsed", "down", "lapsing"}
    /\ resumed \in BOOLEAN /\ stops \subseteq 1..MaxTurn
    /\ turns \in 0..MaxTurn /\ crashes \in 0..MaxCrash /\ faults \in 0..MaxFault

LEMMA Parts ==
    /\ RunInv <=> TurnOK /\ Live /\ MarksOK /\ ParksCounted
    /\ RunInv' <=> TurnOK' /\ Live' /\ MarksOK' /\ ParksCounted'
BY DEF RunInv, RunTypeOK, TurnOK, MarksOK

FaultsOK == faults' = faults \/ Fault

LEMMA FaultsType == ASSUME TurnOK, FaultsOK PROVE faults' \in 0..MaxFault /\ faults' >= faults
BY RunStateAssumption DEF TurnOK, FaultsOK, Fault

LEMMA TurnKept ==
    ASSUME TurnOK, Live, UNCHANGED <<turnVars, crashes>>, FaultsOK
    PROVE  TurnOK' /\ Live'
BY FaultsType DEF TurnOK, Live, turnVars

Silent == held' \cap Blocking = held \cap Blocking /\ UNCHANGED <<marks, waiter>>

\* A step that leaves the turn, the marks and the waits alone.
LEMMA RunQuiet ==
    ASSUME Inv, Silent, UNCHANGED <<turnVars, crashes>>, FaultsOK
    PROVE  RunInv'
BY Parts, TurnKept, CountsKept DEF Inv, Silent, Counted

LEMMA RunCalls ==
    ASSUME Inv, UNCHANGED pVars, NEW q \in Asked, CallSteps(q)
    PROVE  RunInv'
<1> USE DEF Silent, FaultsOK, runVars
<1>0. TurnOK /\ Live /\ MarksOK /\ ParksCounted /\ QTypeOK /\ waiter' = waiter
    BY Parts DEF Inv, QInv, pVars
<1>1. CASE Ask(q)
    BY <1>0, <1>1, RunQuiet DEF Ask
<1>2. CASE Reread(q)
    BY <1>0, <1>2, RunQuiet DEF Reread
<1>3. CASE TakeEarlier(q)
    BY <1>0, <1>3, RunQuiet DEF TakeEarlier
<1>4. CASE Hold(q)
    <2>1. TurnOK' /\ Live'
        BY <1>0, <1>4, TurnKept DEF Hold
    <2>2. CASE q \in Blocking
        <3>1. held' \cap Blocking = (held \cap Blocking) \cup {q} /\ q \notin held \cap Blocking
            BY <1>4, <2>2 DEF Hold, Inv, QInv, WaitsBlock
        <3>2. IsFiniteSet(held \cap Blocking)
            BY <1>0, Counts, FS_Subset
        <3>3. Cardinality(held' \cap Blocking) = Cardinality(held \cap Blocking) + 1
            BY <3>1, <3>2, FS_AddElement
        <3>4. MarksOK' /\ parks' = parks + 1
            BY <1>0, <1>4, <2>2, ParkOne DEF Hold
        <3>5. ParksCounted'
            BY <1>0, <3>3, <3>4, Counts DEF ParksCounted
        <3> QED BY <2>1, <3>4, <3>5, Parts
    <2>3. CASE q \notin Blocking
        BY <1>0, <1>4, <2>3, RunQuiet DEF Hold
    <2> QED BY <2>2, <2>3
<1>5. CASE Withdraw(q)
    <2>1. Counted /\ TurnOK' /\ Live'
        BY <1>0, <1>5, Releases, TurnKept DEF Withdraw
    <2> QED BY <2>1, Parts DEF Counted
<1>6. CASE WithdrawalLands(q)
    BY <1>0, <1>6, RunQuiet DEF WithdrawalLands
<1>7. CASE AdoptHands(q)
    <2>1. held' \cap Blocking = held \cap Blocking
        BY <1>0, <1>7 DEF AdoptHands, QTypeOK, Cards
    <2> QED BY <1>0, <1>7, <2>1, RunQuiet DEF AdoptHands
<1> QED BY <1>1, <1>2, <1>3, <1>4, <1>5, <1>6, <1>7 DEF CallSteps

LEMMA RunPosts ==
    ASSUME Inv, UNCHANGED pVars, NEW p \in Posts,
           PostSteps(p) \/ \E q \in Asked : PostFind(p, q)
    PROVE  RunInv'
<1> USE DEF Silent, FaultsOK, runVars
<1>0. TurnOK /\ Live /\ MarksOK /\ ParksCounted /\ QTypeOK /\ waiter' = waiter
    BY Parts DEF Inv, QInv, pVars
<1>1. CASE PostSettle(p)
    BY <1>0, <1>1, RunQuiet DEF PostSettle
<1>2. CASE PostHands(p)
    <2>1. Release({post[p].q}) /\ UNCHANGED <<turnVars, crashes, faults>>
        BY <1>2 DEF PostHands
    <2>2. Counted /\ TurnOK' /\ Live'
        BY <1>0, <2>1, Releases, TurnKept
    <2> QED BY <2>2, Parts DEF Counted
<1>3. CASE PostTakesBack(p)
    BY <1>0, <1>3, RunQuiet DEF PostTakesBack
<1>4. CASE PostFindsNobody(p)
    BY <1>0, <1>4, RunQuiet DEF PostFindsNobody
<1>5. CASE PostOwes(p)
    BY <1>0, <1>5, RunQuiet DEF PostOwes
<1>6. CASE PostChecks(p, Asking # {})
    BY <1>0, <1>6, RunQuiet DEF PostChecks
<1>7. CASE PostClears(p)
    <2>1. MarksOK' /\ parks' = parks /\ held' = held
        BY <1>0, <1>7, Clears DEF PostClears
    <2>2. ParksCounted'
        BY <1>0, <2>1 DEF ParksCounted
    <2>3. TurnOK' /\ Live'
        BY <1>0, <1>7, TurnKept DEF PostClears
    <2> QED BY <2>1, <2>2, <2>3, Parts
<1>8. CASE \E q \in Asked : PostFind(p, q)
    BY <1>0, <1>8, RunQuiet DEF PostFind
<1> QED BY <1>1, <1>2, <1>3, <1>4, <1>5, <1>6, <1>7, <1>8 DEF PostSteps

LEMMA RunAdopts ==
    ASSUME Inv, UNCHANGED pVars, AdoptList \/ AdoptMarks \/ AdoptEnds
    PROVE  RunInv'
<1>0. TurnOK /\ Live /\ MarksOK /\ ParksCounted /\ QTypeOK /\ waiter' = waiter
    BY Parts DEF Inv, QInv, pVars
<1>1. FaultsOK /\ UNCHANGED <<resumed, stops, turns, marks, crashes>>
    BY DEF AdoptList, AdoptMarks, AdoptEnds, FaultsOK
<1>2. turn \in {"adopting", "taking"} /\ turn' \in {"taking", "running"}
    BY DEF AdoptList, AdoptMarks, AdoptEnds
<1>3. held' \cap Blocking = held \cap Blocking
    BY <1>0 DEF AdoptList, AdoptMarks, AdoptEnds, QTypeOK, Cards
<1>4. TurnOK' /\ Live'
    BY <1>0, <1>1, <1>2, FaultsType DEF TurnOK, Live
<1> QED BY <1>0, <1>1, <1>3, <1>4, CountsKept, Parts DEF Counted

LEMMA RunGates ==
    ASSUME Inv, UNCHANGED qVars, NEW t \in 1..MaxTurn, GateSteps(t)
    PROVE  RunInv'
<1> USE DEF Silent, FaultsOK, runVars
<1>0. TurnOK /\ Live /\ MarksOK /\ ParksCounted /\ QTypeOK /\ PTypeOK /\ held' = held
    BY Parts DEF Inv, QInv, PInv, qVars
<1>1. CASE GateLooks(t)
    BY <1>0, <1>1, RunQuiet DEF GateLooks
<1>2. CASE GateResumes(t)
    <2>1. ParksOn(t, gate[t].p) /\ gate[t].p # 0 /\ UNCHANGED <<turnVars, crashes, faults>>
        BY <1>2 DEF GateResumes, Inv, PInv, Numbered
    <2>2. Counted /\ TurnOK' /\ Live'
        BY <1>0, <2>1, ParksOnOne, TurnKept
    <2> QED BY <2>2, Parts DEF Counted
<1>3. CASE GateTakes(t)
    BY <1>0, <1>3, RunQuiet DEF GateTakes
<1>4. CASE GateLifts(t)
    BY <1>0, <1>4, RunQuiet DEF GateLifts
<1>5. CASE GateSupersedes(t)
    <2>1. Counted /\ TurnOK' /\ Live'
        BY <1>0, <1>5, Drops, TurnKept DEF GateSupersedes
    <2> QED BY <2>1, Parts DEF Counted
<1>6. CASE GateLapses(t)
    BY <1>0, <1>6, RunQuiet DEF GateLapses
<1>7. CASE GateInserts(t)
    BY <1>0, <1>7, RunQuiet DEF GateInserts
<1>8. CASE GateHolds(t)
    <2>1. ParksOn(t, gate[t].p) /\ gate[t].p # 0 /\ UNCHANGED <<turnVars, crashes, faults>>
        BY <1>8 DEF GateHolds, Inv, PInv, Numbered
    <2>2. Counted /\ TurnOK' /\ Live'
        BY <1>0, <2>1, ParksOnOne, TurnKept
    <2> QED BY <2>2, Parts DEF Counted
<1>9. CASE GateWithdraws(t)
    <2>1. Counted /\ TurnOK' /\ Live'
        BY <1>0, <1>9, Drops, TurnKept DEF GateWithdraws
    <2> QED BY <2>1, Parts DEF Counted
<1> QED BY <1>1, <1>2, <1>3, <1>4, <1>5, <1>6, <1>7, <1>8, <1>9 DEF GateSteps

LEMMA RunRaises ==
    ASSUME Inv, UNCHANGED qVars,
           \/ \E r \in Raises : RaiseSteps(r) \/ RaiseFind(r)
           \/ \E child \in BOOLEAN : GateOpens(child)
           \/ LapseLands
    PROVE  RunInv'
<1> USE DEF Silent, FaultsOK, runVars
<1>0. TurnOK /\ Live /\ MarksOK /\ ParksCounted /\ QTypeOK /\ PTypeOK /\ held' = held
    BY Parts DEF Inv, QInv, PInv, qVars
<1>1. ASSUME NEW r \in Raises, RaiseFind(r) \/ RaiseLooks(r) \/ RaiseSettles(r) \/ RaiseChecks(r, Parking # {})
      PROVE  RunInv'
    BY <1>0, <1>1, RunQuiet DEF RaiseFind, RaiseLooks, RaiseSettles, RaiseChecks
<1>2. ASSUME NEW r \in Raises, RaiseWakes(r)
      PROVE  RunInv'
    <2>1. Counted /\ TurnOK' /\ Live'
        BY <1>0, <1>2, Drops, TurnKept DEF RaiseWakes
    <2> QED BY <2>1, Parts DEF Counted
<1>3. ASSUME NEW r \in Raises, RaiseClears(r)
      PROVE  RunInv'
    <2>1. MarksOK' /\ parks' = parks /\ waiter' = waiter
        BY <1>0, <1>3, Clears DEF RaiseClears
    <2>2. ParksCounted'
        BY <1>0, <2>1 DEF ParksCounted
    <2>3. TurnOK' /\ Live'
        BY <1>0, <1>3, TurnKept DEF RaiseClears
    <2> QED BY <2>1, <2>2, <2>3, Parts
<1>4. ASSUME NEW child \in BOOLEAN, GateOpens(child)
      PROVE  RunInv'
    <2>1. TurnOK' /\ Live' /\ UNCHANGED <<turnVars, crashes, faults>>
        BY <1>0, <1>4, TurnKept DEF GateOpens
    <2>2. CASE resumed
        BY <1>0, <1>4, <2>1, <2>2, RunQuiet DEF GateOpens
    <2>3. CASE ~resumed
        <3>1. Drop
            BY <1>4, <2>3 DEF GateOpens
        <3> QED BY <1>0, <2>1, <3>1, Drops, Parts DEF Counted
    <2> QED BY <2>2, <2>3
<1>5. CASE LapseLands
    BY <1>0, <1>5, RunQuiet DEF LapseLands
<1> QED BY <1>1, <1>2, <1>3, <1>4, <1>5 DEF RaiseSteps

LEMMA RunTurns ==
    ASSUME Inv, TurnSteps \/ StartTurn \/ Stop \/ Crash \/ Lands
    PROVE  RunInv'
<1> USE DEF Silent, FaultsOK, runVars
<1>0. TurnOK /\ Live /\ MarksOK /\ ParksCounted /\ QTypeOK /\ PTypeOK
    BY Parts DEF Inv, QInv, PInv
<1>1. CASE StartTurn
    <2>1. UNCHANGED <<marks, held, waiter, stops, crashes, faults>>
        BY <1>1 DEF StartTurn, qVars, pVars
    <2>2. turns' \in 0..MaxTurn /\ turns' > 0 /\ turn' = "fresh" /\ resumed' = FALSE
        BY <1>0, <1>1, RunStateAssumption DEF StartTurn, TurnOK
    <2>3. TurnOK' /\ Live'
        BY <1>0, <2>1, <2>2 DEF TurnOK, Live
    <2> QED BY <1>0, <2>1, <2>3, CountsKept, Parts DEF Counted
<1>2. CASE Retire \/ Seal \/ TurnOver \/ SettleQuestions
    <2>1. /\ UNCHANGED <<marks, held, waiter, resumed, stops, turns, crashes>> /\ FaultsOK
          /\ \/ turn' \in {"running", "sealed", "closing"} /\ turn \in {"fresh", "running", "ending"}
             \/ turn' = "idle"
        BY <1>2 DEF Retire, Seal, TurnOver, SettleQuestions, Ends, qVars, pVars
    <2>2. TurnOK' /\ Live'
        BY <1>0, <2>1, FaultsType DEF TurnOK, Live
    <2> QED BY <1>0, <2>1, <2>2, CountsKept, Parts DEF Counted
<1>3. CASE Stop
    <2>1. TurnOK' /\ Live' /\ UNCHANGED <<marks, held, waiter>>
        BY <1>0, <1>3 DEF Stop, TurnOK, Live, qVars, pVars
    <2> QED BY <1>0, <2>1, CountsKept, Parts DEF Counted
<1>4. CASE EndQuestions
    <2>1. Release(held) /\ waiter' = waiter
        BY <1>4 DEF EndQuestions, ReleaseAll, pVars
    <2>2. TurnOK' /\ Live'
        BY <1>0, <1>4 DEF EndQuestions, Ends, TurnOK, Live
    <2> QED BY <1>0, <2>1, <2>2, Releases, Parts DEF Counted
<1>5. CASE EndPauses
    <2>1. Drop /\ held' = held
        BY <1>5 DEF EndPauses, qVars
    <2>2. TurnOK' /\ Live'
        BY <1>0, <1>5 DEF EndPauses, Ends, TurnOK, Live
    <2> QED BY <1>0, <2>1, <2>2, Drops, Parts DEF Counted
<1>6. CASE Crash
    <2>1. TurnOK' /\ Live'
        BY <1>0, <1>6, RunStateAssumption DEF Crash, TurnOK, Live
    <2>2. MarksOK'
        BY <1>0, <1>6 DEF Crash, MarkCrash, MarksOK
    <2>3. parks' = 0 /\ held' = {} /\ waiter' = 0
        BY <1>6 DEF Crash, MarkCrash, QCrash, PCrash
    <2>4. Cardinality(held' \cap Blocking) = 0
        BY <2>3, FS_EmptySet
    <2> QED BY <2>1, <2>2, <2>3, <2>4, Parts DEF ParksCounted
<1>7. CASE Redrive \/ BootLapses
    <2>1. /\ UNCHANGED <<marks, held, waiter, stops, turns, crashes, faults>>
          /\ \/ resumed /\ resumed' = resumed /\ turn' = "adopting"
             \/ resumed' = FALSE /\ turn' \in {"lapsing", "idle"}
        BY <1>7 DEF Redrive, BootLapses, Ends, qVars, pVars
    <2>2. TurnOK' /\ Live'
        BY <1>0, <2>1 DEF TurnOK, Live
    <2> QED BY <1>0, <2>1, <2>2, CountsKept, Parts DEF Counted
<1>8. CASE BootClears
    <2>1. MarksOK' /\ parks' = parks /\ held' = held /\ waiter' = waiter
        BY <1>0, <1>8, Clears DEF BootClears, qVars, pVars
    <2>2. TurnOK' /\ Live'
        BY <1>0, <1>8 DEF BootClears, Ends, TurnOK, Live
    <2>3. ParksCounted'
        BY <1>0, <2>1 DEF ParksCounted
    <2> QED BY <2>1, <2>2, <2>3, Parts
<1>9. CASE Lands
    <2> PICK set \in BOOLEAN : MarkLands(set)
        BY <1>9 DEF Lands
    <2>1. UNCHANGED <<turnVars, parks, held, waiter, crashes>> /\ FaultsOK
        BY <1>9 DEF Lands, MarkLands, qVars, pVars
    <2>2. MarksOK'
        BY <1>0 DEF MarkLands, MarksOK
    <2>3. TurnOK' /\ Live'
        BY <1>0, <2>1, TurnKept
    <2>4. ParksCounted'
        BY <1>0, <2>1 DEF ParksCounted
    <2> QED BY <2>2, <2>3, <2>4, Parts
<1> QED BY <1>1, <1>2, <1>3, <1>4, <1>5, <1>6, <1>7, <1>8, <1>9 DEF TurnSteps

LEMMA RunKept == ASSUME Inv, Next PROVE RunInv'
<1>1. CASE QSteps \/ ((\E p \in Posts, q \in Asked : PostFind(p, q)) /\ UNCHANGED pVars)
    BY <1>1, RunCalls, RunPosts, RunAdopts DEF QSteps
<1>2. CASE PSteps \/ (((\E child \in BOOLEAN : GateOpens(child)) \/ (\E r \in Raises : RaiseFind(r)))
                         /\ UNCHANGED qVars)
    BY <1>2, RunGates, RunRaises DEF PSteps
<1>3. CASE TurnSteps \/ StartTurn \/ Stop \/ Crash \/ Lands
    BY <1>3, RunTurns
<1> QED BY <1>1, <1>2, <1>3 DEF Next, Outside, System

-----------------------------------------------------------------------------
(* QInv, step by step *)

PostAt == {"idle", "found", "won", "refused", "owes", "check", "clear", "done"}

LEMMA FreePosts == Free.at = "idle" /\ Done.at = "done" /\ Free.q \in Asked /\ Done.q \in Asked
                   /\ Free \in [at : PostAt, q : Asked] /\ Done \in [at : PostAt, q : Asked]
BY QuestionsAssumption DEF Free, Done, PostAt

LEMMA StepsTo ==
    ASSUME QTypeOK, NEW p \in Posts, NEW to \in PostAt, Steps(p, to)
    PROVE  /\ post' \in [Posts -> [at : PostAt, q : Asked]] /\ post'[p].at = to
           /\ to # "done" => post'[p].q = post[p].q
           /\ \A o \in Posts \ {p} : post'[o] = post[o]
BY FreePosts DEF QTypeOK, Steps, PostAt

LEMMA Goings ==
    ASSUME QTypeOK, NEW q \in Asked, NEW to, Goes(q, to)
    PROVE  /\ call'[q] = to /\ \A o \in Asked \ {q} : call'[o] = call[o]
           /\ to \in {"asking", "waiting", "earlier", "shown", "answered", "cancelled"} =>
                call' \in [Asked -> {"todo", "asking", "waiting", "earlier", "replay", "shown",
                                     "answered", "cancelled", "over"}]
BY DEF QTypeOK, Goes

\* A step that leaves the questions alone.
LEMMA QStill ==
    ASSUME Inv, UNCHANGED qVars, crashes' \in Nat, faults' \in Nat,
           crashes' >= crashes, faults' >= faults,
           \/ turn' = turn
           \/ turn # "taking" /\ turn' # "taking"
                /\ (turn' \in {"down", "adopting"} => turn \in {"down", "adopting"})
                /\ (turn = "running" => InFlight = {})
    PROVE  QInv'
<1>1. crashes \in Nat /\ faults \in Nat
    BY RunStateAssumption DEF Inv, RunInv, RunTypeOK
<1>2. QTypeOK' /\ WaitsBlock' /\ AsksAfresh' /\ OneWinner' /\ GivenIsAnswered' /\ AnswerKept'
    BY DEF Inv, QInv, QTypeOK, WaitsBlock, AsksAfresh, AboutToAsk, OneWinner, Busy, GivenIsAnswered,
           AnswerKept, qVars, Cards, InFlight
<1>3. OwedOnce'
    BY DEF Inv, QInv, OwedOnce, qVars
<1>4. Tallied'
    <2>1. adopted.owed \subseteq owed /\ owed \subseteq Asked /\ got \in [Asked -> Nat]
        BY DEF Inv, QInv, OwedOnce, QTypeOK, Cards
    <2> QED BY <1>1, <2>1 DEF Inv, QInv, Tallied, qVars
<1> QED BY <1>2, <1>3, <1>4 DEF QInv

\* Crashes and faults are only counted up.
Later == /\ crashes \in Nat /\ faults \in Nat /\ crashes' \in Nat /\ faults' \in Nat
         /\ crashes' >= crashes /\ faults' >= faults

LEMMA LaterHere == ASSUME Inv, FaultsOK, crashes' = crashes PROVE Later
BY RunStateAssumption DEF Inv, RunInv, RunTypeOK, FaultsOK, Fault, Later

\* The same questions are answered, and nothing else of the answers changes.
LEMMA AnswersStill ==
    ASSUME QInv, UNCHANGED <<post, owed, torn, got>>,
           \A q \in Asked : question'[q] = "answered" <=> question[q] = "answered"
    PROVE  OneWinner' /\ GivenIsAnswered' /\ AnswerKept'
<1>1. \A p \in Posts : post[p].q \in Asked
    BY DEF QInv, QTypeOK
<1>2. OneWinner'
    BY <1>1 DEF QInv, OneWinner, Busy
<1>3. GivenIsAnswered'
    BY DEF QInv, GivenIsAnswered
<1>4. AnswerKept'
    BY DEF QInv, AnswerKept, Cards
<1> QED BY <1>2, <1>3, <1>4

\* What was given, and how often, does not change.
LEMMA TallyStill ==
    ASSUME QInv, Later, UNCHANGED <<owed, adopted, handed, torn, got>>,
           turn' = turn \/ (turn \notin {"taking"} /\ turn' \notin {"taking", "down", "adopting"})
    PROVE  OwedOnce' /\ Tallied'
<1>1. OwedOnce'
    BY DEF QInv, OwedOnce
<1>2. adopted.owed \subseteq owed /\ owed \subseteq Asked /\ got \in [Asked -> Nat]
    BY DEF QInv, OwedOnce, QTypeOK, Cards
<1> QED BY <1>1, <1>2 DEF QInv, Tallied, Later

CallAt == {"todo", "asking", "waiting", "earlier", "replay", "shown", "answered", "cancelled", "over"}
RecordAt == {"absent", "pending", "answered", "cancelled"}

LEMMA Cancels ==
    ASSUME QTypeOK, NEW S, Cancel(S)
    PROVE  /\ question' \in [Asked -> RecordAt]
           /\ \A q \in Asked : /\ question'[q] = "answered" <=> question[q] = "answered"
                               /\ question[q] \in {"absent", "cancelled"} => question'[q] = question[q]
BY DEF QTypeOK, Cancel, RecordAt

LEMMA QAsk ==
    ASSUME Inv, NEW q \in Asked,
           Ask(q) \/ Reread(q) \/ TakeEarlier(q) \/ Hold(q) \/ Withdraw(q) \/ WithdrawalLands(q)
    PROVE  QInv'
<1>0. QInv /\ QTypeOK /\ WaitsBlock /\ AsksAfresh
    BY DEF Inv, QInv
<1>1. UNCHANGED <<turn, owed, adopted, handed, torn, got, post, missed>> /\ Later
    BY LaterHere DEF Ask, Reread, TakeEarlier, Hold, Withdraw, WithdrawalLands, FaultsOK, runVars, turnVars
<1>2. OwedOnce' /\ Tallied'
    BY <1>0, <1>1, TallyStill
<1>3. /\ \A o \in Asked : question'[o] = "answered" <=> question[o] = "answered"
      /\ question' \in [Asked -> RecordAt]
      /\ \A o \in Asked : o # q /\ question[o] \in {"absent", "cancelled"} => question'[o] = question[o]
    <2>1. CASE Ask(q)
        BY <1>0, <2>1 DEF Ask, AsksAfresh, AboutToAsk, QTypeOK, RecordAt
    <2>2. CASE WithdrawalLands(q)
        BY <1>0, <2>2, Cancels DEF WithdrawalLands, QTypeOK, RecordAt
    <2>3. CASE ~Ask(q) /\ ~WithdrawalLands(q)
        BY <1>0, <2>3 DEF Reread, TakeEarlier, Hold, Withdraw, QTypeOK, RecordAt
    <2> QED BY <2>1, <2>2, <2>3
<1>4. OneWinner' /\ GivenIsAnswered' /\ AnswerKept'
    BY <1>0, <1>1, <1>3, AnswersStill
<1>5. QTypeOK' /\ WaitsBlock' /\ AsksAfresh'
    <2> USE DEF RecordAt
    <2>1. CASE Ask(q)
        BY <1>0, <1>1, <1>3, <2>1 DEF Ask, Goes, QTypeOK, WaitsBlock, AsksAfresh, AboutToAsk
    <2>2. CASE Reread(q)
        BY <1>0, <1>1, <1>3, <2>2 DEF Reread, Goes, QTypeOK, WaitsBlock, AsksAfresh, AboutToAsk
    <2>3. CASE TakeEarlier(q)
        BY <1>0, <1>1, <1>3, <2>3 DEF TakeEarlier, Goes, QTypeOK, WaitsBlock, AsksAfresh, AboutToAsk
    <2>4. CASE Hold(q)
        BY <1>0, <1>1, <1>3, <2>4 DEF Hold, Goes, QTypeOK, WaitsBlock, AsksAfresh, AboutToAsk
    <2>5. CASE Withdraw(q)
        BY <1>0, <1>1, <1>3, <2>5 DEF Withdraw, Aborted, Release, Goes, QTypeOK, WaitsBlock, AsksAfresh, AboutToAsk
    <2>6. CASE WithdrawalLands(q)
        BY <1>0, <1>1, <1>3, <2>6, Cancels DEF WithdrawalLands, QTypeOK, WaitsBlock, AsksAfresh, AboutToAsk
    <2> QED BY <2>1, <2>2, <2>3, <2>4, <2>5, <2>6
<1> QED BY <1>2, <1>4, <1>5 DEF QInv

LEMMA QAdopts ==
    ASSUME Inv, AdoptList \/ AdoptEnds \/ AdoptMarks \/ \E q \in Asked : AdoptHands(q)
    PROVE  QInv'
<1>0. QInv /\ QTypeOK /\ WaitsBlock /\ AsksAfresh /\ OwedOnce /\ Tallied /\ OneWinner /\ GivenIsAnswered /\ AnswerKept
    BY DEF Inv, QInv
<1>1. UNCHANGED <<question, call, earlier, withdrawn, post, missed>> /\ Later
    BY LaterHere DEF AdoptList, AdoptEnds, AdoptMarks, AdoptHands, FaultsOK, runVars, turnVars
<1>2. AsksAfresh'
    BY <1>0, <1>1 DEF AsksAfresh, AboutToAsk
<1>3. WaitsBlock'
    <2>1. held' \cap Blocking = held \cap Blocking
        BY <1>0 DEF AdoptList, AdoptEnds, AdoptMarks, AdoptHands, QTypeOK, Cards
    <2>2. turn # "running"
        BY DEF AdoptList, AdoptEnds, AdoptMarks, AdoptHands
    <2> QED BY <1>0, <1>1, <2>1, <2>2 DEF WaitsBlock
<1>4. CASE AdoptList
    <2>1. QTypeOK'
        BY <1>0, <1>1, <1>4 DEF AdoptList, QTypeOK, Pending, Undelivered, Cards
    <2>2. OneWinner' /\ GivenIsAnswered' /\ AnswerKept'
        BY <1>0, <1>4, AnswersStill DEF AdoptList
    <2>3. OwedOnce'
        BY <1>0, <1>4 DEF AdoptList, OwedOnce, Undelivered
    <2>4. Tallied'
        BY <1>0, <1>1, <1>4 DEF AdoptList, Tallied, Undelivered
    <2> QED BY <1>2, <1>3, <2>1, <2>2, <2>3, <2>4 DEF QInv
<1>5. CASE AdoptEnds
    <2>1. QTypeOK'
        BY <1>0, <1>1, <1>5 DEF AdoptEnds, QTypeOK, NoneAdopted, Cards
    <2>2. OneWinner' /\ GivenIsAnswered' /\ AnswerKept'
        BY <1>0, <1>5, AnswersStill DEF AdoptEnds
    <2>3. OwedOnce'
        BY <1>0, <1>5 DEF AdoptEnds, OwedOnce, NoneAdopted
    <2>4. Tallied'
        BY <1>0, <1>1, <1>5 DEF AdoptEnds, Tallied
    <2> QED BY <1>2, <1>3, <2>1, <2>2, <2>3, <2>4 DEF QInv
<1>6. CASE AdoptMarks
    <2>1. QTypeOK'
        BY <1>0, <1>1, <1>6 DEF AdoptMarks, QTypeOK, NoneAdopted, Cards
    <2>2. owed' \subseteq owed /\ torn' \subseteq torn \cup handed /\ torn \subseteq torn'
          /\ owed \subseteq owed' \cup handed /\ got' = got /\ handed \subseteq owed /\ handed' = {}
        BY <1>0, <1>6 DEF AdoptMarks, OwedOnce
    <2>3. OneWinner'
        BY <1>0, <1>1, <2>2 DEF OneWinner, Busy, QTypeOK
    <2>4. GivenIsAnswered'
        BY <1>0, <1>1, <2>2 DEF GivenIsAnswered
    <2>5. AnswerKept'
        BY <1>0, <1>1, <2>2 DEF AnswerKept, OwedOnce, QTypeOK, Cards
    <2>a. \/ turn' = "taking" /\ adopted'.owed = adopted.owed \ handed /\ torn' = torn /\ owed' = owed \ handed
          \/ turn' = "running" /\ adopted'.owed = {} /\ torn' = torn \cup handed /\ owed' = owed
        BY <1>0, <1>6 DEF AdoptMarks, QTypeOK, NoneAdopted
    <2>6. OwedOnce'
        BY <1>0, <1>6, <2>2, <2>a DEF AdoptMarks, OwedOnce
    <2>7. Tallied'
        <3>1. got \in [Asked -> Nat] /\ owed \subseteq Asked /\ adopted.owed \subseteq owed /\ turn = "taking"
            BY <1>0, <1>6 DEF QTypeOK, Cards, OwedOnce, AdoptMarks
        <3>2. \A q \in Asked : got[q] <= 1 + crashes' + faults' /\ (q \notin torn' => got[q] <= 1)
            BY <1>0, <1>1, <2>2, <3>1 DEF Tallied, Later
        <3>3. turn' = "taking" => \A q \in adopted'.owed \ handed' : got[q] <= crashes' + faults'
            BY <1>0, <1>1, <2>2, <2>a, <3>1 DEF Tallied, Later
        <3> QED BY <1>0, <2>2, <2>a, <3>2, <3>3 DEF Tallied
    <2> QED BY <1>2, <1>3, <2>1, <2>3, <2>4, <2>5, <2>6, <2>7 DEF QInv
<1>7. ASSUME NEW q \in Asked, AdoptHands(q)
      PROVE  QInv'
    <2>1. /\ q \in owed /\ q \in Cards /\ question[q] = "answered" /\ turn = "taking" /\ turn' = "taking"
          /\ UNCHANGED <<owed, torn, crashes, faults>> /\ handed = {} /\ handed' = {q}
          /\ adopted'.owed = adopted.owed /\ q \in adopted.owed
        BY <1>0, <1>7 DEF AdoptHands, OwedOnce, QTypeOK, GivenIsAnswered, runVars, turnVars
    <2>2. /\ got' \in [Asked -> Nat] /\ got'[q] = got[q] + 1
          /\ \A o \in Asked \ {q} : got'[o] = got[o]
        BY <1>0, <1>7 DEF AdoptHands, Into, QTypeOK
    <2>3. QTypeOK'
        BY <1>0, <1>1, <1>7, <2>1, <2>2 DEF AdoptHands, QTypeOK, Cards
    <2>4. OneWinner'
        BY <1>0, <1>1, <2>1, <2>2 DEF OneWinner, Busy, QTypeOK
    <2>5. GivenIsAnswered'
        BY <1>0, <1>1, <2>1, <2>2 DEF GivenIsAnswered
    <2>6. AnswerKept'
        BY <1>0, <1>1, <2>1, <2>2 DEF AnswerKept, QTypeOK, Cards
    <2>7. OwedOnce'
        BY <1>0, <2>1, <2>2 DEF OwedOnce, QTypeOK, Cards
    <2>8. Tallied'
        <3>1. /\ got[q] <= crashes + faults
              /\ q \notin torn => got[q] = 0
              /\ got \in [Asked -> Nat] /\ owed \subseteq Asked /\ adopted.owed \subseteq owed
            BY <1>0, <2>1 DEF Tallied, OwedOnce, QTypeOK, Cards
        <3>2. \A o \in Asked : got'[o] <= 1 + crashes + faults /\ (o \notin torn => got'[o] <= 1)
            BY <1>0, <1>1, <2>1, <2>2, <3>1 DEF Tallied, Later
        <3>3. \A o \in adopted.owed \ {q} : got'[o] <= crashes + faults
            BY <1>0, <1>1, <2>1, <2>2, <3>1 DEF Tallied, Later
        <3>4. \A o \in Blocking : got'[o] = 0
            BY <1>0, <2>1, <2>2, QuestionsAssumption DEF Tallied, Cards
        <3> QED BY <2>1, <3>2, <3>3, <3>4 DEF Tallied
    <2> QED BY <1>2, <1>3, <2>3, <2>4, <2>5, <2>6, <2>7, <2>8 DEF QInv
<1> QED BY <1>4, <1>5, <1>6, <1>7

\* What the request that won holds alone.
LEMMA Holds ==
    ASSUME QInv, NEW p \in Posts, Busy(p)
    PROVE  /\ post[p].q \in Asked /\ question[post[p].q] = "answered" /\ got[post[p].q] = 0
           /\ post[p].q \notin owed \cup torn \cup handed \cup adopted.owed
           /\ \A o \in Posts \ {p} : Busy(o) => post[o].q # post[p].q
BY DEF QInv, QTypeOK, OneWinner, OwedOnce

\* A step of a request that holds nothing, before or after.
LEMMA QRequest ==
    ASSUME Inv, NEW p \in Posts, ~Busy(p), ~Busy(p)', Later,
           UNCHANGED <<turn, question, owed, held, call, earlier, adopted, handed, withdrawn, got, torn, missed>>,
           post' \in [Posts -> [at : PostAt, q : Asked]], \A o \in Posts \ {p} : post'[o] = post[o]
    PROVE  QInv'
<1>0. QInv
    BY DEF Inv
<1>1. QTypeOK'
    BY <1>0 DEF QInv, QTypeOK, PostAt
<1>2. WaitsBlock' /\ AsksAfresh' /\ GivenIsAnswered'
    BY <1>0 DEF QInv, WaitsBlock, AsksAfresh, AboutToAsk, GivenIsAnswered
<1>3. \A o \in Posts : Busy(o)' <=> Busy(o)
    BY DEF Busy
<1>4. OneWinner'
    BY <1>0, <1>3 DEF QInv, OneWinner, Busy
<1>5. AnswerKept'
    <2>1. \A q \in Asked : (\E o \in Posts : post[o].q = q /\ Busy(o))
              => \E o \in Posts : post'[o].q = q /\ Busy(o)'
        BY <1>3 DEF Busy
    <2> QED BY <1>0, <2>1 DEF QInv, AnswerKept, Busy, Cards
<1>6. OwedOnce' /\ Tallied'
    BY <1>0, TallyStill
<1> QED BY <1>1, <1>2, <1>4, <1>5, <1>6 DEF QInv

LEMMA QFindsAndChecks ==
    ASSUME Inv, NEW p \in Posts,
           \/ \E q \in Asked : PostFind(p, q)
           \/ PostChecks(p, Asking # {}) \/ PostClears(p)
    PROVE  QInv'
<1>0. QTypeOK
    BY DEF Inv, QInv
<1>1. Later
    BY LaterHere DEF PostFind, PostChecks, PostClears, FaultsOK, runVars
<1>2. ~Busy(p)
    BY DEF PostFind, PostChecks, PostClears, Busy
<1>3. /\ post' \in [Posts -> [at : PostAt, q : Asked]] /\ post'[p].at \in {"found", "done", "clear"}
      /\ \A o \in Posts \ {p} : post'[o] = post[o]
    <2>1. CASE \E q \in Asked : PostFind(p, q)
        BY <1>0, <2>1 DEF PostFind, QTypeOK, PostAt
    <2>2. CASE PostChecks(p, Asking # {}) \/ PostClears(p)
        <3>1. Steps(p, "done") \/ Steps(p, "clear")
            BY <2>2 DEF PostChecks, PostClears
        <3>2. "done" \in PostAt /\ "clear" \in PostAt
            BY DEF PostAt
        <3> QED BY <1>0, <3>1, <3>2, StepsTo
    <2> QED BY <2>1, <2>2
<1>4. ~Busy(p)'
    BY <1>3 DEF Busy
<1>5. UNCHANGED <<turn, question, owed, held, call, earlier, adopted, handed, withdrawn, got, torn, missed>>
    BY DEF PostFind, PostChecks, PostClears, runVars, turnVars
<1> QED BY <1>1, <1>2, <1>3, <1>4, <1>5, QRequest

LEMMA QSettle ==
    ASSUME Inv, NEW p \in Posts, PostSettle(p)
    PROVE  QInv'
<1> DEFINE q == post[p].q
<1>0. QInv /\ QTypeOK /\ q \in Asked /\ ~Busy(p) /\ Later
    BY LaterHere DEF Inv, QInv, QTypeOK, PostSettle, Busy, FaultsOK, runVars
<1>1. UNCHANGED <<turn, owed, held, call, earlier, adopted, handed, withdrawn, got, torn, missed>>
    BY DEF PostSettle, runVars, turnVars
<1>2. CASE question[q] # "pending"
    <2>1. Steps(p, "done") /\ "done" \in PostAt /\ question' = question
        BY <1>2 DEF PostSettle, PostAt
    <2>2. /\ post' \in [Posts -> [at : PostAt, q : Asked]] /\ post'[p].at = "done"
          /\ \A o \in Posts \ {p} : post'[o] = post[o]
        BY <1>0, <2>1, StepsTo
    <2> QED BY <1>0, <1>1, <2>1, <2>2, QRequest DEF Busy
<1>3. CASE question[q] = "pending"
    <2>1. Steps(p, "won") /\ "won" \in PostAt /\ question' = [question EXCEPT ![q] = "answered"]
        BY <1>3 DEF PostSettle, PostAt
    <2>2. /\ post' \in [Posts -> [at : PostAt, q : Asked]] /\ post'[p].at = "won" /\ post'[p].q = q
          /\ \A o \in Posts \ {p} : post'[o] = post[o]
        BY <1>0, <2>1, StepsTo
    <2>3. QTypeOK'
        BY <1>0, <1>1, <2>1, <2>2 DEF QTypeOK, PostAt
    <2>4. WaitsBlock' /\ AsksAfresh'
        BY <1>0, <1>1, <1>3, <2>1 DEF QInv, QTypeOK, WaitsBlock, AsksAfresh, AboutToAsk
    <2>5. /\ got[q] = 0 /\ q \notin owed \cup torn
          /\ \A o \in Posts : Busy(o) => post[o].q # q
        BY <1>0, <1>3 DEF QInv, QTypeOK, GivenIsAnswered, OneWinner
    <2>6. GivenIsAnswered'
        BY <1>0, <1>1, <2>1 DEF QInv, QTypeOK, GivenIsAnswered
    <2>7. \A o \in Posts \ {p} : (Busy(o)' <=> Busy(o)) /\ post'[o] = post[o]
        BY <2>2 DEF Busy
    <2>8. OneWinner'
        BY <1>0, <1>1, <2>1, <2>2, <2>5, <2>7 DEF QInv, QTypeOK, OneWinner, Busy
    <2>9. AnswerKept'
        BY <1>0, <1>1, <2>1, <2>2, <2>7 DEF QInv, QTypeOK, AnswerKept, Cards
    <2>10. OwedOnce' /\ Tallied'
        BY <1>0, <1>1, TallyStill
    <2> QED BY <2>3, <2>4, <2>6, <2>8, <2>9, <2>10 DEF QInv
<1> QED BY <1>2, <1>3

LEMMA QHands ==
    ASSUME Inv, NEW p \in Posts, PostHands(p)
    PROVE  QInv'
<1> DEFINE q == post[p].q
<1>0. /\ QInv /\ QTypeOK /\ Busy(p) /\ post[p].at = "won" /\ Later /\ q \in held
      /\ held' = held \ {q}
    BY LaterHere DEF Inv, QInv, PostHands, Release, Taken, Busy, FaultsOK
<1>1. UNCHANGED <<turn, question, owed, earlier, adopted, handed, withdrawn, torn, missed, crashes, faults>>
    BY DEF PostHands, turnVars
<1>2. /\ q \in Asked /\ question[q] = "answered" /\ got[q] = 0
      /\ q \notin owed \cup torn \cup handed \cup adopted.owed
      /\ \A o \in Posts \ {p} : Busy(o) => post[o].q # q
    BY <1>0, Holds
<1>3. CASE q \in Blocking
    <2>1. Goes(q, "answered") /\ got' = got /\ Steps(p, "done") /\ "done" \in PostAt
        BY <1>3 DEF PostHands, PostAt
    <2>2. /\ post' \in [Posts -> [at : PostAt, q : Asked]] /\ post'[p].at = "done"
          /\ \A o \in Posts \ {p} : post'[o] = post[o]
        BY <1>0, <2>1, StepsTo
    <2>3. QTypeOK'
        BY <1>0, <1>1, <1>2, <2>1, <2>2, Goings DEF QTypeOK, PostAt
    <2>4. WaitsBlock' /\ AsksAfresh'
        BY <1>0, <1>1, <1>2, <1>3, <2>1, Goings DEF QInv, WaitsBlock, AsksAfresh, AboutToAsk
    <2>5. GivenIsAnswered'
        BY <1>0, <1>1, <2>1 DEF QInv, GivenIsAnswered
    <2>6. \A o \in Posts : Busy(o)' => o # p /\ Busy(o) /\ post'[o] = post[o]
        BY <2>2 DEF Busy
    <2>7. OneWinner'
        BY <1>0, <1>1, <2>1, <2>2, <2>6 DEF QInv, OneWinner, Busy
    <2>8. AnswerKept'
        BY <1>0, <1>1, <1>3, <2>1, <2>2 DEF QInv, AnswerKept, Cards
    <2>9. OwedOnce' /\ Tallied'
        BY <1>0, <1>1, <2>1, TallyStill
    <2> QED BY <2>3, <2>4, <2>5, <2>7, <2>8, <2>9 DEF QInv
<1>4. CASE q \notin Blocking
    <2>1. /\ call' = call /\ q \in Cards
          /\ \/ Into({q}) /\ Steps(p, "done")
             \/ got' = got /\ Steps(p, "refused")
        BY <1>2, <1>4 DEF PostHands, Cards
    <2>2. /\ post' \in [Posts -> [at : PostAt, q : Asked]]
          /\ \A o \in Posts \ {p} : post'[o] = post[o]
          /\ got' \in [Asked -> Nat] /\ \A o \in Asked \ {q} : got'[o] = got[o]
          /\ \/ got'[q] = 1 /\ post'[p].at = "done"
             \/ got'[q] = 0 /\ post'[p].at = "refused" /\ post'[p].q = q
        <3>1. "done" \in PostAt /\ "refused" \in PostAt
            BY DEF PostAt
        <3>2. CASE Into({q}) /\ Steps(p, "done")
            BY <1>0, <1>2, <3>1, <3>2, StepsTo DEF Into, QTypeOK
        <3>3. CASE got' = got /\ Steps(p, "refused")
            BY <1>0, <1>2, <3>1, <3>3, StepsTo DEF QTypeOK
        <3> QED BY <2>1, <3>2, <3>3
    <2>3. QTypeOK'
        BY <1>0, <1>1, <2>1, <2>2 DEF QTypeOK, PostAt
    <2>4. WaitsBlock' /\ AsksAfresh'
        BY <1>0, <1>1, <2>1 DEF QInv, WaitsBlock, AsksAfresh, AboutToAsk
    <2>5. GivenIsAnswered'
        BY <1>0, <1>1, <1>2, <2>2 DEF QInv, GivenIsAnswered
    <2>6. \A o \in Posts \ {p} : (Busy(o)' <=> Busy(o)) /\ post'[o] = post[o]
        BY <2>2 DEF Busy
    <2>7. OneWinner'
        BY <1>0, <1>1, <1>2, <2>1, <2>2, <2>6 DEF QInv, QTypeOK, OneWinner, Busy
    <2>8. AnswerKept'
        <3>1. got'[q] > 0 \/ (Busy(p)' /\ post'[p].q = q)
            BY <2>2 DEF Busy
        <3>2. \A o \in Cards \ {q} : got[o] > 0 => got'[o] > 0
            BY <2>2 DEF Cards
        <3>3. \A r \in Posts : Busy(r) /\ post[r].q # q => Busy(r)' /\ post'[r].q = post[r].q
            BY <2>6
        <3>4. \A o \in Cards \ {q} : question[o] = "answered" =>
                  got'[o] > 0 \/ o \in owed \/ o \in torn \/ \E r \in Posts : post'[r].q = o /\ Busy(r)'
            BY <1>0, <3>2, <3>3 DEF QInv, AnswerKept, Busy
        <3>5. \A o \in Cards : question[o] = "answered" =>
                  got'[o] > 0 \/ o \in owed \/ o \in torn \/ \E r \in Posts : post'[r].q = o /\ Busy(r)'
            BY <3>1, <3>4
        <3> QED BY <1>1, <3>5 DEF AnswerKept, Busy, Cards
    <2>9. OwedOnce'
        BY <1>0, <1>1, <1>2, <2>2 DEF QInv, OwedOnce, QTypeOK, Cards
    <2>10. Tallied'
        <3>1. \A o \in Blocking : got'[o] = 0
            BY <1>0, <1>4, <2>2, QuestionsAssumption DEF QInv, Tallied
        <3>2. \A o \in Asked : got'[o] <= 1 + crashes + faults /\ (o \notin torn => got'[o] <= 1)
            BY <1>0, <1>2, <2>2 DEF QInv, Tallied, Later
        <3>3. \A o \in owed \cup adopted.owed : got'[o] = got[o]
            BY <1>0, <1>2, <2>2 DEF QInv, OwedOnce, QTypeOK, Cards
        <3> QED BY <1>0, <1>1, <3>1, <3>2, <3>3 DEF QInv, Tallied
    <2> QED BY <2>3, <2>4, <2>5, <2>7, <2>8, <2>9, <2>10 DEF QInv
<1> QED BY <1>3, <1>4

LEMMA QFindsNobody ==
    ASSUME Inv, NEW p \in Posts, PostFindsNobody(p)
    PROVE  QInv'
<1> DEFINE q == post[p].q
           to == IF q \in Blocking THEN "check" ELSE "owes"
<1>0. QInv /\ QTypeOK /\ Busy(p) /\ Later /\ Steps(p, to) /\ to \in PostAt
    BY LaterHere DEF Inv, QInv, PostFindsNobody, Busy, FaultsOK, runVars, PostAt
<1>1. UNCHANGED <<turn, question, owed, held, call, earlier, adopted, handed, withdrawn, got, torn>>
    BY DEF PostFindsNobody, runVars, turnVars
<1>2. /\ post' \in [Posts -> [at : PostAt, q : Asked]] /\ post'[p].at = to /\ post'[p].q = q
      /\ \A o \in Posts \ {p} : post'[o] = post[o]
    BY <1>0, StepsTo
<1>3. q \in Asked
    BY <1>0 DEF QTypeOK
<1>4. QTypeOK'
    BY <1>0, <1>1, <1>2, <1>3 DEF PostFindsNobody, QTypeOK, PostAt
<1>5. WaitsBlock' /\ AsksAfresh' /\ GivenIsAnswered'
    BY <1>0, <1>1 DEF QInv, WaitsBlock, AsksAfresh, AboutToAsk, GivenIsAnswered
<1>6. \A o \in Posts : /\ post'[o].q = post[o].q /\ (Busy(o)' => Busy(o))
                       /\ post[o].q \in Cards /\ Busy(o) => Busy(o)'
    BY <1>0, <1>2 DEF Busy, Cards
<1>7. OneWinner'
    <2>1. Busy(p)' => q \in Cards
        BY <1>2, <1>3 DEF Busy, Cards
    <2> QED BY <1>0, <1>1, <1>2, <1>6, <2>1 DEF QInv, OneWinner, Busy
<1>8. AnswerKept'
    BY <1>0, <1>1, <1>6 DEF QInv, AnswerKept, Busy, Cards
<1>9. OwedOnce' /\ Tallied'
    BY <1>0, <1>1, TallyStill
<1> QED BY <1>4, <1>5, <1>7, <1>8, <1>9 DEF QInv

\* A card's answer is handed on: kept for later, taken back, or torn by a fault.
LEMMA QLeaves ==
    ASSUME Inv, NEW p \in Posts, PostTakesBack(p) \/ PostOwes(p)
    PROVE  QInv'
<1> DEFINE q == post[p].q
           to == post'[p].at
<1>0. /\ QInv /\ QTypeOK /\ Busy(p) /\ Later /\ q \in Cards
      /\ Steps(p, "done") \/ Steps(p, "check")
    <2>1. post[p].at \in {"refused", "owes"}
        BY DEF PostTakesBack, PostOwes
    <2> QED BY <2>1, LaterHere DEF Inv, QInv, OneWinner, PostTakesBack, PostOwes, Busy, FaultsOK, runVars
<1>1. UNCHANGED <<turn, held, call, earlier, adopted, handed, withdrawn, got, missed>>
    BY DEF PostTakesBack, PostOwes, turnVars
<1>2. /\ q \in Asked /\ question[q] = "answered" /\ got[q] = 0
      /\ q \notin owed \cup torn \cup handed \cup adopted.owed
      /\ \A o \in Posts \ {p} : Busy(o) => post[o].q # q
    BY <1>0, Holds
<1>3. /\ post' \in [Posts -> [at : PostAt, q : Asked]] /\ ~Busy(p)'
      /\ \A o \in Posts \ {p} : post'[o] = post[o]
    <2>1. "done" \in PostAt /\ "check" \in PostAt
        BY DEF PostAt
    <2> QED BY <1>0, <2>1, StepsTo DEF Busy
<1>4. \A o \in Posts : Busy(o)' => o # p /\ Busy(o) /\ post'[o] = post[o] /\ post[o].q # q
    BY <1>2, <1>3 DEF Busy
\* Which of the three it was.
<1>5. \/ question' = [question EXCEPT ![q] = "cancelled"] /\ owed' = owed /\ torn' = torn
      \/ question' = question /\ owed' = owed \cup {q} /\ torn' = torn
      \/ question' = question /\ owed' = owed /\ torn' = torn \cup {q}
    BY DEF PostTakesBack, PostOwes, Owes
<1>6. QTypeOK'
    BY <1>0, <1>1, <1>3, <1>5 DEF QTypeOK, PostAt
<1>7. WaitsBlock' /\ AsksAfresh'
    BY <1>0, <1>1, <1>2, <1>5 DEF QInv, QTypeOK, WaitsBlock, AsksAfresh, AboutToAsk
<1>8. GivenIsAnswered'
    BY <1>0, <1>1, <1>2, <1>5 DEF QInv, QTypeOK, GivenIsAnswered
<1>9. OneWinner'
    BY <1>0, <1>1, <1>4, <1>5 DEF QInv, QTypeOK, OneWinner, Busy
<1>10. AnswerKept'
    <2>1. \A o \in Posts : Busy(o) => (Busy(o)' /\ post'[o] = post[o]) \/ post[o].q = q
        BY <1>3 DEF Busy
    <2> QED BY <1>0, <1>1, <1>5, <2>1 DEF QInv, QTypeOK, AnswerKept, Busy, Cards
<1>11. OwedOnce'
    BY <1>0, <1>1, <1>2, <1>5 DEF QInv, OwedOnce
<1>12. Tallied'
    <2>1. got \in [Asked -> Nat] /\ owed \subseteq Asked /\ adopted.owed \subseteq owed
        BY <1>0 DEF QInv, OwedOnce, QTypeOK, Cards
    <2>2. \A o \in Asked : got[o] <= 1 + crashes' + faults' /\ (o \notin torn' => got[o] <= 1)
        BY <1>0, <1>5, <2>1 DEF QInv, Tallied, Later
    <2>3. turn \in {"down", "adopting"} => \A o \in owed' : got[o] <= crashes' + faults'
        BY <1>0, <1>2, <1>5, <2>1 DEF QInv, Tallied, Later
    <2>4. turn = "taking" => \A o \in adopted.owed \ handed : got[o] <= crashes' + faults'
        BY <1>0, <2>1 DEF QInv, Tallied, Later
    <2> QED BY <1>0, <1>1, <2>2, <2>3, <2>4 DEF QInv, Tallied
<1> QED BY <1>6, <1>7, <1>8, <1>9, <1>10, <1>11, <1>12 DEF QInv

LEMMA QTurns ==
    ASSUME Inv, TurnSteps \/ StartTurn \/ Stop \/ Lands
    PROVE  QInv'
<1>0. QInv /\ QTypeOK /\ WaitsBlock /\ AsksAfresh
    BY DEF Inv, QInv
<1>1. Later
    <2>1. FaultsOK /\ crashes' = crashes
        BY DEF TurnSteps, Retire, Seal, EndQuestions, SettleQuestions, EndPauses, TurnOver, Redrive,
               BootLapses, BootClears, StartTurn, Stop, Lands, MarkLands, FaultsOK
    <2> QED BY <2>1, LaterHere
<1>2. CASE StartTurn \/ Stop \/ Seal \/ EndPauses \/ Redrive \/ BootClears \/ Lands
    <2>1. /\ UNCHANGED qVars
          /\ \/ turn' = turn
             \/ turn # "taking" /\ turn' # "taking"
                  /\ (turn' \in {"down", "adopting"} => turn \in {"down", "adopting"})
                  /\ (turn = "running" => InFlight = {})
        BY <1>2 DEF StartTurn, Stop, Seal, EndPauses, Redrive, BootClears, Lands, Ends, MarkLands, turnVars
    <2> QED BY <1>1, <2>1, QStill DEF Later
<1>3. CASE Retire \/ EndQuestions \/ SettleQuestions \/ TurnOver \/ BootLapses
    <2>1. /\ UNCHANGED <<owed, earlier, adopted, handed, withdrawn, post, got, torn, missed>>
          /\ turn \in {"fresh", "sealed", "ending", "lapsed", "down"}
          /\ turn' \in {"running", "ending", "closing", "idle", "lapsing"}
        BY <1>3 DEF Retire, EndQuestions, SettleQuestions, TurnOver, BootLapses, Ends
    <2>2. OwedOnce' /\ Tallied'
        BY <1>0, <1>1, <2>1, TallyStill
    <2>3. /\ question' \in [Asked -> RecordAt]
          /\ \A q \in Asked : /\ question'[q] = "answered" <=> question[q] = "answered"
                              /\ question[q] \in {"absent", "cancelled"} => question'[q] = question[q]
        <3>1. Cancel(Pending \ held) \/ Cancel(Pending) \/ question' = question
            BY <1>3 DEF Retire, EndQuestions, SettleQuestions, TurnOver, BootLapses, RetireQuestions, SettleOpen
        <3> QED BY <1>0, <3>1, Cancels DEF QTypeOK, RecordAt
    <2>4. OneWinner' /\ GivenIsAnswered' /\ AnswerKept'
        BY <1>0, <2>1, <2>3, AnswersStill
    <2>5. held' \subseteq held /\ (CallsOver \/ call' = call)
        BY <1>3 DEF Retire, EndQuestions, SettleQuestions, TurnOver, BootLapses, ReleaseAll, Release
    <2>6. /\ \A q \in Asked : call'[q] = call[q] \/ (call'[q] = "over" /\ call[q] # "waiting")
          /\ call' \in [Asked -> CallAt]
        BY <1>0, <2>1, <2>5 DEF CallsOver, QTypeOK, WaitsBlock, CallAt
    <2>7. QTypeOK'
        BY <1>0, <2>1, <2>3, <2>5, <2>6 DEF QTypeOK, CallAt, RecordAt
    <2>8. WaitsBlock'
        BY <1>0, <2>1, <2>5, <2>6 DEF WaitsBlock
    <2>9. AsksAfresh'
        BY <1>0, <2>1, <2>3, <2>6 DEF AsksAfresh, AboutToAsk
    <2> QED BY <2>2, <2>4, <2>7, <2>8, <2>9 DEF QInv
<1> QED BY <1>2, <1>3 DEF TurnSteps

\* What a crash tears: the answers a request holds, the one an adoption posted.
LEMMA QCrashes ==
    ASSUME Inv, Crash
    PROVE  QInv'
<1> DEFINE cut == {q \in Cards : \E p \in Posts : post[p].q = q /\ Busy(p)}
<1>0. QInv /\ QTypeOK /\ WaitsBlock /\ AsksAfresh /\ OneWinner /\ GivenIsAnswered /\ OwedOnce /\ Tallied /\ AnswerKept
    BY DEF Inv, QInv
<1>1. /\ held' = {} /\ adopted' = NoneAdopted /\ handed' = {} /\ withdrawn' = {}
      /\ torn' = torn \cup handed \cup cut /\ earlier' = Each("absent")
      /\ UNCHANGED <<question, owed, got, missed, faults>> /\ turn' = "down" /\ crashes' = crashes + 1
    BY DEF Crash, QCrash, Busy
<1>2. crashes \in Nat /\ faults \in Nat
    BY RunStateAssumption DEF Inv, RunInv, RunTypeOK
<1>3. \A q \in Asked : call'[q] \in {"replay", call[q]} /\ call'[q] \notin {"asking", "earlier", "waiting"}
    BY <1>0 DEF Crash, QCrash, InFlight, QTypeOK
<1>4. post' \in [Posts -> [at : PostAt, q : Asked]] /\ \A p \in Posts : post'[p].at \in {"idle", "done"}
    BY <1>0, FreePosts DEF Crash, QCrash, QTypeOK, PostAt
<1>5. cut \subseteq Cards /\ handed \subseteq owed /\ \A q \in cut : question[q] = "answered" /\ q \in Asked
    BY <1>0 DEF OneWinner, OwedOnce, Cards
<1>6. QTypeOK'
    <2>1. call' \in [Asked -> CallAt]
        BY <1>0 DEF Crash, QCrash, QTypeOK, CallAt
    <2>2. adopted' \in [open : SUBSET Cards, owed : SUBSET Cards] /\ earlier' \in [Asked -> RecordAt]
        BY <1>1 DEF NoneAdopted, Each, RecordAt
    <2>3. torn' \subseteq Cards
        BY <1>0, <1>1 DEF QTypeOK
    <2> QED BY <1>0, <1>1, <1>4, <2>1, <2>2, <2>3 DEF QTypeOK, CallAt, RecordAt, PostAt
<1>7. WaitsBlock'
    BY <1>1, <1>3 DEF WaitsBlock
<1>8. AsksAfresh'
    BY <1>0, <1>1, <1>3 DEF AsksAfresh, AboutToAsk
<1>9. OneWinner'
    BY <1>4 DEF OneWinner, Busy
<1>10. GivenIsAnswered'
    BY <1>0, <1>1, <1>5 DEF GivenIsAnswered
<1>11. AnswerKept'
    BY <1>0, <1>1 DEF AnswerKept, Busy, Cards
<1>12. OwedOnce'
    BY <1>0, <1>1 DEF OwedOnce, NoneAdopted
<1>13. Tallied'
    <2>1. owed \subseteq Asked /\ got \in [Asked -> Nat]
        BY <1>0 DEF QTypeOK, Cards
    <2>2. \A q \in owed : got[q] <= crashes + 1 + faults
        BY <1>0, <1>2, <2>1 DEF Tallied
    <2>3. \A q \in Asked : got[q] <= 2 + crashes + faults /\ (q \notin torn' => got[q] <= 1)
        BY <1>0, <1>1, <1>2, <2>1 DEF Tallied
    <2> QED BY <1>0, <1>1, <1>2, <2>1, <2>2, <2>3 DEF Tallied
<1> QED BY <1>6, <1>7, <1>8, <1>9, <1>10, <1>11, <1>12, <1>13 DEF QInv

LEMMA QKept == ASSUME Inv, Next PROVE QInv'
<1>1. CASE QSteps \/ \E p \in Posts, q \in Asked : PostFind(p, q)
    BY <1>1, QAsk, QAdopts, QFindsAndChecks, QSettle, QHands, QLeaves, QFindsNobody
       DEF QSteps, CallSteps, PostSteps
<1>2. CASE PSteps \/ (((\E child \in BOOLEAN : GateOpens(child)) \/ (\E r \in Raises : RaiseFind(r)))
                         /\ UNCHANGED qVars)
    <2>1. UNCHANGED qVars
        BY <1>2 DEF PSteps
    <2>2. turn' = turn /\ crashes' = crashes /\ FaultsOK
        BY <1>2 DEF PSteps, GateSteps, RaiseSteps, GateOpens, RaiseFind, GateLooks, GateResumes, GateTakes,
           GateLifts, GateSupersedes, GateLapses, GateInserts, GateHolds, GateWithdraws, RaiseLooks,
           RaiseSettles, RaiseWakes, RaiseChecks, RaiseClears, LapseLands, FaultsOK, runVars, turnVars
    <2> QED BY <2>1, <2>2, LaterHere, QStill DEF Later
<1>3. CASE TurnSteps \/ StartTurn \/ Stop \/ Lands
    BY <1>3, QTurns
<1>4. CASE Crash
    BY <1>4, QCrashes
<1> QED BY <1>1, <1>2, <1>3, <1>4 DEF Next, Outside, System

-----------------------------------------------------------------------------
(* PInv, step by step *)

GateAt == {"none", "look", "seen", "lift", "lapse", "insert", "hold", "wait"}
GateReads == {"none", "pending", "kept", "raised", "cancelled"}
GateStates(n) == [at : GateAt, p : 0..n, read : GateReads]
RaiseStates(n) == [at : {"idle", "found", "sent", "won", "clear", "done"}, p : 0..n, sees : BOOLEAN]
PauseAt == {"pending", "raised", "cancelled"}

LEMMA PauseTypes ==
    ASSUME PTypeOK
    PROVE  /\ Len(pause) \in Nat /\ Len(pause) <= MaxPause /\ pause \in [Pauses -> PauseAt]
           /\ gate \in [1..MaxTurn -> GateStates(Len(pause))]
           /\ raise \in [Raises -> RaiseStates(Len(pause))]
           /\ MaxPause \in Nat /\ applied \in [1..MaxPause -> Nat] /\ kept \subseteq Pauses
<1>1. pause \in Seq(PauseAt)
    BY DEF PTypeOK, PauseAt
<1>2. Len(pause) \in Nat /\ pause \in [1..Len(pause) -> PauseAt]
    BY <1>1
<1> QED BY <1>2, BudgetPauseAssumption DEF PTypeOK, Pauses, GateStates, GateAt, GateReads, RaiseStates

\* The pauses after a step: a raised one stays raised.
PausesGo ==
    /\ pause' \in Seq(PauseAt) /\ Len(pause') >= Len(pause) /\ Len(pause') <= MaxPause
    /\ \A p \in Pauses : pause[p] = "raised" => pause'[p] = "raised"

OthersOK == waiter' \in 0..Len(pause') /\ lapses' \in BOOLEAN /\ overtaken' \subseteq 1..Len(pause')
            /\ late' \subseteq 1..MaxTurn

\* A gate stays where it is, or goes somewhere it neither looks nor lifts.
Settles(t) ==
    \/ gate'[t] = gate[t]
    \/ gate'[t].at \notin {"look", "seen", "lift"} /\ (gate'[t].at \in {"hold", "wait"} => gate'[t].p # 0)

LEMMA PausesStill == ASSUME PTypeOK, pause' = pause PROVE PausesGo
BY PauseTypes DEF PTypeOK, PausesGo, PauseAt

LEMMA PausesSettle == ASSUME PTypeOK, SettlePauses PROVE PausesGo /\ Len(pause') = Len(pause)
<1> DEFINE f == [p \in Pauses |-> IF pause[p] = "pending" THEN "cancelled" ELSE pause[p]]
<1>1. pause' = f /\ Len(pause) \in Nat /\ pause \in [Pauses -> PauseAt]
    BY PauseTypes DEF SettlePauses
<1>2. f \in [1..Len(pause) -> PauseAt]
    BY <1>1 DEF Pauses, PauseAt
<1>3. f \in Seq(PauseAt) /\ Len(f) = Len(pause)
    BY <1>1, <1>2
<1>4. \A p \in Pauses : pause[p] = "raised" => f[p] = "raised"
    OBVIOUS
<1> HIDE DEF f
<1> QED BY <1>1, <1>3, <1>4, PauseTypes DEF PausesGo

LEMMA GatesMove ==
    ASSUME Inv, PausesGo, OthersOK, UNCHANGED <<kept, applied, raise>>,
           gate' \in [1..MaxTurn -> GateStates(Len(pause'))],
           \A t \in 1..MaxTurn : Settles(t),
           resumed' => resumed /\ turns' = turns
    PROVE  PInv'
<1>0. PInv /\ PTypeOK /\ Numbered /\ OneLooks /\ RaisedIsOnce /\ RaiseOnce
    BY DEF Inv, PInv
<1>1. Len(pause) \in Nat /\ Len(pause') \in Nat /\ Len(pause) <= Len(pause')
    BY <1>0, PauseTypes DEF PausesGo
<1>2. PTypeOK'
    <2>1. raise' \in [Raises -> RaiseStates(Len(pause'))]
        BY <1>0, <1>1, PauseTypes DEF RaiseStates
    <2>2. kept' \subseteq 1..Len(pause')
        BY <1>0, <1>1, PauseTypes DEF Pauses
    <2> QED BY <1>0, <1>1, <2>1, <2>2, PauseTypes DEF PTypeOK, Pauses, PausesGo, OthersOK, PauseAt,
            GateStates, GateAt, GateReads, RaiseStates
<1>3. Numbered'
    BY <1>0 DEF Numbered, Settles
<1>4. \A t \in 1..MaxTurn : Looks(t)' \/ gate'[t].at = "seen" \/ Lifts(t)' => gate'[t] = gate[t] /\ Looks(t)
    BY DEF Settles, Looks, Lifts
<1>5. OneLooks'
    BY <1>0, <1>4 DEF OneLooks
<1>6. RaiseOnce'
    BY <1>0, <1>1 DEF RaiseOnce, PausesGo, Pauses
<1>7. \A t \in 1..MaxTurn : Lifts(t) => gate[t].p \in Pauses
    BY <1>0, <1>1, PauseTypes DEF Numbered, Lifts, Pauses, GateStates
<1>8. \A r \in Raises : raise[r].at = "won" => raise[r].p \in Pauses
    BY <1>0, <1>1, PauseTypes DEF Numbered, Pauses, RaiseStates
<1>9. \A t \in 1..MaxTurn : Lifts(t)' => Lifts(t) /\ gate'[t] = gate[t]
    BY <1>4 DEF Lifts
<1>10. RaisedIsOnce'
    <2>1. \A p \in kept : pause'[p] = "raised" /\ applied[p] = 0
        BY <1>0, PauseTypes DEF RaisedIsOnce, PausesGo
    <2>2. \A t \in 1..MaxTurn : Lifts(t)' =>
              pause'[gate'[t].p] = "raised" /\ applied[gate'[t].p] = 0 /\ gate'[t].p \notin kept
        BY <1>0, <1>7, <1>9 DEF RaisedIsOnce, PausesGo
    <2>3. \A r \in Raises : raise[r].at = "won" => pause'[raise[r].p] = "raised"
        BY <1>0, <1>8 DEF RaisedIsOnce, PausesGo
    <2>4. \A r \in Raises : Due(r) =>
          /\ applied[raise[r].p] = 0 /\ raise[r].p \notin kept
          /\ \A t \in 1..MaxTurn : Lifts(t)' => gate'[t].p # raise[r].p
          /\ \A o \in Raises : Due(o) /\ raise[o].p = raise[r].p => o = r
        BY <1>0, <1>9 DEF RaisedIsOnce
    <2> QED BY <2>1, <2>2, <2>3, <2>4 DEF RaisedIsOnce, Due
<1> QED BY <1>2, <1>3, <1>5, <1>6, <1>10 DEF PInv

\* A raise request moves and wins nothing.
LEMMA RaisesMove ==
    ASSUME Inv, UNCHANGED <<pause, kept, waiter, gate, lapses, applied, overtaken, late, resumed, turns>>,
           raise' \in [Raises -> RaiseStates(Len(pause))],
           \A r \in Raises : \/ raise'[r] = raise[r]
                             \/ raise'[r].at # "won" /\ (raise'[r].at \in {"found", "sent"} => raise'[r].p # 0)
    PROVE  PInv'
<1>0. PTypeOK /\ Numbered /\ OneLooks /\ RaisedIsOnce /\ RaiseOnce
    BY DEF Inv, PInv
<1>1. PTypeOK'
    BY <1>0 DEF PTypeOK, RaiseStates, Pauses
<1>2. Numbered' /\ OneLooks' /\ RaiseOnce'
    BY <1>0 DEF Numbered, OneLooks, Looks, RaiseOnce, Pauses
<1>3. \A r \in Raises : raise'[r].at = "won" => raise'[r] = raise[r]
    OBVIOUS
<1>4. RaisedIsOnce'
    BY <1>0, <1>3 DEF RaisedIsOnce, Due, Lifts
<1> QED BY <1>1, <1>2, <1>4 DEF PInv

LEMMA Wakes ==
    ASSUME PTypeOK
    PROVE  /\ Woken \in [1..MaxTurn -> GateStates(Len(pause))]
           /\ \A t \in 1..MaxTurn : Woken[t] = gate[t] \/ Woken[t] = Shut
           /\ Shut \in GateStates(Len(pause)) /\ Shut.at = "none"
BY PauseTypes DEF Woken, Shut, GateStates, GateAt, GateReads

LEMMA OthersStill ==
    ASSUME PTypeOK, PausesGo,
           UNCHANGED waiter \/ waiter' = 0, UNCHANGED lapses \/ lapses' \in BOOLEAN,
           UNCHANGED overtaken, UNCHANGED late \/ \E by : Passes(by)
    PROVE  OthersOK
<1>1. Len(pause) \in Nat /\ Len(pause') \in Nat /\ Len(pause) <= Len(pause')
    BY PauseTypes DEF PausesGo
<1>2. waiter' \in 0..Len(pause') /\ lapses' \in BOOLEAN /\ overtaken' \subseteq 1..Len(pause')
    BY <1>1 DEF PTypeOK, Pauses
<1>3. late' \subseteq 1..MaxTurn
    BY DEF PTypeOK, Passes, Opening
<1> QED BY <1>2, <1>3 DEF OthersOK

LEMMA PGateMoves ==
    ASSUME Inv, NEW t \in 1..MaxTurn,
           \/ GateSupersedes(t) \/ GateLapses(t) \/ GateInserts(t) \/ GateWithdraws(t)
           \/ GateResumes(t) \/ GateHolds(t)
    PROVE  PInv'
<1>0. PTypeOK /\ Numbered
    BY DEF Inv, PInv
<1>1. UNCHANGED <<kept, applied, raise, resumed, turns>>
    BY DEF GateSupersedes, GateLapses, GateInserts, GateWithdraws, GateResumes, GateHolds, runVars, turnVars
<1>2. CASE GateSupersedes(t) \/ GateWithdraws(t)
    <2>1. PausesGo /\ pause' = pause /\ OthersOK
        BY <1>0, <1>2, PausesStill, OthersStill DEF GateSupersedes, GateWithdraws, Drop
    <2>2. /\ gate' \in [1..MaxTurn -> GateStates(Len(pause'))]
          /\ \A o \in 1..MaxTurn : gate'[o] = gate[o] \/ gate'[o].at \in {"none", "lapse"}
        <3> DEFINE shut == [Shut EXCEPT !.at = "lapse"]
        <3>1. shut \in GateStates(Len(pause)) /\ shut.at = "lapse"
            BY <1>0, Wakes DEF Shut, GateStates, GateAt, GateReads
        <3>2. gate' = Woken \/ gate' = [Woken EXCEPT ![t] = shut]
            BY <1>2 DEF GateSupersedes, GateWithdraws
        <3> HIDE DEF shut
        <3> QED BY <1>0, <2>1, <3>1, <3>2, Wakes
    <2> QED BY <1>1, <2>1, <2>2, GatesMove DEF Settles
<1>3. CASE GateLapses(t)
    <2>1. PausesGo /\ Len(pause') = Len(pause)
        BY <1>0, <1>3, PausesStill, PausesSettle DEF GateLapses
    <2>2. OthersOK
        BY <1>0, <1>3, <2>1, OthersStill DEF GateLapses
    <2>3. /\ gate' \in [1..MaxTurn -> GateStates(Len(pause'))]
          /\ \A o \in 1..MaxTurn : gate'[o] = gate[o] \/ gate'[o].at = "insert"
        BY <1>0, <1>3, <2>1, PauseTypes DEF GateLapses, At, GateStates, GateAt, GateReads
    <2> QED BY <1>1, <2>1, <2>2, <2>3, GatesMove DEF Settles
<1>4. CASE GateInserts(t)
    <2> DEFINE n == Len(pause)
    <2>1. /\ n \in Nat /\ n < MaxPause /\ MaxPause \in Nat /\ pause \in Seq(PauseAt)
          /\ pause' = Append(pause, "pending")
        BY <1>0, <1>4, PauseTypes DEF GateInserts, PTypeOK, PauseAt
    <2>2. Len(pause') = n + 1 /\ pause' \in Seq(PauseAt) /\ \A p \in 1..n : pause'[p] = pause[p]
        BY <2>1 DEF PauseAt
    <2>3. PausesGo
        BY <2>1, <2>2 DEF PausesGo, Pauses
    <2>4. OthersOK
        BY <1>0, <1>4, <2>3, OthersStill DEF GateInserts
    <2>5. gate' = [gate EXCEPT ![t] = [at |-> "hold", p |-> n + 1, read |-> "none"]]
        BY <1>4 DEF GateInserts
    <2>6. gate \in [1..MaxTurn -> GateStates(n + 1)]
        BY <1>0, <2>1, PauseTypes DEF GateStates
    <2>7. [at |-> "hold", p |-> n + 1, read |-> "none"] \in GateStates(n + 1)
        BY <2>1 DEF GateStates, GateAt, GateReads
    <2>8. /\ gate' \in [1..MaxTurn -> GateStates(Len(pause'))]
          /\ \A o \in 1..MaxTurn : gate'[o] = gate[o] \/ (gate'[o].at = "hold" /\ gate'[o].p # 0)
        BY <2>1, <2>2, <2>5, <2>6, <2>7
    <2> QED BY <1>1, <2>3, <2>4, <2>8, GatesMove DEF Settles
<1>5. CASE GateResumes(t) \/ GateHolds(t)
    <2> DEFINE p == gate[t].p
    <2>1. ParksOn(t, p) /\ p # 0 /\ UNCHANGED <<pause, lapses, overtaken, late>>
        BY <1>0, <1>5 DEF GateResumes, GateHolds, Numbered
    <2>2. p \in 0..Len(pause)
        BY <1>0, PauseTypes DEF GateStates
    <2>3. PausesGo /\ OthersOK
        BY <1>0, <2>1, <2>2, PausesStill DEF ParksOn, OthersOK, PTypeOK, Pauses
    <2>4. [at |-> "wait", p |-> p, read |-> "none"] \in GateStates(Len(pause))
        BY <2>2 DEF GateStates, GateAt, GateReads
    <2>5. /\ gate' \in [1..MaxTurn -> GateStates(Len(pause'))]
          /\ \A o \in 1..MaxTurn :
                \/ gate'[o] = gate[o] \/ gate'[o].at = "none"
                \/ gate'[o].at = "wait" /\ gate'[o].p # 0
        BY <1>0, <2>1, <2>4, Wakes DEF ParksOn
    <2> QED BY <1>1, <2>3, <2>5, GatesMove DEF Settles
<1> QED BY <1>2, <1>3, <1>4, <1>5

LEMMA PTurns ==
    ASSUME Inv, Retire \/ EndPauses \/ BootLapses \/ LapseLands
    PROVE  PInv'
<1>0. PTypeOK
    BY DEF Inv, PInv
<1>1. UNCHANGED <<kept, applied, raise, overtaken, turns>> /\ (resumed' => resumed)
    BY DEF Retire, EndPauses, BootLapses, LapseLands, Ends, turnVars
<1>2. PausesGo /\ Len(pause') = Len(pause)
    <2>1. pause' = pause \/ SettlePauses
        BY DEF Retire, RetirePauses, EndPauses, BootLapses, LapseLands
    <2> QED BY <1>0, <2>1, PausesStill, PausesSettle
<1>3. OthersOK
    BY <1>0, <1>1, <1>2, OthersStill DEF Retire, RetirePauses, EndPauses, BootLapses, LapseLands, Drop
<1>4. /\ gate' \in [1..MaxTurn -> GateStates(Len(pause'))]
      /\ \A o \in 1..MaxTurn : gate'[o] = gate[o] \/ gate'[o].at = "none"
    <2>1. gate' = gate \/ gate' = Woken
        BY DEF Retire, EndPauses, BootLapses, LapseLands
    <2> QED BY <1>0, <1>2, <2>1, Wakes, PauseTypes
<1> QED BY <1>1, <1>2, <1>3, <1>4, GatesMove DEF Settles

\* A step that leaves the pauses alone.
LEMMA PStill ==
    ASSUME Inv, UNCHANGED pVars, resumed' = FALSE \/ (resumed' = resumed /\ turns' = turns)
    PROVE  PInv'
<1>0. PTypeOK /\ Numbered /\ OneLooks /\ RaisedIsOnce /\ RaiseOnce
    BY DEF Inv, PInv
<1>1. PTypeOK' /\ Numbered' /\ RaisedIsOnce' /\ RaiseOnce'
    BY <1>0 DEF PTypeOK, Numbered, RaisedIsOnce, Lifts, Due, RaiseOnce, Pauses, pVars
<1>2. OneLooks'
    BY <1>0 DEF OneLooks, Looks, pVars
<1> QED BY <1>1, <1>2 DEF PInv

LEMMA PCrashes == ASSUME Inv, Crash PROVE PInv'
<1>0. PTypeOK /\ Numbered /\ OneLooks /\ RaisedIsOnce /\ RaiseOnce
    BY DEF Inv, PInv
<1>1. /\ UNCHANGED <<pause, kept, applied, overtaken>> /\ waiter' = 0 /\ lapses' = FALSE /\ late' = {}
      /\ gate' = [t \in 1..MaxTurn |-> Shut]
      /\ raise' = [r \in Raises |-> IF raise[r].at = "idle" THEN raise[r] ELSE Told]
    BY DEF Crash, PCrash
<1>2. Shut.at = "none" /\ Told.at = "done" /\ Shut \in GateStates(Len(pause)) /\ Told \in RaiseStates(Len(pause))
    <2>1. NoRaise \in RaiseStates(Len(pause))
        BY <1>0, PauseTypes DEF NoRaise, RaiseStates
    <2>2. Told.at = "done" /\ Told \in RaiseStates(Len(pause))
        BY <2>1 DEF Told, RaiseStates
    <2> QED BY <1>0, <2>2, Wakes
<1>3. /\ \A t \in 1..MaxTurn : gate'[t].at = "none"
      /\ \A r \in Raises : raise'[r].at \in {"idle", "done"}
    BY <1>1, <1>2
<1>4. PTypeOK'
    <2>1. gate' \in [1..MaxTurn -> GateStates(Len(pause))] /\ raise' \in [Raises -> RaiseStates(Len(pause))]
        BY <1>0, <1>1, <1>2, PauseTypes
    <2>2. waiter' \in 0..Len(pause)
        BY <1>0, <1>1, PauseTypes
    <2> QED BY <1>0, <1>1, <2>1, <2>2 DEF PTypeOK, Pauses, GateStates, GateAt, GateReads, RaiseStates
<1>5. Numbered' /\ OneLooks' /\ RaiseOnce'
    BY <1>0, <1>1, <1>3 DEF Numbered, OneLooks, Looks, RaiseOnce, Pauses
<1>6. RaisedIsOnce'
    BY <1>0, <1>1, <1>3 DEF RaisedIsOnce, Lifts, Due
<1> QED BY <1>4, <1>5, <1>6 DEF PInv

LEMMA POpens ==
    ASSUME Inv, NEW child \in BOOLEAN, GateOpens(child)
    PROVE  PInv'
<1>0. PTypeOK /\ Numbered /\ OneLooks /\ RaisedIsOnce /\ RaiseOnce
    BY DEF Inv, PInv
<1>1. UNCHANGED <<pause, kept, applied, raise, lapses, overtaken, resumed, turns>> /\ gate[turns].at = "none"
    BY DEF GateOpens, turnVars
<1>2. turns \in 1..MaxTurn
    BY RunStateAssumption DEF GateOpens, Inv, RunInv, Live, RunTypeOK
<1>3. CASE ~resumed
    <2>1. gate' = [Woken EXCEPT ![turns].at = "lapse"] /\ Drop /\ Passes({turns})
        BY <1>3 DEF GateOpens
    <2>2. PausesGo /\ OthersOK
        BY <1>0, <1>1, <2>1, PausesStill, OthersStill DEF Drop
    <2>3. /\ gate' \in [1..MaxTurn -> GateStates(Len(pause'))]
          /\ \A o \in 1..MaxTurn : gate'[o] = gate[o] \/ gate'[o].at \in {"none", "lapse"}
        BY <1>0, <1>1, <1>2, <2>1, Wakes DEF GateStates, GateAt, GateReads
    <2> QED BY <1>1, <2>2, <2>3, GatesMove DEF Settles
<1>4. CASE resumed
    <2>1. gate' = [gate EXCEPT ![turns].at = "look"] /\ UNCHANGED <<waiter, late>>
        BY <1>4 DEF GateOpens, At
    <2>2. /\ gate' \in [1..MaxTurn -> GateStates(Len(pause))] /\ gate'[turns].at = "look"
          /\ \A o \in 1..MaxTurn \ {turns} : gate'[o] = gate[o]
        BY <1>0, <1>2, <2>1, PauseTypes DEF GateStates, GateAt
    <2>3. PTypeOK'
        BY <1>0, <1>1, <2>1, <2>2 DEF PTypeOK, Pauses, GateStates, GateAt, GateReads
    <2>4. Numbered' /\ RaiseOnce'
        BY <1>0, <1>1, <2>2 DEF Numbered, RaiseOnce, Pauses
    <2>5. OneLooks'
        BY <1>0, <1>1, <1>2, <1>4, <2>2 DEF OneLooks, Looks
    <2>6. \A o \in 1..MaxTurn : Lifts(o)' => Lifts(o) /\ gate'[o] = gate[o]
        BY <2>2 DEF Lifts
    <2>7. RaisedIsOnce'
        BY <1>0, <1>1, <2>6 DEF RaisedIsOnce, Due, Lifts
    <2> QED BY <2>3, <2>4, <2>5, <2>7 DEF PInv
<1> QED BY <1>3, <1>4

LEMMA PLooks ==
    ASSUME Inv, NEW t \in 1..MaxTurn, GateLooks(t)
    PROVE  PInv'
<1> DEFINE n == Len(pause)
           read == IF pause = <<>> THEN "none" ELSE IF n \in kept THEN "kept" ELSE pause[n]
<1>0. PTypeOK /\ Numbered /\ OneLooks /\ RaisedIsOnce /\ RaiseOnce
    BY DEF Inv, PInv
<1>1. UNCHANGED <<pause, kept, waiter, lapses, applied, raise, overtaken, late, resumed, turns>>
    BY DEF GateLooks, runVars, turnVars
<1>2. /\ n \in Nat /\ (read # "none" => n # 0) /\ (read = "kept" => n \in kept) /\ read \in GateReads
    <2>1. n \in Nat /\ pause \in Seq(PauseAt) /\ pause \in [Pauses -> PauseAt] /\ kept \subseteq 1..n
        BY <1>0, PauseTypes DEF PTypeOK, PauseAt, Pauses
    <2>2. pause # <<>> => n # 0
        BY <2>1
    <2>3. n # 0 => n \in 1..n
        BY <2>1
    <2>4. n # 0 => pause[n] \in PauseAt
        BY <2>1, <2>3 DEF Pauses
    <2> QED BY <2>1, <2>2, <2>4 DEF GateReads, PauseAt
<1>3. gate' = [gate EXCEPT ![t] = [at |-> "seen", p |-> n, read |-> read]] /\ gate[t].at = "look"
    BY DEF GateLooks
<1> HIDE DEF read
<1>4. [at |-> "seen", p |-> n, read |-> read] \in GateStates(n)
    BY <1>2 DEF GateStates, GateAt
<1>5. /\ gate' \in [1..MaxTurn -> GateStates(n)]
      /\ gate'[t].at = "seen" /\ gate'[t].p = n /\ gate'[t].read = read
      /\ \A o \in 1..MaxTurn \ {t} : gate'[o] = gate[o]
    BY <1>0, <1>3, <1>4, PauseTypes
<1>6. PTypeOK'
    BY <1>0, <1>1, <1>5 DEF PTypeOK, Pauses, GateStates, GateAt, GateReads
<1>7. Numbered' /\ RaiseOnce'
    BY <1>0, <1>1, <1>2, <1>5 DEF Numbered, RaiseOnce, Pauses
<1>8. Looks(t) /\ \A o \in 1..MaxTurn : Looks(o)' => Looks(o)
    BY <1>3, <1>5 DEF Looks
<1>9. OneLooks'
    <2>1. \A o \in 1..MaxTurn : gate'[o].at = "seen" /\ gate'[o].read = "kept" => gate'[o].p \in kept
        BY <1>0, <1>2, <1>5 DEF OneLooks
    <2> QED BY <1>0, <1>1, <1>8, <2>1 DEF OneLooks
<1>10. \A o \in 1..MaxTurn : Lifts(o)' => Lifts(o) /\ gate'[o] = gate[o]
    BY <1>5 DEF Lifts
<1>11. RaisedIsOnce'
    BY <1>0, <1>1, <1>10 DEF RaisedIsOnce, Due, Lifts
<1> QED BY <1>6, <1>7, <1>9, <1>11 DEF PInv

\* The gate takes a stored raise out of the store, or fails to; then it lifts.
LEMMA PTakes ==
    ASSUME Inv, NEW t \in 1..MaxTurn, GateTakes(t) \/ GateLifts(t)
    PROVE  PInv'
<1> DEFINE p == gate[t].p
<1>0. PTypeOK /\ Numbered /\ OneLooks /\ RaisedIsOnce /\ RaiseOnce
    BY DEF Inv, PInv
<1>1. UNCHANGED <<pause, waiter, lapses, raise, overtaken, late, resumed, turns>>
    BY DEF GateTakes, GateLifts, runVars, turnVars
<1>2. Looks(t) /\ p # 0 /\ p \in Pauses /\ (GateTakes(t) => p \in kept)
    BY <1>0, PauseTypes DEF GateTakes, GateLifts, Looks, Numbered, OneLooks, GateStates, Pauses
<1>3. Shut \in GateStates(Len(pause)) /\ Shut.at = "none"
    BY <1>0, Wakes
<1>4. CASE GateLifts(t)
    <2>1. /\ gate' \in [1..MaxTurn -> GateStates(Len(pause))] /\ gate'[t].at = "none"
          /\ \A o \in 1..MaxTurn \ {t} : gate'[o] = gate[o] /\ ~Looks(o)
          /\ kept' = kept
        BY <1>0, <1>2, <1>3, <1>4, PauseTypes DEF GateLifts, OneLooks
    <2>2. /\ applied' \in [1..MaxPause -> Nat] /\ applied'[p] = applied[p] + 1
          /\ \A o \in 1..MaxPause \ {p} : applied'[o] = applied[o]
          /\ p \in 1..MaxPause
        BY <1>0, <1>2, <1>4, PauseTypes DEF GateLifts, Pauses, PTypeOK
    <2>3. pause[p] = "raised" /\ applied[p] = 0 /\ p \notin kept /\ \A r \in Raises : Due(r) => raise[r].p # p
        BY <1>0, <1>4 DEF GateLifts, RaisedIsOnce, Lifts
    <2>4. PTypeOK'
        BY <1>0, <1>1, <2>1, <2>2 DEF PTypeOK, Pauses, GateStates, GateAt, GateReads
    <2>5. Numbered' /\ OneLooks'
        BY <1>0, <1>1, <2>1 DEF Numbered, OneLooks, Looks
    <2>6. RaiseOnce'
        BY <1>0, <1>1, <1>2, <2>1, <2>2, <2>3 DEF RaiseOnce, Pauses
    <2>7. \A o \in 1..MaxTurn : ~Lifts(o)'
        BY <2>1 DEF Lifts, Looks
    <2>8. \A r \in Raises : Due(r) => raise[r].p \in 1..MaxPause
        BY <1>0, PauseTypes DEF Due, Numbered, RaiseStates
    <2>9. RaisedIsOnce'
        BY <1>0, <1>1, <2>1, <2>2, <2>3, <2>7, <2>8, PauseTypes DEF RaisedIsOnce, Due, Pauses
    <2> QED BY <2>4, <2>5, <2>6, <2>9 DEF PInv
<1>5. CASE GateTakes(t)
    <2>1. /\ gate' \in [1..MaxTurn -> GateStates(Len(pause))]
          /\ \A o \in 1..MaxTurn \ {t} : gate'[o] = gate[o] /\ ~Looks(o)
          /\ applied' = applied
          /\ \/ kept' = kept \ {p} /\ gate'[t].at = "lift" /\ gate'[t].p = p
             \/ kept' = kept /\ gate'[t].at = "none"
        <3>1. gate \in [1..MaxTurn -> GateStates(Len(pause))] /\ \A o \in 1..MaxTurn \ {t} : ~Looks(o)
            BY <1>0, <1>2, PauseTypes DEF OneLooks
        <3>2. applied' = applied
            BY <1>5 DEF GateTakes
        <3>3. CASE kept' = kept \ {p} /\ gate' = [gate EXCEPT ![t].at = "lift"]
            BY <3>1, <3>2, <3>3 DEF GateStates, GateAt
        <3>4. CASE kept' = kept /\ gate' = [gate EXCEPT ![t] = Shut]
            BY <1>3, <3>1, <3>2, <3>4
        <3> QED BY <1>5, <3>3, <3>4 DEF GateTakes, At
    <2>2. PTypeOK'
        BY <1>0, <1>1, <2>1 DEF PTypeOK, Pauses, GateStates, GateAt, GateReads
    <2>3. Numbered' /\ RaiseOnce'
        BY <1>0, <1>1, <1>2, <2>1 DEF Numbered, RaiseOnce, Pauses
    <2>4. OneLooks'
        BY <1>0, <1>1, <1>2, <2>1 DEF OneLooks, Looks
    <2>5. pause[p] = "raised" /\ applied[p] = 0 /\ \A r \in Raises : Due(r) => raise[r].p # p
        BY <1>0, <1>2, <1>5 DEF RaisedIsOnce
    <2>6. \A o \in 1..MaxTurn : Lifts(o)' => o = t /\ kept' = kept \ {p} /\ gate'[t].p = p
        BY <2>1 DEF Lifts, Looks
    <2>7. RaisedIsOnce'
        BY <1>0, <1>1, <2>1, <2>5, <2>6 DEF RaisedIsOnce, Due
    <2> QED BY <2>2, <2>3, <2>4, <2>7 DEF PInv
<1> QED BY <1>4, <1>5

\* A finite set of pauses that is not empty has a newest one.
LEMMA NewestAsks ==
    ASSUME PTypeOK, Asking # {}
    PROVE  Newest \in Asking
<1> DEFINE Old == {Len(pause) - p : p \in Asking}
<1>1. Len(pause) \in Nat /\ Asking \subseteq 1..Len(pause)
    BY PauseTypes DEF Asking, Pauses
<1>2. \A p \in Asking : p \in Nat /\ Len(pause) - p \in Nat
    BY <1>1
<1>3. Old \subseteq Nat /\ Old # {}
    BY <1>2
<1>4. \A n, m \in Nat : n < m => <<n, m>> \in OpToRel(<, Nat)
    BY DEF OpToRel
<1> HIDE DEF Old
<1>5. PICK m \in Old : \A n \in Old : ~(<<n, m>> \in OpToRel(<, Nat))
    BY <1>3, NatLessThanWellFounded, WFMin
<1>6. \A n \in Old : m <= n
    <2>1. \A n \in Old : ~(n < m) /\ n \in Nat /\ m \in Nat
        BY <1>3, <1>4, <1>5, Zenon
    <2> QED BY <2>1
<1>7. PICK p \in Asking : m = Len(pause) - p
    BY DEF Old
<1>8. \A o \in Asking : Len(pause) - o \in Old
    BY DEF Old
<1>9. \A o \in Asking : o <= p
    BY <1>1, <1>2, <1>6, <1>7, <1>8
<1> QED BY <1>9 DEF Newest

LEMMA PAsks ==
    ASSUME Inv, NEW r \in Raises,
           RaiseFind(r) \/ RaiseLooks(r) \/ RaiseChecks(r, Parking # {}) \/ RaiseClears(r)
    PROVE  PInv'
<1>0. PTypeOK /\ Numbered
    BY DEF Inv, PInv
<1>1. UNCHANGED <<pause, kept, waiter, gate, lapses, applied, overtaken, late, resumed, turns>>
    BY DEF RaiseFind, RaiseLooks, RaiseChecks, RaiseClears, runVars, turnVars
<1>2. raise \in [Raises -> RaiseStates(Len(pause))] /\ Len(pause) \in Nat
    BY <1>0, PauseTypes
<1>3. \E to \in RaiseStates(Len(pause)) :
          /\ raise' = [raise EXCEPT ![r] = to]
          /\ to.at # "won" /\ (to.at \in {"found", "sent"} => to.p # 0)
    <2>1. CASE RaiseFind(r)
        <3> DEFINE to == [at |-> "found", p |-> Newest, sees |-> FALSE]
        <3>1. Newest \in 1..Len(pause)
            BY <1>0, <2>1, NewestAsks DEF RaiseFind, Asking, Pauses
        <3>2. to \in RaiseStates(Len(pause)) /\ to.p # 0
            BY <1>2, <3>1 DEF RaiseStates
        <3> QED BY <2>1, <3>2 DEF RaiseFind
    <2>2. CASE RaiseLooks(r)
        <3> DEFINE to == [raise[r] EXCEPT !.at = "sent", !.sees = (waiter = raise[r].p)]
        <3>1. to \in RaiseStates(Len(pause)) /\ to.p = raise[r].p /\ to.at = "sent"
            BY <1>2 DEF RaiseStates
        <3>2. raise' = [raise EXCEPT ![r] = to] /\ raise[r].p # 0
            BY <1>0, <1>2, <2>2 DEF RaiseLooks, Numbered
        <3> QED BY <3>1, <3>2
    <2>3. CASE RaiseChecks(r, Parking # {}) \/ RaiseClears(r)
        <3>1. Told \in RaiseStates(Len(pause)) /\ Told.at = "done"
            <4>1. NoRaise \in RaiseStates(Len(pause))
                BY <1>2 DEF NoRaise, RaiseStates
            <4> QED BY <4>1 DEF Told, RaiseStates
        <3> DEFINE clear == [raise[r] EXCEPT !.at = "clear"]
        <3>2. clear \in RaiseStates(Len(pause)) /\ clear.at = "clear"
            BY <1>2 DEF RaiseStates
        <3>3. raise' = [raise EXCEPT ![r] = Told] \/ raise' = [raise EXCEPT ![r] = clear]
            BY <2>3 DEF RaiseChecks, RaiseClears, RaiseGoes
        <3> HIDE DEF clear
        <3> QED BY <3>1, <3>2, <3>3
    <2> QED BY <2>1, <2>2, <2>3
<1>4. /\ raise' \in [Raises -> RaiseStates(Len(pause))]
      /\ \A o \in Raises : \/ raise'[o] = raise[o]
                           \/ raise'[o].at # "won" /\ (raise'[o].at \in {"found", "sent"} => raise'[o].p # 0)
    BY <1>2, <1>3
<1>5. UNCHANGED <<pause, kept, waiter, gate, lapses, applied, overtaken, late, resumed, turns>>
    BY <1>1
<1> QED BY <1>4, <1>5, RaisesMove

\* The raise that wins the conditional update.
LEMMA PSettles ==
    ASSUME Inv, NEW r \in Raises, RaiseSettles(r)
    PROVE  PInv'
<1> DEFINE p == raise[r].p
<1>0. PTypeOK /\ Numbered /\ OneLooks /\ RaisedIsOnce /\ RaiseOnce
    BY DEF Inv, PInv
<1>1. UNCHANGED <<waiter, gate, lapses, applied, late, resumed, turns>>
    BY DEF RaiseSettles, runVars, turnVars
<1>2. /\ raise \in [Raises -> RaiseStates(Len(pause))] /\ Len(pause) \in Nat /\ MaxPause \in Nat
      /\ p \in Pauses /\ p \in 1..MaxPause
    BY <1>0, PauseTypes DEF RaiseSettles, Numbered, RaiseStates, Pauses
<1>3. CASE pause[p] # "pending"
    <2>1. Told \in RaiseStates(Len(pause)) /\ Told.at = "done"
        <3>1. NoRaise \in RaiseStates(Len(pause))
            BY <1>2 DEF NoRaise, RaiseStates
        <3> QED BY <3>1 DEF Told, RaiseStates
    <2>2. raise' = [raise EXCEPT ![r] = Told] /\ UNCHANGED <<pause, kept, overtaken>>
        BY <1>3 DEF RaiseSettles, RaiseGoes
    <2>3. /\ raise' \in [Raises -> RaiseStates(Len(pause))]
          /\ \A o \in Raises : raise'[o] = raise[o] \/ raise'[o].at = "done"
        BY <1>2, <2>1, <2>2
    <2>4. UNCHANGED <<pause, kept, waiter, gate, lapses, applied, overtaken, late, resumed, turns>>
        BY <1>1, <2>2
    <2>5. \A o \in Raises : \/ raise'[o] = raise[o]
                            \/ raise'[o].at # "won" /\ (raise'[o].at \in {"found", "sent"} => raise'[o].p # 0)
        BY <2>3
    <2> QED BY <2>3, <2>4, <2>5, RaisesMove
<1>4. CASE pause[p] = "pending"
    <2> DEFINE won == [raise[r] EXCEPT !.at = "won"]
    <2>1. won \in RaiseStates(Len(pause)) /\ won.at = "won" /\ won.p = p /\ won.sees = raise[r].sees
        BY <1>2 DEF RaiseStates
    <2>2. /\ raise' = [raise EXCEPT ![r] = won] /\ pause' = [pause EXCEPT ![p] = "raised"]
          /\ kept' = IF raise[r].sees THEN kept ELSE kept \cup {p}
          /\ overtaken' \subseteq overtaken \cup {p}
        BY <1>4 DEF RaiseSettles, RaiseGoes, Stored
    <2> HIDE DEF won
    <2>3. /\ raise' \in [Raises -> RaiseStates(Len(pause))]
          /\ raise'[r].at = "won" /\ raise'[r].p = p /\ raise'[r].sees = raise[r].sees
          /\ \A o \in Raises \ {r} : raise'[o] = raise[o]
        BY <1>2, <2>1, <2>2
    <2>4. /\ pause' \in Seq(PauseAt) /\ Len(pause') = Len(pause)
          /\ pause'[p] = "raised" /\ \A o \in Pauses \ {p} : pause'[o] = pause[o]
        <3>1. pause \in Seq(PauseAt)
            BY <1>0 DEF PTypeOK, PauseAt
        <3> QED BY <1>2, <2>2, <3>1 DEF PauseAt, Pauses
    <2>5. PTypeOK'
        BY <1>0, <1>1, <1>2, <2>2, <2>3, <2>4 DEF PTypeOK, Pauses, PauseAt, RaiseStates
    <2>6. /\ applied[p] = 0 /\ p \notin kept
          /\ \A t \in 1..MaxTurn : Lifts(t) => gate[t].p # p
          /\ \A o \in Raises : raise[o].at = "won" => raise[o].p # p
        <3>1. applied[p] \in Nat
            BY <1>0, <1>2, PauseTypes
        <3>2. ~(applied[p] > 0)
            BY <1>0, <1>2, <1>4 DEF RaiseOnce
        <3> QED BY <1>0, <1>4, <3>1, <3>2 DEF RaisedIsOnce
    <2>7. Numbered'
        BY <1>0, <1>1, <1>2, <2>3 DEF Numbered, Pauses
    <2>8. OneLooks'
        BY <1>0, <1>1, <2>2 DEF OneLooks, Looks
    <2>9. RaiseOnce'
        BY <1>0, <1>1, <2>2, <2>4, <2>6 DEF RaiseOnce, Pauses
    <2>10. RaisedIsOnce'
        <3>1. kept \subseteq Pauses /\ \A t \in 1..MaxTurn : Lifts(t) => gate[t].p \in Pauses
            BY <1>0, PauseTypes DEF Numbered, Lifts, GateStates, Pauses
        <3>2. \A o \in Raises : raise[o].at = "won" => raise[o].p \in Pauses
            BY <1>0, <1>2 DEF Numbered, RaiseStates, Pauses
        <3>3. \A o \in kept' : pause'[o] = "raised" /\ applied'[o] = 0
            BY <1>0, <1>1, <2>2, <2>4, <2>6, <3>1 DEF RaisedIsOnce
        <3>4. \A t \in 1..MaxTurn : Lifts(t)' =>
                  pause'[gate'[t].p] = "raised" /\ applied'[gate'[t].p] = 0 /\ gate'[t].p \notin kept'
            BY <1>0, <1>1, <2>2, <2>4, <2>6, <3>1 DEF RaisedIsOnce, Lifts
        <3>5. \A o \in Raises : raise'[o].at = "won" => pause'[raise'[o].p] = "raised"
            BY <1>0, <2>3, <2>4, <2>6, <3>2 DEF RaisedIsOnce
        <3>6. \A o \in Raises : Due(o)' => (o # r /\ Due(o) /\ raise'[o] = raise[o]) \/ (o = r /\ raise[r].sees)
            BY <2>3 DEF Due
        <3>7. \A o \in Raises : Due(o) => raise[o].p # p
            BY <2>6 DEF Due
        <3>8. \A o \in Raises : Due(o)' =>
                /\ applied'[raise'[o].p] = 0 /\ raise'[o].p \notin kept'
                /\ \A t \in 1..MaxTurn : Lifts(t)' => gate'[t].p # raise'[o].p
            BY <1>0, <1>1, <2>2, <2>3, <2>6, <3>6, <3>7 DEF RaisedIsOnce, Lifts
        <3>9. \A o, s \in Raises : Due(o)' /\ Due(s)' /\ raise'[s].p = raise'[o].p => s = o
            BY <1>0, <2>3, <3>6, <3>7 DEF RaisedIsOnce
        <3> QED BY <3>3, <3>4, <3>5, <3>8, <3>9 DEF RaisedIsOnce
    <2> QED BY <2>5, <2>7, <2>8, <2>9, <2>10 DEF PInv
<1> QED BY <1>3, <1>4

\* The raise that wakes the gate was in one place, and is applied there.
LEMMA PWakes ==
    ASSUME Inv, NEW r \in Raises, RaiseWakes(r)
    PROVE  PInv'
<1> DEFINE p == raise[r].p
<1>0. PTypeOK /\ Numbered /\ OneLooks /\ RaisedIsOnce /\ RaiseOnce
    BY DEF Inv, PInv
<1>1. UNCHANGED <<pause, kept, lapses, overtaken, late, resumed, turns>> /\ waiter' = 0 /\ gate' = Woken /\ Due(r)
    BY DEF RaiseWakes, Drop, turnVars, Due
<1>2. /\ raise \in [Raises -> RaiseStates(Len(pause))] /\ Len(pause) \in Nat /\ MaxPause \in Nat
      /\ p \in Pauses /\ p \in 1..MaxPause
    BY <1>0, PauseTypes DEF RaiseWakes, Numbered, RaiseStates, Pauses
<1>3. /\ pause[p] = "raised" /\ applied[p] = 0 /\ p \notin kept
      /\ \A t \in 1..MaxTurn : Lifts(t) => gate[t].p # p
      /\ \A o \in Raises \ {r} : Due(o) => raise[o].p # p
    BY <1>0, <1>1 DEF RaisedIsOnce, Due
<1>4. Told \in RaiseStates(Len(pause)) /\ Told.at = "done"
    <2>1. NoRaise \in RaiseStates(Len(pause))
        BY <1>2 DEF NoRaise, RaiseStates
    <2> QED BY <2>1 DEF Told, RaiseStates
<1>5. /\ raise' \in [Raises -> RaiseStates(Len(pause))] /\ raise'[r].at = "done"
      /\ \A o \in Raises \ {r} : raise'[o] = raise[o]
    BY <1>2, <1>4 DEF RaiseWakes, RaiseGoes
<1>6. /\ applied' \in [1..MaxPause -> Nat] /\ applied'[p] \in {0, 1}
      /\ \A o \in 1..MaxPause \ {p} : applied'[o] = applied[o]
    BY <1>0, <1>2, <1>3, PauseTypes DEF RaiseWakes
<1>7. /\ gate' \in [1..MaxTurn -> GateStates(Len(pause))]
      /\ \A t \in 1..MaxTurn : gate'[t] = gate[t] \/ gate'[t].at = "none"
    BY <1>0, <1>1, Wakes
<1>8. PTypeOK'
    BY <1>0, <1>1, <1>2, <1>5, <1>6, <1>7 DEF PTypeOK, Pauses, GateStates, GateAt, GateReads, RaiseStates
<1>9. Numbered'
    BY <1>0, <1>5, <1>7 DEF Numbered
<1>10. OneLooks'
    BY <1>0, <1>1, <1>7 DEF OneLooks, Looks
<1>11. RaiseOnce'
    BY <1>0, <1>1, <1>2, <1>3, <1>6 DEF RaiseOnce, Pauses
<1>12. RaisedIsOnce'
    <2>1. /\ kept \subseteq 1..MaxPause
          /\ \A t \in 1..MaxTurn : Lifts(t) => gate[t].p \in 1..MaxPause
          /\ \A o \in Raises : raise[o].at = "won" => raise[o].p \in 1..MaxPause
        BY <1>0, PauseTypes DEF Numbered, Lifts, GateStates, RaiseStates, Pauses
    <2>2. \A t \in 1..MaxTurn : Lifts(t)' => Lifts(t) /\ gate'[t] = gate[t]
        BY <1>7 DEF Lifts
    <2>3. \A o \in Raises : raise'[o].at = "won" => o # r /\ raise'[o] = raise[o]
        BY <1>5
    <2>4. \A o \in kept' : pause'[o] = "raised" /\ applied'[o] = 0
        BY <1>0, <1>1, <1>3, <1>6, <2>1 DEF RaisedIsOnce
    <2>5. \A t \in 1..MaxTurn : Lifts(t)' =>
              pause'[gate'[t].p] = "raised" /\ applied'[gate'[t].p] = 0 /\ gate'[t].p \notin kept'
        BY <1>0, <1>1, <1>3, <1>6, <2>1, <2>2 DEF RaisedIsOnce
    <2>6. \A o \in Raises : raise'[o].at = "won" => pause'[raise'[o].p] = "raised"
        BY <1>0, <1>1, <2>3 DEF RaisedIsOnce
    <2>7. \A o \in Raises : Due(o)' =>
            /\ applied'[raise'[o].p] = 0 /\ raise'[o].p \notin kept'
            /\ \A t \in 1..MaxTurn : Lifts(t)' => gate'[t].p # raise'[o].p
        BY <1>0, <1>1, <1>3, <1>6, <2>1, <2>2, <2>3 DEF RaisedIsOnce, Due
    <2>8. \A o, s \in Raises : Due(o)' /\ Due(s)' /\ raise'[s].p = raise'[o].p => s = o
        BY <1>0, <2>3 DEF RaisedIsOnce, Due
    <2> QED BY <2>4, <2>5, <2>6, <2>7, <2>8 DEF RaisedIsOnce
<1> QED BY <1>8, <1>9, <1>10, <1>11, <1>12 DEF PInv

-----------------------------------------------------------------------------
(* The mark on the conversation *)

Parked == parks > 0
Setting == writes[TRUE] > 0
Clearing == writes[FALSE] > 0
Crashed == crashes > 0

\* With no fault and no two writes that crossed, the mark says what the count
\* does, or the write that makes it so is under way.
MarkFits ==
    ~crossed /\ faults = 0 =>
        /\ Parked => ~Clearing /\ (awaiting \/ Setting)
        /\ ~Parked => ~Setting /\ (awaiting => Clearing \/ Crashed)

\* What a step may do to the mark and the count.
MarkStep ==
    \/ UNCHANGED marks
    \/ Park \/ Clear \/ \E n \in 0..parks : Unpark(n)
    \/ crossed' = TRUE
    \/ \E set \in BOOLEAN : MarkLands(set)
    \/ MarkCrash /\ crashes' = crashes + 1

LEMMA DropsOne == ASSUME Inv, Drop PROVE MarkStep
<1>1. (IF waiter = 0 THEN 0 ELSE 1) \in 0..parks
    BY Counts DEF Inv, RunInv, QInv, ParksCounted
<1> QED BY <1>1 DEF Drop, MarkStep

LEMMA ReleasesSome == ASSUME Inv, NEW S, Release(S) PROVE MarkStep
<1> DEFINE n == Cardinality(S \cap held \cap Blocking)
           m == Cardinality(held \cap Blocking)
<1>0. QTypeOK /\ ParksCounted /\ parks \in Nat
    BY DEF Inv, RunInv, QInv, RunTypeOK
<1>a. n \in 0..m /\ m \in Nat
    BY <1>0, Counts
<1>1. n \in 0..m /\ m \in Nat /\ parks >= m /\ parks \in Nat
    BY <1>0, <1>a DEF ParksCounted
<1>2. Unpark(n)
    BY DEF Release
<1> HIDE DEF n, m
<1>3. n \in 0..parks
    BY <1>1
<1> QED BY <1>2, <1>3 DEF MarkStep

LEMMA SwitchesOne == ASSUME NEW t, NEW p, ParksOn(t, p), Inv PROVE MarkStep
<1>1. CASE waiter = 0
    BY <1>1 DEF ParksOn, MarkStep
<1>2. CASE waiter # 0 /\ parks = 1
    BY <1>2 DEF ParksOn, MarkStep
<1>3. CASE waiter # 0 /\ parks # 1
    BY <1>3 DEF ParksOn, MarkStep, NoWrite, marks
<1> QED BY <1>1, <1>2, <1>3

LEMMA MarkMoves == ASSUME Inv, Next PROVE MarkStep
<1> USE DEF runVars
<1>1. ASSUME NEW q \in Asked, CallSteps(q) PROVE MarkStep
    <2>1. CASE Hold(q)
        BY <2>1 DEF Hold, MarkStep
    <2>2. CASE Withdraw(q)
        BY <2>2, ReleasesSome DEF Withdraw
    <2>3. CASE ~Hold(q) /\ ~Withdraw(q)
        BY <1>1, <2>3 DEF CallSteps, Ask, Reread, TakeEarlier, WithdrawalLands, AdoptHands, MarkStep
    <2> QED BY <2>1, <2>2, <2>3
<1>2. ASSUME NEW p \in Posts, PostSteps(p) PROVE MarkStep
    <2>1. CASE PostHands(p)
        BY <2>1, ReleasesSome DEF PostHands
    <2>2. CASE PostClears(p)
        BY <2>2 DEF PostClears, MarkStep
    <2>3. CASE ~PostHands(p) /\ ~PostClears(p)
        BY <1>2, <2>3 DEF PostSteps, PostSettle, PostTakesBack, PostFindsNobody, PostOwes, PostChecks, MarkStep
    <2> QED BY <2>1, <2>2, <2>3
<1>3. ASSUME NEW t \in 1..MaxTurn, GateSteps(t) PROVE MarkStep
    <2>1. CASE GateResumes(t) \/ GateHolds(t)
        BY <2>1, SwitchesOne DEF GateResumes, GateHolds
    <2>2. CASE GateSupersedes(t) \/ GateWithdraws(t)
        BY <2>2, DropsOne DEF GateSupersedes, GateWithdraws
    <2>3. CASE GateLooks(t) \/ GateTakes(t) \/ GateLifts(t) \/ GateLapses(t) \/ GateInserts(t)
        BY <2>3 DEF GateLooks, GateTakes, GateLifts, GateLapses, GateInserts, MarkStep
    <2> QED BY <1>3, <2>1, <2>2, <2>3 DEF GateSteps
<1>4. ASSUME NEW r \in Raises, RaiseSteps(r) PROVE MarkStep
    <2>1. CASE RaiseWakes(r)
        BY <2>1, DropsOne DEF RaiseWakes
    <2>2. CASE RaiseClears(r)
        BY <2>2 DEF RaiseClears, MarkStep
    <2>3. CASE RaiseLooks(r) \/ RaiseSettles(r) \/ RaiseChecks(r, Parking # {})
        BY <2>3 DEF RaiseLooks, RaiseSettles, RaiseChecks, MarkStep
    <2> QED BY <1>4, <2>1, <2>2, <2>3 DEF RaiseSteps
<1>5. CASE System
    <2>1. CASE TurnSteps
        <3>1. CASE EndQuestions
            BY <3>1, ReleasesSome DEF EndQuestions, ReleaseAll
        <3>2. CASE EndPauses
            BY <3>2, DropsOne DEF EndPauses
        <3>3. CASE BootClears
            BY <3>3 DEF BootClears, MarkStep
        <3>4. CASE Retire \/ Seal \/ SettleQuestions \/ TurnOver \/ Redrive \/ BootLapses
            BY <3>4 DEF Retire, Seal, SettleQuestions, TurnOver, Redrive, BootLapses, MarkStep
        <3> QED BY <2>1, <3>1, <3>2, <3>3, <3>4 DEF TurnSteps
    <2>2. CASE Lands
        BY <2>2 DEF Lands, MarkStep
    <2>3. CASE QSteps
        <3>1. CASE AdoptList \/ AdoptMarks \/ AdoptEnds
            BY <3>1 DEF AdoptList, AdoptMarks, AdoptEnds, MarkStep
        <3> QED BY <1>1, <1>2, <2>3, <3>1 DEF QSteps
    <2>4. CASE PSteps
        <3>1. CASE LapseLands
            BY <3>1 DEF LapseLands, MarkStep
        <3> QED BY <1>3, <1>4, <2>4, <3>1 DEF PSteps
    <2> QED BY <1>5, <2>1, <2>2, <2>3, <2>4 DEF System
<1>6. CASE Outside
    <2>1. CASE StartTurn \/ Stop
        BY <2>1 DEF StartTurn, Stop, MarkStep
    <2>2. CASE Crash
        BY <2>2 DEF Crash, MarkStep
    <2>3. ASSUME NEW p \in Posts, NEW q \in Asked, PostFind(p, q) PROVE MarkStep
        BY <2>3 DEF PostFind, MarkStep
    <2>4. ASSUME NEW r \in Raises, RaiseFind(r) PROVE MarkStep
        BY <2>4 DEF RaiseFind, MarkStep
    <2>5. ASSUME NEW child \in BOOLEAN, GateOpens(child) PROVE MarkStep
        <3>1. CASE resumed
            BY <2>5, <3>1 DEF GateOpens, MarkStep
        <3>2. CASE ~resumed
            BY <2>5, <3>2, DropsOne DEF GateOpens
        <3> QED BY <3>1, <3>2
    <2> QED BY <1>6, <2>1, <2>2, <2>3, <2>4, <2>5 DEF Outside
<1> QED BY <1>5, <1>6 DEF Next

\* Crashes and faults are never taken back.
LEMMA NeverFewer == ASSUME Inv, Next PROVE Later
<1>1. CASE Crash
    BY <1>1, RunStateAssumption DEF Crash, Inv, RunInv, RunTypeOK, Later
<1>2. CASE QSteps \/ \E p \in Posts, q \in Asked : PostFind(p, q)
    <2>1. FaultsOK /\ crashes' = crashes
        BY <1>2 DEF QSteps, CallSteps, PostSteps, Ask, Reread, TakeEarlier, Hold, Withdraw, WithdrawalLands,
           AdoptHands, PostFind, PostSettle, PostHands, PostTakesBack, PostFindsNobody, PostOwes, PostChecks,
           PostClears, AdoptList, AdoptMarks, AdoptEnds, FaultsOK, runVars
    <2> QED BY <2>1, LaterHere
<1>3. CASE PSteps \/ (\E child \in BOOLEAN : GateOpens(child)) \/ (\E r \in Raises : RaiseFind(r))
    <2>1. FaultsOK /\ crashes' = crashes
        BY <1>3 DEF PSteps, GateSteps, RaiseSteps, GateOpens, RaiseFind, GateLooks, GateResumes, GateTakes,
           GateLifts, GateSupersedes, GateLapses, GateInserts, GateHolds, GateWithdraws, RaiseLooks,
           RaiseSettles, RaiseWakes, RaiseChecks, RaiseClears, LapseLands, FaultsOK, runVars
    <2> QED BY <2>1, LaterHere
<1>4. CASE TurnSteps \/ StartTurn \/ Stop \/ Lands
    <2>1. FaultsOK /\ crashes' = crashes
        BY <1>4 DEF TurnSteps, Retire, Seal, EndQuestions, SettleQuestions, EndPauses, TurnOver, Redrive,
               BootLapses, BootClears, StartTurn, Stop, Lands, MarkLands, FaultsOK
    <2> QED BY <2>1, LaterHere
<1> QED BY <1>1, <1>2, <1>3, <1>4 DEF Next, Outside, System

LEMMA Sets ==
    ASSUME MarksOK, Write(TRUE)
    PROVE  Setting' /\ (Clearing' <=> Clearing) /\ (crossed' <=> crossed \/ Clearing) /\ awaiting' = awaiting
<1>1. ~TRUE = FALSE
    OBVIOUS
<1>2. /\ writes' = [writes EXCEPT ![TRUE] = @ + 1] /\ awaiting' = awaiting
      /\ crossed' = (crossed \/ writes[FALSE] > 0)
    BY <1>1 DEF Write
<1>4. crossed' <=> crossed \/ writes[FALSE] > 0
    BY <1>2, Zenon
<1>5. awaiting' = awaiting
    BY <1>2
<1>3. writes'[TRUE] = writes[TRUE] + 1 /\ writes[TRUE] \in Nat /\ writes'[FALSE] = writes[FALSE]
    BY <1>2 DEF MarksOK
<1>6. UNCHANGED awaiting /\ (crossed' <=> crossed \/ Clearing)
    BY <1>4, <1>5, Zenon DEF Setting, Clearing
<1>7. writes'[TRUE] > 0
    <2>1. \A x \in Nat : x + 1 > 0
        OBVIOUS
    <2> QED BY <1>3, <2>1, Zenon
<1>8. writes'[FALSE] > 0 <=> writes[FALSE] > 0
    BY <1>3
<1> QED BY <1>6, <1>7, <1>8, Zenon DEF Setting, Clearing

LEMMA Resets ==
    ASSUME MarksOK, Write(FALSE)
    PROVE  Clearing' /\ (Setting' <=> Setting) /\ (crossed' <=> crossed \/ Setting) /\ awaiting' = awaiting
<1>1. ~FALSE = TRUE
    OBVIOUS
<1>2. /\ writes' = [writes EXCEPT ![FALSE] = @ + 1] /\ awaiting' = awaiting
      /\ crossed' = (crossed \/ writes[TRUE] > 0)
    BY <1>1 DEF Write
<1>4. crossed' <=> crossed \/ writes[TRUE] > 0
    BY <1>2, Zenon
<1>5. awaiting' = awaiting
    BY <1>2
<1>3. writes'[FALSE] = writes[FALSE] + 1 /\ writes[FALSE] \in Nat /\ writes'[TRUE] = writes[TRUE]
    BY <1>2 DEF MarksOK
<1>6. UNCHANGED awaiting /\ (crossed' <=> crossed \/ Setting)
    BY <1>4, <1>5, Zenon DEF Setting, Clearing
<1>7. writes'[FALSE] > 0
    <2>1. \A x \in Nat : x + 1 > 0
        OBVIOUS
    <2> QED BY <1>3, <2>1, Zenon
<1>8. writes'[TRUE] > 0 <=> writes[TRUE] > 0
    BY <1>3
<1> QED BY <1>6, <1>7, <1>8, Zenon DEF Setting, Clearing

LEMMA MarkKept == ASSUME Inv, MarkFits, Next PROVE MarkFits'
<1>0. MarksOK /\ parks \in Nat
    BY DEF Inv, RunInv, RunTypeOK, MarksOK
<1>1. MarkStep /\ (faults' = 0 => faults = 0) /\ (Crashed => Crashed')
    BY MarkMoves, NeverFewer DEF Later, Crashed
<1>2. CASE UNCHANGED marks
    <2>1. UNCHANGED <<awaiting, crossed>> /\ (Parked' <=> Parked) /\ (Setting' <=> Setting) /\ (Clearing' <=> Clearing)
        BY <1>2 DEF marks, Parked, Setting, Clearing
    <2> QED BY <1>1, <2>1 DEF MarkFits
<1>3. CASE Park
    <2>1. Parked'
        BY <1>0, <1>3 DEF Park, Parked
    <2>2. CASE ~Parked
        <3>1. parks = 0
            BY <1>0, <2>2 DEF Parked
        <3>2. Write(TRUE)
            BY <1>3, <3>1 DEF Park
        <3> QED BY <1>0, <1>1, <2>1, <2>2, <3>2, Sets DEF MarkFits
    <2>3. CASE Parked
        <3>0. parks # 0
            BY <2>3 DEF Parked
        <3>1. NoWrite
            BY <1>3, <3>0 DEF Park
        <3>2. UNCHANGED <<awaiting, crossed>> /\ (Setting' <=> Setting) /\ (Clearing' <=> Clearing)
            BY <3>1 DEF NoWrite, Setting, Clearing
        <3> QED BY <1>1, <2>1, <2>3, <3>2 DEF MarkFits
    <2> QED BY <2>2, <2>3
<1>4. CASE Clear
    <2>1. Parked' <=> Parked
        BY <1>4 DEF Clear, Parked
    <2>2. CASE ~Parked
        <3>0. parks = 0
            BY <1>0, <2>2 DEF Parked
        <3>1. Write(FALSE)
            BY <1>4, <3>0 DEF Clear
        <3> QED BY <1>0, <1>1, <2>1, <2>2, <3>1, Resets DEF MarkFits
    <2>3. CASE Parked
        <3>0. parks # 0
            BY <2>3 DEF Parked
        <3>1. NoWrite
            BY <1>4, <3>0 DEF Clear
        <3>2. UNCHANGED <<awaiting, crossed>> /\ (Setting' <=> Setting) /\ (Clearing' <=> Clearing)
            BY <3>1 DEF NoWrite, Setting, Clearing
        <3> QED BY <1>1, <2>1, <2>3, <3>2 DEF MarkFits
    <2> QED BY <2>2, <2>3
<1>5. ASSUME NEW n \in 0..parks, Unpark(n) PROVE MarkFits'
    <2>1. CASE n > 0 /\ parks = n
        <3>1. Write(FALSE) /\ parks' = parks - n
            BY <1>5, <2>1 DEF Unpark
        <3>2. Parked /\ ~Parked'
            BY <1>0, <2>1, <3>1 DEF Parked
        <3> QED BY <1>0, <1>1, <3>1, <3>2, Resets DEF MarkFits
    <2>2. CASE ~(n > 0 /\ parks = n)
        <3>0. NoWrite /\ parks' = parks - n
            BY <1>5, <2>2 DEF Unpark
        <3>1. NoWrite /\ (Parked' <=> Parked)
            BY <1>0, <2>2, <3>0 DEF Parked
        <3>2. UNCHANGED <<awaiting, crossed>> /\ (Setting' <=> Setting) /\ (Clearing' <=> Clearing)
            BY <3>1 DEF NoWrite, Setting, Clearing
        <3> QED BY <1>1, <3>1, <3>2 DEF MarkFits
    <2> QED BY <2>1, <2>2
<1>6. CASE crossed' = TRUE
    BY <1>6 DEF MarkFits
<1>7. ASSUME NEW set \in BOOLEAN, MarkLands(set) PROVE MarkFits'
    <2>1. /\ crossed' = crossed /\ (Parked' <=> Parked) /\ writes[set] > 0
          /\ (faults' = 0 => awaiting' = set)
        BY <1>0, <1>7, RunStateAssumption DEF MarkLands, Parked, Fault, Inv, RunInv, RunTypeOK
    <2>2. CASE set = TRUE
        <3>1. Setting /\ (Clearing' <=> Clearing) /\ (faults' = 0 => awaiting')
            BY <1>0, <1>7, <2>1, <2>2 DEF MarkLands, MarksOK, Setting, Clearing
        <3> QED BY <1>1, <2>1, <3>1 DEF MarkFits
    <2>3. CASE set = FALSE
        <3>1. Clearing /\ (Setting' <=> Setting) /\ (faults' = 0 => ~awaiting')
            BY <1>0, <1>7, <2>1, <2>3 DEF MarkLands, MarksOK, Setting, Clearing
        <3> QED BY <1>1, <2>1, <3>1 DEF MarkFits
    <2> QED BY <2>2, <2>3
<1>8. CASE MarkCrash /\ crashes' = crashes + 1
    <2>1. ~Parked' /\ ~Setting' /\ Crashed'
        BY <1>8, RunStateAssumption DEF MarkCrash, Parked, Setting, Crashed, Inv, RunInv, RunTypeOK
    <2> QED BY <2>1 DEF MarkFits
<1> QED BY <1>1, <1>2, <1>3, <1>4, <1>5, <1>6, <1>7, <1>8 DEF MarkStep

LEMMA PKept == ASSUME Inv, Next PROVE PInv'
<1>1. CASE PSteps
    <2>1. ASSUME NEW t \in 1..MaxTurn, GateSteps(t) PROVE PInv'
        BY <2>1, PGateMoves, PLooks, PTakes DEF GateSteps
    <2>2. ASSUME NEW r \in Raises, RaiseSteps(r) PROVE PInv'
        BY <2>2, PAsks, PSettles, PWakes DEF RaiseSteps
    <2>3. CASE LapseLands
        BY <2>3, PTurns
    <2> QED BY <1>1, <2>1, <2>2, <2>3 DEF PSteps
<1>2. CASE (\E child \in BOOLEAN : GateOpens(child)) \/ (\E r \in Raises : RaiseFind(r))
    BY <1>2, POpens, PAsks
<1>3. CASE Retire \/ EndPauses \/ BootLapses
    BY <1>3, PTurns
<1>4. CASE Crash
    BY <1>4, PCrashes
<1>5. CASE \/ QSteps
           \/ (\E p \in Posts, q \in Asked : PostFind(p, q)) /\ UNCHANGED pVars
           \/ StartTurn \/ Stop \/ Seal \/ EndQuestions \/ SettleQuestions \/ TurnOver \/ Redrive
           \/ BootClears \/ Lands
    <2>1. UNCHANGED pVars
        BY <1>5 DEF QSteps, StartTurn, Stop, Seal, EndQuestions, SettleQuestions, TurnOver, Redrive, BootClears, Lands
    <2>2. resumed' = FALSE \/ (resumed' = resumed /\ turns' = turns)
        BY <1>5 DEF QSteps, CallSteps, PostSteps, Ask, Reread, TakeEarlier, Hold, Withdraw, WithdrawalLands,
           AdoptHands, PostFind, PostSettle, PostHands, PostTakesBack, PostFindsNobody, PostOwes, PostChecks,
           PostClears, AdoptList, AdoptMarks, AdoptEnds, StartTurn, Stop, Seal, EndQuestions,
           SettleQuestions, TurnOver, Redrive, BootClears, Lands, MarkLands, Ends, runVars, turnVars
    <2> QED BY <2>1, <2>2, PStill
<1>6. CASE System
    BY <1>1, <1>3, <1>5, <1>6 DEF System, TurnSteps
<1>7. CASE Outside
    BY <1>2, <1>4, <1>5, <1>7 DEF Outside
<1> QED BY <1>6, <1>7 DEF Next

-----------------------------------------------------------------------------
(* The theorems *)

LEMMA InvInit == Init => Inv
<1> SUFFICES ASSUME Init PROVE Inv
    OBVIOUS
<1> USE DEF Init, RunInit, QInit, PInit
<1>1. RunInv
    <2>1. Cardinality(held \cap Blocking) = 0
        BY FS_EmptySet
    <2>2. RunTypeOK
        <3>1. writes \in [BOOLEAN -> Nat] /\ awaiting \in BOOLEAN /\ crossed \in BOOLEAN /\ resumed \in BOOLEAN
            OBVIOUS
        <3>2. /\ turn = "idle" /\ stops \subseteq 1..MaxTurn /\ parks \in Nat
              /\ turns \in 0..MaxTurn /\ crashes \in 0..MaxCrash /\ faults \in 0..MaxFault
            BY RunStateAssumption
        <3> QED BY <3>1, <3>2 DEF RunTypeOK
    <2>3. Live
        BY DEF Live
    <2>4. ParksCounted
        BY <2>1 DEF ParksCounted
    <2> QED BY <2>2, <2>3, <2>4 DEF RunInv
<1>2. QInv
    <2>1. QTypeOK
        BY FreePosts DEF QTypeOK, Each, NoneAdopted, Free, PostAt
    <2>2. \A p \in Posts : ~Busy(p)
        BY FreePosts DEF Busy
    <2>3. WaitsBlock /\ AsksAfresh /\ OneWinner /\ GivenIsAnswered /\ AnswerKept
        BY <2>2 DEF WaitsBlock, AsksAfresh, AboutToAsk, OneWinner, GivenIsAnswered, AnswerKept, Each, Cards
    <2>4. OwedOnce /\ Tallied
        BY RunStateAssumption, QuestionsAssumption DEF OwedOnce, Tallied, Each, NoneAdopted
    <2> QED BY <2>1, <2>3, <2>4 DEF QInv
<1>3. PInv
    <2>1. Len(pause) = 0 /\ pause \in Seq(PauseAt)
        OBVIOUS
    <2>2. Shut \in GateStates(0) /\ Shut.at = "none" /\ NoRaise \in RaiseStates(0) /\ NoRaise.at = "idle"
        BY DEF Shut, NoRaise, GateStates, GateAt, GateReads, RaiseStates
    <2>3. gate \in [1..MaxTurn -> GateStates(0)] /\ raise \in [Raises -> RaiseStates(0)]
        BY <2>2
    <2>a. /\ Len(pause) <= MaxPause /\ waiter \in 0..Len(pause)
          /\ applied \in [1..MaxPause -> Nat]
        BY <2>1, BudgetPauseAssumption
    <2>b. gate \in [1..MaxTurn -> GateStates(Len(pause))] /\ raise \in [Raises -> RaiseStates(Len(pause))]
        BY <2>1, <2>3
    <2>4. PTypeOK
        BY <2>1, <2>a, <2>b DEF PTypeOK, Pauses, PauseAt, GateStates, GateAt, GateReads, RaiseStates
    <2>5. Numbered /\ OneLooks /\ RaisedIsOnce /\ RaiseOnce
        BY <2>2 DEF Numbered, OneLooks, Looks, RaisedIsOnce, Lifts, Due, RaiseOnce
    <2> QED BY <2>4, <2>5 DEF PInv
<1> QED BY <1>1, <1>2, <1>3 DEF Inv

LEMMA InvNext == Inv /\ [Next]_vars => Inv'
<1> SUFFICES ASSUME Inv, [Next]_vars PROVE Inv'
    OBVIOUS
<1>1. CASE Next
    BY <1>1, RunKept, QKept, PKept DEF Inv
<1>2. CASE UNCHANGED vars
    <2>1. UNCHANGED qVars /\ UNCHANGED pVars /\ UNCHANGED <<turnVars, marks, crashes, faults>>
        BY <1>2 DEF vars, runVars
    <2>2. Silent /\ FaultsOK /\ Later
        BY <2>1, LaterHere DEF Silent, FaultsOK, qVars, pVars
    <2>3. RunInv'
        BY <2>1, <2>2, RunQuiet
    <2>4. QInv'
        BY <2>1, <2>2, QStill DEF Later, turnVars
    <2>5. PInv'
        BY <2>1, PStill DEF turnVars
    <2> QED BY <2>3, <2>4, <2>5 DEF Inv
<1> QED BY <1>1, <1>2

\* The inductive invariant holds in every reachable state.
THEOREM Invariance == Spec => []Inv
<1>1. Init => Inv
    BY InvInit
<1>2. Inv /\ [Next]_vars => Inv'
    BY InvNext
<1> QED BY <1>1, <1>2, PTL DEF Spec

\* The types of the questions, the pauses and the conversation's mark.
THEOREM TypeCorrect == Spec => []TypeOK
<1>1. Inv => TypeOK
    BY DEF Inv, RunInv, QInv, PInv, TypeOK
<1> QED BY <1>1, Invariance, PTL

\* An answer the route accepted is never dropped: settle(), the waiters and
\* `undelivered` hand it on between them.
THEOREM AnswersAreKept == Spec => []AnswerKept
<1>1. Inv => AnswerKept
    BY DEF Inv, QInv
<1> QED BY <1>1, Invariance, PTL

\* A card's answer reaches the model once; only what a crash or a fault tore
\* between its two writes comes again, once for each of them.
THEOREM AnswersComeOnce == Spec => []AnswerOnce
<1>1. Inv => AnswerOnce
    BY DEF Inv, QInv, Tallied, AnswerOnce
<1> QED BY <1>1, Invariance, PTL

\* A raise lifts the cap once, and it was recorded: woken in this process, or
\* stored and taken by the re-driven turn, never both.
THEOREM RaisesComeOnce == Spec => []RaiseOnce
<1>1. Inv => RaiseOnce
    BY DEF Inv, PInv
<1> QED BY <1>1, Invariance, PTL

\* The park count of a conversation is the waits its registries hold, so the
\* last release clears the mark and none before it.
THEOREM ParksAreCounted == Spec => []ParksCounted
<1>1. Inv => ParksCounted
    BY DEF Inv, RunInv
<1> QED BY <1>1, Invariance, PTL

\* With no write under way the mark on the document says whether the turn waits
\* for its user, but for faults, crashes and two writes that crossed.
THEOREM MarkTellsTheTruth == Spec => []MarkIsTrue
<1>1. Init => MarkFits
    BY DEF Init, RunInit, MarkFits, Parked, Setting
<1>2. Inv /\ MarkFits /\ [Next]_vars => MarkFits'
    <2>1. ASSUME Inv, MarkFits, UNCHANGED vars PROVE MarkFits'
        BY <2>1 DEF vars, runVars, marks, MarkFits, Parked, Setting, Clearing, Crashed
    <2> QED BY <2>1, MarkKept
<1>3. Inv /\ MarkFits => MarkIsTrue
    <2> SUFFICES ASSUME Inv, MarkFits, Quiet, ~crossed, faults = 0
                 PROVE  /\ held \cap Blocking # {} \/ waiter # 0 => awaiting
                        /\ awaiting => held \cap Blocking # {} \/ waiter # 0 \/ crashes > 0
        BY DEF MarkIsTrue
    <2>1. ~Setting /\ ~Clearing
        BY DEF Quiet, Setting, Clearing
    <2>2. QTypeOK /\ ParksCounted
        BY DEF Inv, RunInv, QInv
    <2>3. /\ Cardinality(held \cap Blocking) \in Nat /\ IsFiniteSet(held \cap Blocking)
          /\ Cardinality(held \cap Blocking) = 0 <=> held \cap Blocking = {}
        BY <2>2, Counts, FS_Subset, FS_EmptySet
    <2>4. Parked <=> held \cap Blocking # {} \/ waiter # 0
        BY <2>2, <2>3 DEF ParksCounted, Parked
    <2> QED BY <2>1, <2>4 DEF MarkFits, Crashed
<1> QED BY <1>1, <1>2, <1>3, Invariance, PTL DEF Spec

-----------------------------------------------------------------------------
(* What a gate waits for *)

Open(t) == gate[t].at \notin {"none", "lift"}
Nears(t) == gate[t].at = "hold" \/ (gate[t].at = "seen" /\ gate[t].read = "pending")
Tells(r) == raise[r].at \in {"sent", "won"} /\ raise[r].sees
Tries(r) == Tells(r) /\ (raise[r].at = "won" \/ pause[raise[r].p] = "pending")
Paused == {"running", "sealed", "ending", "closing"}

\* The waiter is a gate's, and no other gate waits.
OneWaiter ==
    /\ \A t \in 1..MaxTurn : Waits(t) => gate[t].p = waiter
    /\ waiter # 0 => \E t \in 1..MaxTurn : Waits(t)

\* Where a gate may be open by where the turn is; one left from a turn that is
\* over was on its way when a lapse passed it.
LateOpen ==
    /\ \A t \in 1..MaxTurn : Open(t) /\ (t < turns \/ turn \in {"lapsed", "idle"}) => t \in late
    /\ turn \in {"down", "lapsing"} => \A t \in 1..MaxTurn : gate[t].at = "none"
    /\ \A t \in 1..MaxTurn :
          t > turns \/ (t = turns /\ turn \in {"fresh", "adopting", "taking"}) => gate[t].at = "none"
    /\ \A t \in 1..MaxTurn : gate[t].at \in {"look", "seen"} => resumed \/ late # {}

\* A lapse that has not settled yet catches no pause opened since.
LapseCatches ==
    lapses => \/ turn = "lapsed" \/ (stopped /\ turn \in Paused)
              \/ late # {}

LapsesNone == lapses => late # {} \/ \A t \in 1..MaxTurn : ~Open(t)

\* In a re-driven turn, a raise that saw a waiter will wake the gate it saw,
\* unless that gate is shut for good.
SeesHere ==
    /\ resumed => \A r \in Raises : Tries(r) =>
          \/ waiter = raise[r].p \/ late # {}
          \/ ~Open(turns) /\ (stopped \/ turn \in {"lapsed", "idle"})
    /\ turn \in {"down", "lapsing"} => \A r \in Raises : raise[r].at \in {"idle", "done"}

\* Nobody saw a waiter for a pause whose gate does not wait yet.
NoneSees ==
    \A t \in 1..MaxTurn, r \in Raises :
        Nears(t) /\ Tells(r) /\ raise[r].p = gate[t].p => late # {}

\* A gate about to wait will wait for a pause that can be raised.
NearsOpen ==
    \A t \in 1..MaxTurn : Nears(t) =>
        pause[gate[t].p] = "pending" \/ gate[t].p \in overtaken \/ late # {}

Excused == LapseCatches /\ LapsesNone /\ NoneSees /\ NearsOpen /\ WaitsForOpen
OInv == OneWaiter /\ LateOpen /\ SeesHere /\ Excused

Running == turns \in 0..MaxTurn /\ MaxTurn \in Nat /\ PTypeOK /\ Numbered /\ OneLooks /\ RaisedIsOnce

LEMMA IsRunning == ASSUME Inv PROVE Running
BY RunStateAssumption DEF Inv, RunInv, RunTypeOK, PInv, Running

\* Once a gate is late, most of this is excused.
LEMMA LateExcuses ==
    ASSUME late' # {}
    PROVE  Excused' /\ ((turn' \in {"down", "lapsing"} => \A r \in Raises : raise'[r].at \in {"idle", "done"}) => SeesHere')
BY DEF Excused, LapseCatches, LapsesNone, NoneSees, NearsOpen, WaitsForOpen, SeesHere

\* Before any is, only the running turn's gate is open.
LEMMA OnlyOne ==
    ASSUME Inv, OInv, late = {}
    PROVE  /\ \A t \in 1..MaxTurn : Open(t) => t = turns /\ turn \in Paused
           /\ \A t, o \in 1..MaxTurn : Open(t) /\ Open(o) => t = o
           /\ \A t \in 1..MaxTurn : Open(t) => ~lapses
           /\ \A t \in 1..MaxTurn : Open(t) /\ ~Waits(t) => waiter = 0
           /\ \A t \in 1..MaxTurn : Open(t) /\ ~Waits(t) /\ resumed => \A r \in Raises : ~Tries(r)
<1>0. Running /\ OneWaiter /\ LateOpen /\ SeesHere /\ LapsesNone
    BY IsRunning DEF OInv, Excused
<1>1. \A t \in 1..MaxTurn : t = turns \/ t < turns \/ t > turns
    BY <1>0 DEF Running
<1>2. turn \in {"idle", "fresh", "adopting", "taking", "running", "sealed",
                "ending", "closing", "lapsed", "down", "lapsing"}
    BY DEF Inv, RunInv, RunTypeOK
<1>3. \A t \in 1..MaxTurn : Open(t) => t = turns
    BY <1>0, <1>1 DEF LateOpen, Open
<1>4. \A t \in 1..MaxTurn : Open(t) => turn \in Paused
    BY <1>0, <1>2, <1>3 DEF LateOpen, Open, Paused
<1>5. \A t \in 1..MaxTurn : Open(t) /\ ~Waits(t) => waiter = 0
    <2>1. \A t \in 1..MaxTurn : Waits(t) => Open(t)
        BY DEF Waits, Open
    <2> QED BY <1>0, <1>3, <2>1 DEF OneWaiter
<1>6. \A r \in Raises : Tries(r) => raise[r].p # 0
    BY <1>0 DEF Running, Numbered, Tries, Tells
<1>7. \A t \in 1..MaxTurn : Open(t) /\ ~Waits(t) /\ resumed => \A r \in Raises : ~Tries(r)
    BY <1>0, <1>3, <1>5, <1>6 DEF SeesHere
<1> QED BY <1>0, <1>3, <1>4, <1>5, <1>7 DEF LapsesNone

\* A step of gates that are not shut.
LEMMA LateStill ==
    ASSUME LateOpen, late \subseteq late', UNCHANGED <<turn, turns, resumed>>,
           \A t \in 1..MaxTurn : /\ gate[t].at = "none" => gate'[t].at = "none"
                                 /\ Open(t)' => Open(t)
                                 /\ gate'[t].at \in {"look", "seen"} => gate[t].at \in {"look", "seen"}
    PROVE  LateOpen'
BY DEF LateOpen

\* Dropping the waiter shuts the gate that waits.
LEMMA NoWaits ==
    ASSUME OneWaiter, PTypeOK
    PROVE  \A t \in 1..MaxTurn : /\ Woken[t].at # "wait"
                                 /\ Woken[t] = gate[t] \/ (Waits(t) /\ Woken[t] = Shut)
BY DEF OneWaiter, Woken, Waits, Shut

-----------------------------------------------------------------------------
(* OInv, step by step *)

LEMMA OParts ==
    ASSUME Inv, OInv
    PROVE  /\ PTypeOK /\ Numbered /\ OneWaiter /\ LateOpen /\ SeesHere /\ Excused
           /\ LapseCatches /\ LapsesNone /\ NoneSees /\ NearsOpen /\ WaitsForOpen
           /\ Len(pause) \in Nat
BY PauseTypes DEF Inv, PInv, OInv, Excused

\* A raise keeps seeing the gate it saw.
LEMMA SeesStill ==
    ASSUME SeesHere, late \subseteq late', UNCHANGED <<waiter, turns, resumed, stops>>,
           Open(turns)' => Open(turns),
           turn' \in {"down", "lapsing"} => turn \in {"down", "lapsing"},
           turn \in {"lapsed", "idle"} => turn' \in {"lapsed", "idle"},
           \A r \in Raises : /\ Tries(r)' => Tries(r) /\ raise'[r].p = raise[r].p
                             /\ raise[r].at \in {"idle", "done"} => raise'[r].at \in {"idle", "done"}
    PROVE  SeesHere'
<1>1. stopped' = stopped
    BY DEF stopped
<1> QED BY <1>1 DEF SeesHere, Open

\* A step of a turn that leaves the pauses alone.
TurnGoes ==
    \/ turn' = turn
    \/ turn \in Paused /\ turn' \in Paused
    \/ turn \in {"adopting", "taking"} /\ turn' \in {"taking", "running"}
    \/ turn = "lapsed" /\ turn' = "idle" /\ ~lapses
    \/ turn = "down" /\ turn' = "adopting"
    \/ turn = "lapsing" /\ turn' = "idle"

LEMMA OTurnGoes ==
    ASSUME OInv, UNCHANGED pVars, UNCHANGED <<turns, resumed>>, stops \subseteq stops', TurnGoes
    PROVE  OInv'
<1>0. OneWaiter /\ LateOpen /\ SeesHere /\ LapseCatches /\ LapsesNone /\ NoneSees /\ NearsOpen /\ WaitsForOpen
    BY DEF OInv, Excused
<1>1. UNCHANGED <<pause, waiter, gate, lapses, raise, overtaken, late>> /\ (stopped => stopped')
    BY DEF pVars, stopped
<1>2. OneWaiter' /\ LapsesNone' /\ NoneSees' /\ NearsOpen' /\ WaitsForOpen'
    BY <1>0, <1>1 DEF OneWaiter, LapsesNone, NoneSees, NearsOpen, WaitsForOpen, Waits, Open, Nears, Tells
<1>3. LateOpen'
    <2>1. \A t \in 1..MaxTurn : Open(t)' /\ (t < turns \/ turn' \in {"lapsed", "idle"}) => t \in late
        BY <1>0, <1>1 DEF LateOpen, Open, TurnGoes, Paused
    <2>2. turn' \in {"down", "lapsing"} => turn \in {"down", "lapsing"}
        BY DEF TurnGoes, Paused
    <2>3. turn' \in {"fresh", "adopting", "taking"} => turn \in {"fresh", "adopting", "taking", "down"}
        BY DEF TurnGoes, Paused
    <2> QED BY <1>0, <1>1, <2>1, <2>2, <2>3 DEF LateOpen
<1>4. LapseCatches'
    BY <1>0, <1>1 DEF LapseCatches, TurnGoes, Paused
<1>5. SeesHere'
    <2>1. turn' \in {"down", "lapsing"} => turn \in {"down", "lapsing"}
        BY DEF TurnGoes, Paused
    <2>2. turn \in {"lapsed", "idle"} => turn' \in {"lapsed", "idle"}
        BY DEF TurnGoes, Paused
    <2>3. UNCHANGED <<turns, resumed>>
        OBVIOUS
    <2> QED BY <1>0, <1>1, <2>1, <2>2, <2>3 DEF SeesHere, Tries, Tells, Open
<1> QED BY <1>2, <1>3, <1>4, <1>5 DEF OInv, Excused

LEMMA OStarts == ASSUME Inv, OInv, StartTurn PROVE OInv'
<1>0. /\ OneWaiter /\ LateOpen /\ SeesHere /\ LapseCatches /\ LapsesNone /\ NoneSees /\ NearsOpen /\ WaitsForOpen
      /\ turns \in 0..MaxTurn /\ MaxTurn \in Nat
    BY IsRunning DEF OInv, Excused, Running
<1>1. /\ UNCHANGED <<pause, waiter, gate, lapses, raise, overtaken, late>> /\ turn = "idle" /\ turn' = "fresh"
      /\ turns' = turns + 1 /\ resumed' = FALSE
    BY DEF StartTurn, pVars
<1>2. OneWaiter' /\ LapsesNone' /\ NoneSees' /\ NearsOpen' /\ WaitsForOpen'
    BY <1>0, <1>1 DEF OneWaiter, LapsesNone, NoneSees, NearsOpen, WaitsForOpen, Waits, Open, Nears, Tells
<1>3. LateOpen'
    <2>1. \A t \in 1..MaxTurn : Open(t) => t \in late
        BY <1>0, <1>1 DEF LateOpen
    <2>2. \A t \in 1..MaxTurn : t > turns' \/ t = turns' => t > turns
        BY <1>0, <1>1
    <2>3. \A t \in 1..MaxTurn : gate[t].at \in {"look", "seen"} => Open(t)
        BY DEF Open
    <2>4. \A t \in 1..MaxTurn : t > turns => gate[t].at = "none"
        BY <1>0 DEF LateOpen
    <2> QED BY <1>1, <2>1, <2>2, <2>3, <2>4 DEF LateOpen, Open
<1>4. LapseCatches'
    BY <1>0, <1>1 DEF LapseCatches, Paused
<1>5. SeesHere'
    BY <1>1 DEF SeesHere
<1> QED BY <1>2, <1>3, <1>4, <1>5 DEF OInv, Excused

\* Nothing is open in a process that is down, nor after a crash.
LEMMA ODown == ASSUME Inv, OInv, Crash \/ BootLapses PROVE OInv'
<1>0. PTypeOK /\ OneWaiter /\ LateOpen /\ SeesHere /\ LapseCatches /\ Len(pause) \in Nat
    BY OParts
<1>1. CASE Crash
    <2>1. /\ waiter' = 0 /\ lapses' = FALSE /\ late' = {} /\ turn' = "down"
          /\ gate' = [t \in 1..MaxTurn |-> Shut]
          /\ raise' = [r \in Raises |-> IF raise[r].at = "idle" THEN raise[r] ELSE Told]
        BY <1>1 DEF Crash, PCrash
    <2>2. Shut.at = "none" /\ Told.at = "done"
        BY DEF Shut, Told, NoRaise
    <2>3. /\ \A t \in 1..MaxTurn : gate'[t].at = "none"
          /\ \A r \in Raises : raise'[r].at \in {"idle", "done"}
        BY <2>1, <2>2
    <2> QED BY <2>1, <2>3 DEF OInv, Excused, OneWaiter, LateOpen, SeesHere, LapseCatches, LapsesNone, NoneSees,
               NearsOpen, WaitsForOpen, Waits, Open, Nears, Tells, Tries
<1>2. CASE BootLapses
    <2>1. /\ UNCHANGED <<waiter, gate, lapses, raise, late, turns>> /\ turn = "down"
          /\ turn' \in {"lapsing", "idle"} /\ resumed' = FALSE
        BY <1>2 DEF BootLapses
    <2>2. /\ \A t \in 1..MaxTurn : gate'[t].at = "none"
          /\ \A r \in Raises : raise'[r].at \in {"idle", "done"}
        BY <1>0, <2>1 DEF LateOpen, SeesHere
    <2>3. lapses' => late' # {}
        BY <1>0, <2>1 DEF LapseCatches, Paused
    <2>4. OneWaiter'
        BY <1>0, <2>1 DEF OneWaiter, Waits
    <2> QED BY <2>1, <2>2, <2>3, <2>4 DEF OInv, Excused, LateOpen, SeesHere, LapseCatches, LapsesNone, NoneSees,
               NearsOpen, WaitsForOpen, Waits, Open, Nears, Tells, Tries
<1> QED BY <1>1, <1>2
\* A gate that lifts the cap, or gives up, is no longer open.
LEMMA OLifts ==
    ASSUME Inv, OInv, NEW t \in 1..MaxTurn, GateTakes(t) \/ GateLifts(t)
    PROVE  OInv'
<1>0. /\ PTypeOK /\ OneWaiter /\ LateOpen /\ SeesHere
      /\ LapseCatches /\ LapsesNone /\ NoneSees /\ NearsOpen /\ WaitsForOpen
    BY OParts
<1>1. UNCHANGED <<pause, waiter, lapses, raise, overtaken, late, turn, turns, resumed, stops>>
    BY DEF GateTakes, GateLifts, runVars, turnVars
<1>2. /\ gate'[t].at \in {"none", "lift"} /\ gate[t].at \in {"seen", "lift"}
      /\ \A o \in 1..MaxTurn : o # t => gate'[o] = gate[o]
    <2>1. gate \in [1..MaxTurn -> GateStates(Len(pause))]
        BY <1>0, PauseTypes
    <2>2. CASE GateTakes(t)
        <3>1. gate' = [gate EXCEPT ![t].at = "lift"] \/ gate' = [gate EXCEPT ![t] = Shut]
            BY <2>2 DEF GateTakes, At
        <3>2. Shut.at = "none" /\ gate[t] \in GateStates(Len(pause)) /\ gate[t].at = "seen"
            BY <2>1, <2>2 DEF Shut, GateTakes
        <3> QED BY <2>1, <3>1, <3>2 DEF GateStates
    <2>3. CASE GateLifts(t)
        BY <2>1, <2>3 DEF GateLifts, Shut
    <2> QED BY <2>2, <2>3
<1>3. \A o \in 1..MaxTurn : \/ gate'[o] = gate[o] /\ (Waits(o)' <=> Waits(o))
                            \/ ~Open(o)' /\ ~Waits(o)' /\ ~Nears(o)' /\ ~Waits(o)
    BY <1>2 DEF Waits, Open, Nears
<1>4. OneWaiter' /\ LapsesNone' /\ NoneSees' /\ NearsOpen' /\ WaitsForOpen'
    BY <1>0, <1>1, <1>3 DEF OneWaiter, LapsesNone, NoneSees, NearsOpen, WaitsForOpen, Nears, Open, Tells
<1>5. LateOpen'
    <2>1. \A o \in 1..MaxTurn : /\ gate[o].at = "none" => gate'[o].at = "none"
                                /\ Open(o)' => Open(o)
                                /\ gate'[o].at \in {"look", "seen"} => gate[o].at \in {"look", "seen"}
        BY <1>2 DEF Open
    <2> QED BY <1>0, <1>1, <2>1, LateStill
<1>6. LapseCatches'
    BY <1>0, <1>1 DEF LapseCatches, stopped
<1>7. SeesHere'
    <2>1. Open(turns)' => Open(turns) \/ turns \notin 1..MaxTurn
        BY <1>1, <1>2 DEF Open
    <2>2. resumed => turns \in 1..MaxTurn
        BY IsRunning DEF Running, Inv, RunInv, Live
    <2> QED BY <1>0, <1>1, <2>1, <2>2 DEF SeesHere, Tries, Tells, stopped
<1> QED BY <1>4, <1>5, <1>6, <1>7 DEF OInv, Excused

\* An open gate goes on towards its pause.
LEMMA OGates ==
    ASSUME Inv, OInv, NEW t \in 1..MaxTurn, GateLooks(t) \/ GateLapses(t) \/ GateInserts(t)
    PROVE  OInv'
<1>0. /\ PTypeOK /\ Numbered /\ OneWaiter /\ LateOpen /\ SeesHere /\ Len(pause) \in Nat
      /\ LapseCatches /\ LapsesNone
    BY OParts
<1>1. UNCHANGED <<waiter, lapses, raise, overtaken, late, turn, turns, resumed, stops>>
    BY DEF GateLooks, GateLapses, GateInserts, runVars, turnVars
<1>2. /\ gate[t].at \in {"look", "lapse", "insert"} /\ gate'[t].at \in {"seen", "insert", "hold"}
      /\ gate'[t].at = "seen" => gate[t].at = "look"
      /\ \A o \in 1..MaxTurn : o # t => gate'[o] = gate[o]
    <2>1. gate \in [1..MaxTurn -> GateStates(Len(pause))]
        BY <1>0, PauseTypes
    <2>2. CASE GateLooks(t)
        BY <2>1, <2>2 DEF GateLooks
    <2>3. CASE GateLapses(t)
        BY <2>1, <2>3 DEF GateLapses, At, GateStates
    <2>4. CASE GateInserts(t)
        BY <2>1, <2>4 DEF GateInserts
    <2> QED BY <2>2, <2>3, <2>4
<1>3. OneWaiter'
    BY <1>0, <1>1, <1>2 DEF OneWaiter, Waits
<1>4. LateOpen'
    <2>1. \A o \in 1..MaxTurn : /\ gate[o].at = "none" => gate'[o].at = "none"
                                /\ Open(o)' => Open(o)
                                /\ gate'[o].at \in {"look", "seen"} => gate[o].at \in {"look", "seen"}
        BY <1>2 DEF Open
    <2> QED BY <1>0, <1>1, <2>1, LateStill
<1>5. CASE late # {}
    <2>1. \A r \in Raises : raise'[r] = raise[r]
        BY <1>1
    <2>2. turn' \in {"down", "lapsing"} => \A r \in Raises : raise'[r].at \in {"idle", "done"}
        BY <1>0, <1>1 DEF SeesHere
    <2> QED BY <1>1, <1>3, <1>4, <1>5, <2>2, LateExcuses DEF OInv
<1>6. CASE late = {}
    <2>1. /\ \A o \in 1..MaxTurn : Open(o) => o = t
          /\ t = turns /\ ~lapses /\ waiter = 0 /\ (resumed => \A r \in Raises : ~Tries(r))
        BY <1>2, <1>6, OnlyOne DEF Open, Waits
    <2>2. \A o \in 1..MaxTurn : o # t => ~Open(o)' /\ ~Waits(o)' /\ ~Nears(o)'
        BY <1>2, <2>1 DEF Open, Waits, Nears
    <2>3. LapseCatches' /\ LapsesNone'
        BY <1>1, <2>1 DEF LapseCatches, LapsesNone
    <2>4. WaitsForOpen'
        BY <1>2, <2>2 DEF WaitsForOpen, Waits
    <2>5. Nears(t)' => pause'[gate'[t].p] = "pending" /\ \A r \in Raises : ~(Tells(r)' /\ raise'[r].p = gate'[t].p)
        <3>1. CASE GateLooks(t)
            <4>1. /\ gate[t].at = "look" /\ pause' = pause
                  /\ gate'[t] = [at |-> "seen", p |-> Len(pause),
                                 read |-> IF pause = <<>> THEN "none"
                                          ELSE IF Len(pause) \in kept THEN "kept" ELSE pause[Len(pause)]]
                BY <3>1, <1>0 DEF GateLooks, PTypeOK
            <4>2. resumed
                BY <1>0, <1>6, <4>1 DEF LateOpen
            <4>3. Nears(t)' => gate'[t].read = "pending" /\ gate'[t].p = Len(pause)
                BY <4>1 DEF Nears
            <4>4. gate'[t].read = "pending" => pause[Len(pause)] = "pending"
                BY <4>1
            <4> QED BY <1>1, <2>1, <4>1, <4>2, <4>3, <4>4 DEF Tries, Tells
        <3>2. CASE GateLapses(t)
            BY <3>2, <1>0 DEF GateLapses, At, Nears, PTypeOK
        <3>3. CASE GateInserts(t)
            <4>1. pause' = Append(pause, "pending") /\ gate'[t].p = Len(pause) + 1
                BY <3>3, <1>0 DEF GateInserts, PTypeOK
            <4>2. pause \in Seq(PauseAt)
                BY <1>0 DEF PTypeOK, PauseAt
            <4>3. pause'[Len(pause) + 1] = "pending"
                BY <1>0, <4>1, <4>2 DEF PauseAt
            <4>4. \A r \in Raises : raise[r].p \in 0..Len(pause)
                BY <1>0, PauseTypes DEF RaiseStates
            <4> QED BY <1>0, <1>1, <4>1, <4>3, <4>4
        <3> QED BY <3>1, <3>2, <3>3
    <2>6. NoneSees' /\ NearsOpen'
        BY <2>2, <2>5 DEF NoneSees, NearsOpen
    <2>7. \A r \in Raises : Tries(r)' => Tries(r)
        <3>1. CASE GateLooks(t)
            BY <1>1, <3>1 DEF GateLooks, Tries, Tells
        <3>2. CASE GateLapses(t)
            <4>1. \A p \in Pauses : pause'[p] = "pending" => pause[p] = "pending"
                BY <3>2 DEF GateLapses, SettlePauses
            <4>2. \A r \in Raises : Tells(r) => raise[r].p \in Pauses
                BY <1>0, PauseTypes DEF Tells, Numbered, RaiseStates, Pauses
            <4> QED BY <1>1, <4>1, <4>2 DEF Tries, Tells
        <3>3. CASE GateInserts(t)
            <4>1. pause' = Append(pause, "pending") /\ pause \in Seq(PauseAt)
                BY <3>3, <1>0 DEF GateInserts, PTypeOK, PauseAt
            <4>2. \A p \in Pauses : pause'[p] = pause[p]
                BY <1>0, <4>1 DEF Pauses
            <4>3. \A r \in Raises : Tells(r) => raise[r].p \in Pauses
                BY <1>0, PauseTypes DEF Tells, Numbered, RaiseStates, Pauses
            <4> QED BY <1>1, <4>2, <4>3 DEF Tries, Tells
        <3> QED BY <3>1, <3>2, <3>3
    <2>8. SeesHere'
        BY <1>0, <1>1, <2>1, <2>7 DEF SeesHere
    <2> QED BY <1>3, <1>4, <2>3, <2>4, <2>6, <2>8 DEF OInv, Excused
<1> QED BY <1>5, <1>6
\* What Drop and park() do to the gates: those that waited are shut.
LEMMA OWoken ==
    ASSUME Inv, OInv
    PROVE  \A t \in 1..MaxTurn :
              /\ Woken[t].at # "wait"
              /\ Woken[t] = gate[t] \/ Woken[t].at = "none"
              /\ gate[t].at = "none" => Woken[t].at = "none"
BY OParts, NoWaits DEF Shut, Waits

LEMMA OParks ==
    ASSUME Inv, OInv, NEW t \in 1..MaxTurn, GateResumes(t) \/ GateHolds(t)
    PROVE  OInv'
<1>0. /\ PTypeOK /\ Numbered /\ OneWaiter /\ LateOpen /\ SeesHere
      /\ LapseCatches /\ LapsesNone /\ NoneSees /\ NearsOpen
    BY OParts
<1>1. /\ UNCHANGED <<pause, lapses, raise, overtaken, late, turn, turns, resumed, stops>>
      /\ Nears(t) /\ Open(t) /\ ~Waits(t) /\ ParksOn(t, gate[t].p)
    BY DEF GateResumes, GateHolds, turnVars, Nears, Open, Waits
<1>2. /\ gate'[t].at = "wait" /\ gate'[t].p = gate[t].p /\ waiter' = gate[t].p
      /\ \A o \in 1..MaxTurn : o # t => /\ gate'[o].at # "wait" 
                                        /\ gate'[o] = gate[o] \/ gate'[o].at = "none"
                                        /\ gate[o].at = "none" => gate'[o].at = "none"
    <2> DEFINE wait == [at |-> "wait", p |-> gate[t].p, read |-> "none"]
    <2>1. gate' = [Woken EXCEPT ![t] = wait] /\ waiter' = gate[t].p
        BY <1>1 DEF ParksOn
    <2>2. Woken \in [1..MaxTurn -> GateStates(Len(pause))]
        BY <1>0, Wakes
    <2>3. gate'[t] = wait /\ \A o \in 1..MaxTurn : o # t => gate'[o] = Woken[o]
        BY <2>1, <2>2
    <2> QED BY <2>1, <2>3, OWoken
<1>3. OneWaiter'
    BY <1>2 DEF OneWaiter, Waits
<1>4. LateOpen'
    <2>1. \A o \in 1..MaxTurn : /\ gate[o].at = "none" => gate'[o].at = "none"
                                /\ Open(o)' => Open(o)
                                /\ gate'[o].at \in {"look", "seen"} => gate[o].at \in {"look", "seen"}
        BY <1>1, <1>2 DEF Open
    <2> QED BY <1>0, <1>1, <2>1, LateStill
<1>5. SeesHere'
    <2>1. resumed /\ late = {} => \A r \in Raises : ~Tries(r)
        BY <1>1, OnlyOne
    <2> QED BY <1>0, <1>1, <2>1 DEF SeesHere, Tries, Tells
<1>6. LapseCatches' /\ LapsesNone'
    BY <1>0, <1>1 DEF LapseCatches, LapsesNone, stopped
<1>7. \A o \in 1..MaxTurn : Nears(o)' => Nears(o) /\ gate'[o] = gate[o]
    BY <1>2 DEF Nears
<1>8. NoneSees' /\ NearsOpen'
    BY <1>0, <1>1, <1>7 DEF NoneSees, NearsOpen, Tells
<1>9. WaitsForOpen'
    BY <1>0, <1>1, <1>2 DEF WaitsForOpen, NearsOpen, Waits
<1> QED BY <1>3, <1>4, <1>5, <1>6, <1>8, <1>9 DEF OInv, Excused

\* A lapse that leaves nothing open, or a gate that says it was late.
LEMMA OLapses ==
    ASSUME Inv, OInv, NEW t \in 1..MaxTurn, GateSupersedes(t) \/ GateWithdraws(t)
    PROVE  OInv'
<1>0. PTypeOK /\ OneWaiter /\ LateOpen /\ SeesHere
    BY OParts
<1>1. /\ UNCHANGED <<pause, raise, overtaken, turn, turns, resumed, stops>>
      /\ waiter' = 0 /\ late \subseteq late' /\ Open(t)
      /\ gate[t].at \in {"seen", "wait"}
    BY DEF GateSupersedes, GateWithdraws, turnVars, Open, Waits, Drop, Passes
<1>2. /\ gate'[t].at \in {"none", "lapse"}
      /\ \A o \in 1..MaxTurn : o # t => /\ gate'[o].at # "wait" 
                                        /\ gate'[o] = gate[o] \/ gate'[o].at = "none"
                                        /\ gate[o].at = "none" => gate'[o].at = "none"
    <2> DEFINE lapse == [Shut EXCEPT !.at = "lapse"]
    <2>1. lapse.at = "lapse"
        BY DEF Shut
    <2> HIDE DEF lapse
    <2>2. Woken \in [1..MaxTurn -> GateStates(Len(pause))]
        BY <1>0, Wakes
    <2>3. CASE GateSupersedes(t)
        <3>1. gate' = [Woken EXCEPT ![t] = lapse]
            BY <2>3 DEF GateSupersedes, lapse
        <3> QED BY <2>1, <2>2, <3>1, OWoken
    <2>4. CASE GateWithdraws(t)
        <3>1. gate' = Woken /\ gate[t].at = "wait"
            BY <2>4 DEF GateWithdraws, Waits
        <3> QED BY <3>1, OWoken
    <2> QED BY <2>3, <2>4
<1>3. OneWaiter'
    BY <1>1, <1>2 DEF OneWaiter, Waits
<1>4. LateOpen'
    <2>1. \A o \in 1..MaxTurn : /\ gate[o].at = "none" => gate'[o].at = "none"
                                /\ Open(o)' => Open(o)
                                /\ gate'[o].at \in {"look", "seen"} => gate[o].at \in {"look", "seen"}
        BY <1>1, <1>2 DEF Open
    <2> QED BY <1>0, <1>1, <2>1, LateStill
<1>5. CASE late' # {}
    <2>1. turn' \in {"down", "lapsing"} => \A r \in Raises : raise'[r].at \in {"idle", "done"}
        BY <1>0, <1>1 DEF SeesHere
    <2> QED BY <1>3, <1>4, <1>5, <2>1, LateExcuses DEF OInv
<1>6. CASE late' = {}
    <2>0. late = {}
        BY <1>1, <1>6
    <2>1. /\ \A o \in 1..MaxTurn : Open(o) => o = t
          /\ t = turns /\ turn \in Paused /\ ~lapses
          /\ ~Waits(t) /\ resumed => \A r \in Raises : ~Tries(r)
        BY <1>1, <2>0, OnlyOne
    <2>2. \A o \in 1..MaxTurn : ~Waits(o)' /\ ~Nears(o)' /\ (o # t => ~Open(o)')
        BY <1>2, <2>1 DEF Open, Waits, Nears
    <2>3. NoneSees' /\ NearsOpen' /\ WaitsForOpen'
        BY <2>2 DEF NoneSees, NearsOpen, WaitsForOpen
    <2>4. \A r \in Raises : Tries(r)' <=> Tries(r)
        BY <1>1 DEF Tries, Tells
    <2>5. CASE GateSupersedes(t)
        <3>1. ~Waits(t) /\ lapses' = lapses
            BY <2>5 DEF GateSupersedes, Waits
        <3>2. LapseCatches' /\ LapsesNone'
            BY <2>1, <3>1 DEF LapseCatches, LapsesNone
        <3>3. SeesHere'
            BY <1>0, <1>1, <2>1, <2>4, <3>1 DEF SeesHere
        <3> QED BY <1>3, <1>4, <2>3, <3>2, <3>3 DEF OInv, Excused
    <2>6. CASE GateWithdraws(t)
        <3>1. Waits(t) /\ t \in stops /\ gate' = Woken
            BY <2>6 DEF GateWithdraws
        <3>2. gate'[t].at = "none"
            BY <1>0, <3>1, OWoken DEF Waits
        <3>3. LapseCatches' /\ LapsesNone'
            BY <1>1, <2>1, <2>2, <3>1, <3>2 DEF LapseCatches, LapsesNone, stopped, Open
        <3>4. SeesHere'
            BY <1>0, <1>1, <2>1, <3>1, <3>2 DEF SeesHere, Open, stopped
        <3> QED BY <1>3, <1>4, <2>3, <3>3, <3>4 DEF OInv, Excused
    <2> QED BY <2>5, <2>6
<1> QED BY <1>5, <1>6
LEMMA OOpens ==
    ASSUME Inv, OInv, NEW child \in BOOLEAN, GateOpens(child)
    PROVE  OInv'
<1>0. /\ PTypeOK /\ OneWaiter /\ LateOpen /\ SeesHere /\ LapseCatches
    BY OParts
<1>1. /\ UNCHANGED <<pause, lapses, raise, overtaken, turn, turns, resumed, stops>>
      /\ turn \in Paused /\ ~stopped /\ gate[turns].at = "none" /\ late \subseteq late'
    BY DEF GateOpens, turnVars, Paused, Passes
<1>2. turns \in 1..MaxTurn
    BY <1>1 DEF Inv, RunInv, RunTypeOK, Live, Paused
<1>3. /\ gate'[turns].at = IF resumed THEN "look" ELSE "lapse"
      /\ \A o \in 1..MaxTurn : o # turns => /\ gate'[o] = gate[o] \/ gate'[o].at = "none"
                                            /\ gate[o].at = "none" => gate'[o].at = "none"
                                            /\ ~resumed => gate'[o].at # "wait"
    <2>1. CASE resumed
        <3>1. gate' = [gate EXCEPT ![turns].at = "look"] /\ gate \in [1..MaxTurn -> GateStates(Len(pause))]
            BY <1>0, <2>1, PauseTypes DEF GateOpens, At
        <3> QED BY <1>2, <2>1, <3>1 DEF GateStates
    <2>2. CASE ~resumed
        <3>1. gate' = [Woken EXCEPT ![turns].at = "lapse"] /\ Woken \in [1..MaxTurn -> GateStates(Len(pause))]
            BY <1>0, <2>2, Wakes DEF GateOpens
        <3>2. gate'[turns].at = "lapse" /\ \A o \in 1..MaxTurn : o # turns => gate'[o] = Woken[o]
            BY <1>2, <3>1 DEF GateStates
        <3> QED BY <2>2, <3>2, OWoken
    <2> QED BY <2>1, <2>2
<1>4. IF resumed THEN waiter' = waiter /\ \A o \in 1..MaxTurn : o # turns => gate'[o] = gate[o] ELSE waiter' = 0
    <2>1. CASE resumed
        <3>1. gate' = [gate EXCEPT ![turns].at = "look"] /\ waiter' = waiter
            BY <2>1 DEF GateOpens, At
        <3>2. gate \in [1..MaxTurn -> GateStates(Len(pause))]
            BY <1>0, PauseTypes
        <3> QED BY <2>1, <3>1, <3>2 DEF GateStates
    <2>2. CASE ~resumed
        BY <2>2 DEF GateOpens, Drop
    <2> QED BY <2>1, <2>2
<1>5. OneWaiter'
    <2>1. CASE resumed
        BY <1>0, <1>1, <1>3, <1>4, <2>1 DEF OneWaiter, Waits
    <2>2. CASE ~resumed
        BY <1>1, <1>3, <1>4, <2>2 DEF OneWaiter, Waits
    <2> QED BY <2>1, <2>2
<1>6. LateOpen'
    <2>1. \A o \in 1..MaxTurn : o # turns /\ Open(o)' => Open(o)
        BY <1>3 DEF Open
    <2>2. turn \notin {"down", "lapsing", "lapsed", "idle", "fresh", "adopting", "taking"}
        BY <1>1 DEF Paused
    <2>3. turns \in Nat /\ ~(turns < turns) /\ ~(turns > turns)
        BY <1>2
    <2>4. \A o \in 1..MaxTurn : Open(o)' /\ o < turns => o \in late'
        BY <1>0, <1>1, <2>1, <2>3 DEF LateOpen
    <2>5. \A o \in 1..MaxTurn : o > turns => gate'[o].at = "none"
        BY <1>0, <1>3, <2>3 DEF LateOpen
    <2>6. \A o \in 1..MaxTurn : gate'[o].at \in {"look", "seen"} => resumed \/ late' # {}
        BY <1>0, <1>1, <1>3 DEF LateOpen
    <2> QED BY <1>1, <2>2, <2>4, <2>5, <2>6 DEF LateOpen
<1>7. CASE late' # {}
    <2>1. turn' \in {"down", "lapsing"} => \A r \in Raises : raise'[r].at \in {"idle", "done"}
        BY <1>0, <1>1 DEF SeesHere
    <2> QED BY <1>5, <1>6, <1>7, <2>1, LateExcuses DEF OInv
<1>8. CASE late' = {}
    <2>0. late = {}
        BY <1>1, <1>8
    <2>1. \A o \in 1..MaxTurn : ~Open(o)
        BY <1>1, <2>0, OnlyOne DEF Open
    <2>2. \A o \in 1..MaxTurn : ~Waits(o)' /\ ~Nears(o)'
        BY <1>3, <2>1 DEF Open, Waits, Nears
    <2>3. NoneSees' /\ NearsOpen' /\ WaitsForOpen'
        BY <2>2 DEF NoneSees, NearsOpen, WaitsForOpen
    <2>4. ~lapses
        BY <1>0, <1>1, <2>0 DEF LapseCatches, Paused
    <2>5. LapseCatches' /\ LapsesNone'
        BY <1>1, <2>4 DEF LapseCatches, LapsesNone
    <2>6. SeesHere'
        <3>1. resumed => \A r \in Raises : Tries(r) => waiter = raise[r].p
            BY <1>0, <1>1, <2>0 DEF SeesHere, Paused
        <3>2. \A r \in Raises : Tries(r)' <=> Tries(r)
            BY <1>1 DEF Tries, Tells
        <3>3. turn \notin {"down", "lapsing"}
            BY <1>1 DEF Paused
        <3> QED BY <1>1, <1>4, <3>1, <3>2, <3>3 DEF SeesHere
    <2> QED BY <1>5, <1>6, <2>3, <2>5, <2>6 DEF OInv, Excused
<1> QED BY <1>7, <1>8

\* The turn's end shuts its gate or leaves it late.
LEMMA OEnds == ASSUME Inv, OInv, EndPauses PROVE OInv'
<1>0. /\ PTypeOK /\ OneWaiter /\ LateOpen /\ SeesHere
    BY OParts
<1>1. /\ UNCHANGED <<pause, raise, overtaken, turns, resumed, stops>>
      /\ turn = "closing" /\ turn' = "lapsed" /\ gate' = Woken /\ waiter' = 0 /\ lapses' = TRUE
      /\ late' = late \cup Opening
    BY DEF EndPauses, Ends, Drop, Passes
<1>2. turns \in 1..MaxTurn
    BY <1>1 DEF Inv, RunInv, RunTypeOK, Live
<1>3. \A t \in 1..MaxTurn : /\ gate'[t].at # "wait"
                            /\ gate'[t] = gate[t] \/ gate'[t].at = "none"
                            /\ gate[t].at = "none" => gate'[t].at = "none"
    BY <1>1, OWoken
<1>4. OneWaiter'
    BY <1>1, <1>3 DEF OneWaiter, Waits
<1>5. \A t \in 1..MaxTurn : Open(t)' => t \in Opening
    BY <1>3 DEF Open, Opening
<1>6. LateOpen'
    <2>1. \A t \in 1..MaxTurn : Open(t)' => t \in late'
        BY <1>1, <1>5
    <2>2. \A t \in 1..MaxTurn : t > turns => gate'[t].at = "none"
        BY <1>0, <1>3 DEF LateOpen
    <2>3. \A t \in 1..MaxTurn : gate'[t].at \in {"look", "seen"} => resumed \/ late' # {}
        BY <1>0, <1>1, <1>3 DEF LateOpen
    <2> QED BY <1>1, <2>1, <2>2, <2>3 DEF LateOpen
<1>7. CASE late' # {}
    BY <1>1, <1>4, <1>6, <1>7, LateExcuses DEF OInv
<1>8. CASE late' = {}
    <2>1. \A t \in 1..MaxTurn : ~Open(t)' /\ ~Waits(t)' /\ ~Nears(t)'
        BY <1>1, <1>3, <1>5, <1>8 DEF Waits, Nears, Open
    <2>2. LapseCatches' /\ LapsesNone' /\ NoneSees' /\ NearsOpen' /\ WaitsForOpen'
        BY <1>1, <2>1 DEF LapseCatches, LapsesNone, NoneSees, NearsOpen, WaitsForOpen
    <2>3. SeesHere'
        BY <1>1, <1>2, <2>1 DEF SeesHere
    <2> QED BY <1>4, <1>6, <2>2, <2>3 DEF OInv, Excused
<1> QED BY <1>7, <1>8

\* Records are settled: by a fresh turn, or by a lapse that lands.
LEMMA OSettles == ASSUME Inv, OInv, Retire \/ LapseLands PROVE OInv'
<1>0. /\ PTypeOK /\ Numbered /\ OneWaiter /\ LateOpen /\ SeesHere /\ LapseCatches /\ LapsesNone
    BY OParts
<1>1. /\ UNCHANGED <<waiter, gate, raise, overtaken, turns, resumed, stops>> /\ late \subseteq late'
      /\ lapses' => lapses
      /\ turn' = turn \/ (turn = "fresh" /\ turn' = "running")
      /\ lapses \/ turn = "fresh"
      /\ pause' = pause \/ SettlePauses
    BY DEF Retire, LapseLands, Ends, turnVars, RetirePauses, Passes
<1>2. OneWaiter'
    BY <1>0, <1>1 DEF OneWaiter, Waits
<1>3. LateOpen'
    <2>1. /\ turn' \in {"lapsed", "idle", "down", "lapsing"} => turn' = turn
          /\ turn' \in {"fresh", "adopting", "taking"} => turn' = turn
        BY <1>1
    <2>2. \A t \in 1..MaxTurn : t \in late => t \in late'
        BY <1>1
    <2> QED BY <1>0, <1>1, <2>1, <2>2 DEF LateOpen, Open
<1>4. \A r \in Raises : Tries(r)' => Tries(r)
    <2>1. \A p \in Pauses : pause'[p] = "pending" => pause[p] = "pending"
        BY <1>1 DEF SettlePauses
    <2>2. \A r \in Raises : Tells(r) => raise[r].p \in Pauses
        BY <1>0, PauseTypes DEF Tells, Numbered, RaiseStates, Pauses
    <2> QED BY <1>1, <2>1, <2>2 DEF Tries, Tells
<1>5. SeesHere'
    <2>1. Open(turns)' <=> Open(turns)
        BY <1>1 DEF Open
    <2> QED BY <1>0, <1>1, <1>4, <2>1, SeesStill
<1>6. CASE late' # {}
    BY <1>2, <1>3, <1>5, <1>6, LateExcuses DEF OInv
<1>7. CASE late' = {}
    <2>0. late = {}
        BY <1>1, <1>7
    <2>1. \A t \in 1..MaxTurn : ~Open(t)
        BY <1>1, <2>0, OnlyOne DEF Paused
    <2>2. \A t \in 1..MaxTurn : ~Open(t)' /\ ~Waits(t)' /\ ~Nears(t)'
        BY <1>1, <2>1 DEF Open, Waits, Nears
    <2>3. LapsesNone' /\ NoneSees' /\ NearsOpen' /\ WaitsForOpen'
        BY <2>2 DEF LapsesNone, NoneSees, NearsOpen, WaitsForOpen
    <2>4. LapseCatches'
        BY <1>0, <1>1, <2>0 DEF LapseCatches, stopped, Paused
    <2> QED BY <1>2, <1>3, <1>5, <2>3, <2>4 DEF OInv, Excused
<1> QED BY <1>6, <1>7
\* A request that finds a pause, checks or clears is not about to wake anyone.
LEMMA OAsks ==
    ASSUME Inv, OInv, NEW r \in Raises,
           RaiseFind(r) \/ RaiseLooks(r) \/ RaiseChecks(r, Parking # {}) \/ RaiseClears(r)
    PROVE  OInv'
<1>0. /\ PTypeOK /\ Numbered /\ OneWaiter /\ LateOpen /\ SeesHere
      /\ LapseCatches /\ LapsesNone /\ NoneSees /\ NearsOpen /\ WaitsForOpen
    BY OParts
<1>1. /\ UNCHANGED <<pause, waiter, gate, lapses, overtaken, late, turn, turns, resumed, stops>>
      /\ turn \notin {"down", "lapsing"}
    BY <1>0 DEF RaiseFind, RaiseLooks, RaiseChecks, RaiseClears, runVars, turnVars, SeesHere
<1>2. /\ \A o \in Raises : o # r => raise'[o] = raise[o]
      /\ raise[r].at = "won" => ~raise[r].sees
      /\ \/ raise'[r].at \notin {"sent", "won"}
         \/ /\ raise'[r].at = "sent" /\ raise'[r].p = raise[r].p /\ raise[r].p # 0
            /\ raise'[r].sees = (waiter = raise[r].p)
    <2>1. raise \in [Raises -> RaiseStates(Len(pause))]
        BY <1>0, PauseTypes
    <2>2. CASE RaiseFind(r)
        BY <2>1, <2>2 DEF RaiseFind
    <2>3. CASE RaiseLooks(r)
        <3>1. raise[r].at = "found" /\ raise[r].p # 0
            BY <1>0, <2>3 DEF RaiseLooks, Numbered
        <3>2. raise' = [raise EXCEPT ![r].at = "sent", ![r].sees = (waiter = raise[r].p)]
            BY <2>3 DEF RaiseLooks
        <3> QED BY <2>1, <3>1, <3>2 DEF RaiseStates
    <2>4. CASE RaiseChecks(r, Parking # {}) \/ RaiseClears(r)
        <3>1. \E to \in {"done", "clear"} : RaiseGoes(r, to)
            BY <2>4 DEF RaiseChecks, RaiseClears
        <3>2. PICK to \in {"done", "clear"} : RaiseGoes(r, to)
            BY <3>1
        <3>3. Told.at = "done"
            BY DEF Told, NoRaise
        <3>4. raise'[r].at \in {"done", "clear"} /\ \A o \in Raises : o # r => raise'[o] = raise[o]
            <4>1. CASE to = "done"
                BY <2>1, <3>2, <3>3, <4>1 DEF RaiseGoes
            <4>2. CASE to = "clear"
                BY <2>1, <3>2, <4>2 DEF RaiseGoes, RaiseStates
            <4> QED BY <4>1, <4>2
        <3> QED BY <2>4, <3>4 DEF RaiseChecks, RaiseClears
    <2> QED BY <2>2, <2>3, <2>4
<1>3. OneWaiter' /\ LateOpen' /\ LapseCatches' /\ LapsesNone' /\ NearsOpen'
    BY <1>0, <1>1 DEF OneWaiter, LateOpen, LapseCatches, LapsesNone, NearsOpen, Waits, Open, Nears, stopped
<1>4. WaitsForOpen'
    <2>1. \A o \in Raises : raise[o].at = "won" /\ raise[o].sees => raise'[o] = raise[o]
        BY <1>2
    <2> QED BY <1>0, <1>1, <2>1 DEF WaitsForOpen, Waits
<1>5. \A o \in Raises : \/ raise'[o] = raise[o]
                        \/ ~Tells(o)' 
                        \/ raise'[o].p = waiter /\ waiter # 0
    BY <1>2 DEF Tells
<1>6. SeesHere'
    BY <1>0, <1>1, <1>5 DEF SeesHere, Tries, Tells, Open, stopped
<1>7. NoneSees'
    <2>1. waiter # 0 /\ late = {} => \A t \in 1..MaxTurn : ~Nears(t)
        BY OnlyOne DEF Nears, Open, Waits
    <2> QED BY <1>0, <1>1, <1>5, <2>1 DEF NoneSees, Nears, Tells
<1> QED BY <1>3, <1>4, <1>6, <1>7 DEF OInv, Excused

LEMMA OSettlesRaise == ASSUME Inv, OInv, NEW r \in Raises, RaiseSettles(r) PROVE OInv'
<1>0. /\ PTypeOK /\ Numbered /\ OneWaiter /\ LateOpen /\ SeesHere
      /\ LapseCatches /\ LapsesNone /\ NoneSees /\ NearsOpen /\ WaitsForOpen
    BY OParts
<1> DEFINE n == raise[r].p
<1>1. /\ UNCHANGED <<waiter, gate, lapses, late, turn, turns, resumed, stops>>
      /\ raise[r].at = "sent" /\ n \in Pauses /\ overtaken \subseteq overtaken'
    <2>1. n # 0 /\ n \in 0..Len(pause) /\ Len(pause) \in Nat
        BY <1>0, PauseTypes DEF RaiseSettles, Numbered, RaiseStates
    <2> QED BY <2>1 DEF RaiseSettles, runVars, turnVars, Pauses
<1>2. /\ \A o \in Raises : o # r => raise'[o] = raise[o]
      /\ IF pause[n] = "pending"
         THEN raise'[r].at = "won" /\ raise'[r].p = n /\ raise'[r].sees = raise[r].sees
         ELSE raise'[r].at = "done"
    <2>1. raise \in [Raises -> RaiseStates(Len(pause))] /\ Told.at = "done"
        BY <1>0, PauseTypes DEF Told, NoRaise
    <2>2. CASE pause[n] = "pending"
        <3>1. RaiseGoes(r, "won")
            BY <2>2 DEF RaiseSettles
        <3> QED BY <2>1, <2>2, <3>1 DEF RaiseGoes, RaiseStates
    <2>3. CASE pause[n] # "pending"
        <3>1. RaiseGoes(r, "done")
            BY <2>3 DEF RaiseSettles
        <3> QED BY <2>1, <2>3, <3>1 DEF RaiseGoes
    <2> QED BY <2>2, <2>3
<1>3. /\ \A p \in Pauses : p # n \/ pause[n] # "pending" => pause'[p] = pause[p]
      /\ pause[n] = "pending" => pause'[n] = "raised"
      /\ pause[n] = "pending" /\ ~raise[r].sees => n \in overtaken' \/ \A t \in 1..MaxTurn : gate[t].p # n
    <2>1. pause \in [Pauses -> PauseAt]
        BY <1>0, PauseTypes
    <2> QED BY <1>1, <2>1 DEF RaiseSettles
<1> HIDE DEF n
<1>4. OneWaiter' /\ LateOpen' /\ LapseCatches' /\ LapsesNone'
    BY <1>0, <1>1 DEF OneWaiter, LateOpen, LapseCatches, LapsesNone, Waits, Open, stopped
<1>5. /\ \A o \in Raises : raise[o].at \in {"found", "sent", "won"} => raise[o].p \in Pauses
      /\ \A t \in 1..MaxTurn : gate[t].at \in {"hold", "wait"} \/ Nears(t) => gate[t].p \in Pauses
    <2>1. \A o \in Raises : raise[o].at \in {"found", "sent", "won"} => raise[o].p \in 0..Len(pause) /\ raise[o].p # 0
        BY <1>0, PauseTypes DEF Numbered, RaiseStates
    <2>2. \A t \in 1..MaxTurn : gate[t].at \in {"hold", "wait"} \/ Nears(t) => gate[t].p \in 0..Len(pause) /\ gate[t].p # 0
        BY <1>0, PauseTypes DEF Numbered, GateStates, Nears
    <2> QED BY <1>0, <2>1, <2>2, PauseTypes DEF Pauses
<1>6. \A o \in Raises : Tries(o)' => Tries(o) /\ raise'[o].p = raise[o].p
    <2>1. CASE pause[n] = "pending"
        <3>1. Tries(r)' => Tries(r) /\ raise'[r].p = raise[r].p
            BY <1>1, <1>2, <2>1 DEF Tries, Tells, n
        <3>2. ASSUME NEW o \in Raises, o # r, Tries(o)' PROVE Tries(o)
            <4>1. raise'[o] = raise[o] /\ Tells(o) /\ raise[o].p \in Pauses
                BY <1>2, <1>5, <3>2 DEF Tries, Tells
            <4>2. pause'[raise[o].p] = "pending" => pause[raise[o].p] = "pending"
                BY <1>3, <2>1, <4>1
            <4> QED BY <3>2, <4>1, <4>2 DEF Tries
        <3> QED BY <1>2, <3>1, <3>2
    <2>2. CASE pause[n] # "pending"
        BY <1>2, <1>3, <1>5, <2>2 DEF Tries, Tells
    <2> QED BY <2>1, <2>2
<1>7. SeesHere'
    <2>1. Open(turns)' => Open(turns)
        BY <1>1 DEF Open
    <2>2. \A o \in Raises : raise[o].at \in {"idle", "done"} => raise'[o].at \in {"idle", "done"}
        BY <1>1, <1>2
    <2> QED BY <1>0, <1>1, <1>6, <2>1, <2>2, SeesStill
<1>8. \A o \in Raises : Tells(o)' => Tells(o) /\ raise'[o].p = raise[o].p
    BY <1>1, <1>2 DEF Tells, n
<1>9. NoneSees'
    BY <1>0, <1>1, <1>8 DEF NoneSees, Nears
<1>10. NearsOpen'
    <2>1. ASSUME NEW t \in 1..MaxTurn, Nears(t), late = {}
          PROVE  pause'[gate[t].p] = "pending" \/ gate[t].p \in overtaken'
        <3>1. gate[t].p \in Pauses /\ (pause[gate[t].p] = "pending" \/ gate[t].p \in overtaken)
            BY <1>0, <1>5, <2>1 DEF NearsOpen
        <3>2. CASE gate[t].p = n /\ pause[n] = "pending"
            <4>1. ~raise[r].sees
                BY <1>0, <1>1, <2>1, <3>2 DEF NoneSees, Tells, n
            <4> QED BY <1>3, <3>2, <4>1
        <3>3. CASE gate[t].p # n \/ pause[n] # "pending"
            BY <1>1, <1>3, <3>1, <3>3
        <3> QED BY <3>2, <3>3
    <2> QED BY <1>1, <2>1 DEF NearsOpen, Nears
<1>11. WaitsForOpen'
    <2>1. ASSUME NEW t \in 1..MaxTurn, Waits(t), late = {}
          PROVE  \/ pause'[gate[t].p] = "pending" \/ gate[t].p \in overtaken'
                 \/ \E o \in Raises : raise'[o].p = gate[t].p /\ raise'[o].at = "won" /\ raise'[o].sees
        <3>1. gate[t].p \in Pauses
            BY <1>5, <2>1 DEF Waits
        <3>2. CASE gate[t].p = n /\ pause[n] = "pending"
            BY <1>2, <1>3, <3>2
        <3>3. CASE gate[t].p # n \/ pause[n] # "pending"
            <4>1. pause'[gate[t].p] = pause[gate[t].p]
                BY <1>3, <3>1, <3>3
            <4>2. \A o \in Raises : raise[o].at = "won" => raise'[o] = raise[o]
                BY <1>1, <1>2
            <4> QED BY <1>0, <1>1, <2>1, <4>1, <4>2 DEF WaitsForOpen
        <3> QED BY <3>2, <3>3
    <2> QED BY <1>1, <2>1 DEF WaitsForOpen, Waits
<1> QED BY <1>4, <1>7, <1>9, <1>10, <1>11 DEF OInv, Excused

\* The raise that wakes shuts the gate that waits; no other request saw it.
LEMMA OWakes == ASSUME Inv, OInv, NEW r \in Raises, RaiseWakes(r) PROVE OInv'
<1>0. /\ PTypeOK /\ Numbered /\ OneWaiter /\ LateOpen /\ SeesHere /\ RaisedIsOnce
      /\ LapseCatches /\ LapsesNone /\ NoneSees /\ NearsOpen
    BY OParts DEF Inv, PInv
<1>1. /\ UNCHANGED <<pause, lapses, overtaken, late, turn, turns, resumed, stops>>
      /\ raise[r].at = "won" /\ raise[r].sees /\ gate' = Woken /\ waiter' = 0
    BY DEF RaiseWakes, turnVars, Drop
<1>2. raise'[r].at = "done" /\ \A o \in Raises : o # r => raise'[o] = raise[o]
    <2>1. raise \in [Raises -> RaiseStates(Len(pause))] /\ Told.at = "done"
        BY <1>0, PauseTypes DEF Told, NoRaise
    <2>2. RaiseGoes(r, "done")
        BY DEF RaiseWakes
    <2> QED BY <2>1, <2>2 DEF RaiseGoes
<1>3. \A t \in 1..MaxTurn : /\ gate'[t].at # "wait"
                            /\ gate'[t] = gate[t] \/ gate'[t].at = "none"
                            /\ gate[t].at = "none" => gate'[t].at = "none"
    BY <1>1, OWoken
<1>4. OneWaiter' /\ WaitsForOpen'
    BY <1>1, <1>3 DEF OneWaiter, WaitsForOpen, Waits
<1>5. LateOpen'
    <2>1. \A t \in 1..MaxTurn : /\ Open(t)' => Open(t)
                                /\ gate'[t].at \in {"look", "seen"} => gate[t].at \in {"look", "seen"}
        BY <1>3 DEF Open
    <2> QED BY <1>0, <1>1, <1>3, <2>1, LateStill
<1>6. LapseCatches' /\ LapsesNone'
    BY <1>0, <1>1, <1>3 DEF LapseCatches, LapsesNone, stopped, Open
<1>7. \A o \in Raises : Tells(o)' => Tells(o) /\ o # r /\ raise'[o] = raise[o]
    BY <1>2 DEF Tells
<1>8. NoneSees' /\ NearsOpen'
    <2>1. \A t \in 1..MaxTurn : Nears(t)' => Nears(t) /\ gate'[t] = gate[t]
        BY <1>3 DEF Nears
    <2> QED BY <1>0, <1>1, <1>7, <2>1 DEF NoneSees, NearsOpen
<1>9. SeesHere'
    <2>1. \A o \in Raises : Tries(o)' => Tries(o) /\ o # r /\ raise'[o] = raise[o]
        BY <1>1, <1>7 DEF Tries
    <2>2. Tries(r)
        BY <1>1 DEF Tries, Tells
    <2>3. \A o \in Raises : Tries(o) /\ o # r => raise[o].p # raise[r].p
        BY <1>0, <1>1 DEF RaisedIsOnce, Tries, Tells, Due
    <2>4. resumed => turns \in 1..MaxTurn
        BY IsRunning DEF Running, Inv, RunInv, Live
    <2>5. resumed => (Open(turns)' => Open(turns))
        BY <1>3, <1>1, <2>4 DEF Open
    <2>6. resumed => \A o \in Raises : Tries(o)' =>
              late # {} \/ (~Open(turns)' /\ (stopped \/ turn \in {"lapsed", "idle"}))
        BY <1>0, <2>1, <2>2, <2>3, <2>5 DEF SeesHere
    <2>7. turn \notin {"down", "lapsing"}
        BY <1>0, <1>1 DEF SeesHere
    <2> QED BY <1>1, <2>1, <2>6, <2>7 DEF SeesHere, stopped
<1> QED BY <1>4, <1>5, <1>6, <1>8, <1>9 DEF OInv, Excused
LEMMA OKept == ASSUME Inv, OInv, Next PROVE OInv'
<1>1. CASE PSteps
    <2>1. ASSUME NEW t \in 1..MaxTurn, GateSteps(t) PROVE OInv'
        BY <2>1, OGates, OLifts, OParks, OLapses DEF GateSteps
    <2>2. ASSUME NEW r \in Raises, RaiseSteps(r) PROVE OInv'
        BY <2>2, OAsks, OSettlesRaise, OWakes DEF RaiseSteps
    <2> QED BY <1>1, <2>1, <2>2, OSettles DEF PSteps
<1>2. CASE (\E child \in BOOLEAN : GateOpens(child)) \/ (\E r \in Raises : RaiseFind(r))
    BY <1>2, OOpens, OAsks
<1>3. CASE Retire \/ EndPauses \/ BootLapses \/ Crash \/ StartTurn
    BY <1>3, OSettles, OEnds, ODown, OStarts
<1>4. CASE \/ QSteps
           \/ (\E p \in Posts, q \in Asked : PostFind(p, q)) /\ UNCHANGED pVars
           \/ Stop \/ Seal \/ EndQuestions \/ SettleQuestions \/ TurnOver \/ Redrive \/ BootClears \/ Lands
    <2>1. UNCHANGED pVars /\ UNCHANGED <<turns, resumed>> /\ stops \subseteq stops'
        BY <1>4 DEF QSteps, CallSteps, PostSteps, Ask, Reread, TakeEarlier, Hold, Withdraw, WithdrawalLands,
           AdoptHands, PostFind, PostSettle, PostHands, PostTakesBack, PostFindsNobody, PostOwes, PostChecks,
           PostClears, AdoptList, AdoptMarks, AdoptEnds, Stop, Seal, EndQuestions,
           SettleQuestions, TurnOver, Redrive, BootClears, Lands, MarkLands, Ends, runVars, turnVars
    <2>2. TurnGoes
        BY <1>4 DEF TurnGoes, Paused, QSteps, CallSteps, PostSteps, Ask, Reread, TakeEarlier, Hold, Withdraw,
           WithdrawalLands, AdoptHands, PostFind, PostSettle, PostHands, PostTakesBack, PostFindsNobody, PostOwes,
           PostChecks, PostClears, AdoptList, AdoptMarks, AdoptEnds, Stop, Seal, EndQuestions,
           SettleQuestions, TurnOver, Redrive, BootClears, Lands, MarkLands, Ends, runVars, turnVars
    <2> QED BY <2>1, <2>2, OTurnGoes
<1>5. CASE System
    BY <1>1, <1>3, <1>4, <1>5 DEF System, TurnSteps
<1>6. CASE Outside
    BY <1>2, <1>3, <1>4, <1>6 DEF Outside
<1> QED BY <1>5, <1>6 DEF Next

\* Where the gates are, whom they wait for and what the requests saw, in every
\* reachable state.
THEOREM GatesStandRight == Spec => []OInv
<1>1. Init => OInv
    <2>1. Shut.at = "none" /\ NoRaise.at = "idle"
        BY DEF Shut, NoRaise
    <2> QED BY <2>1 DEF Init, RunInit, PInit, OInv, Excused, OneWaiter, LateOpen, SeesHere, LapseCatches,
               LapsesNone, NoneSees, NearsOpen, WaitsForOpen, Waits, Open, Nears, Tells, Tries
<1>2. Inv /\ OInv /\ [Next]_vars => OInv'
    <2>1. ASSUME Inv, OInv, UNCHANGED vars PROVE OInv'
        <3>1. UNCHANGED pVars /\ UNCHANGED <<turns, resumed, stops, turn>>
            BY <2>1 DEF vars, runVars, turnVars
        <3> QED BY <2>1, <3>1, OTurnGoes DEF TurnGoes
    <2> QED BY <2>1, OKept
<1> QED BY <1>1, <1>2, Invariance, PTL DEF Spec

\* A gate waits for a pause that can still be raised, or whose raise is about to
\* wake it, unless the raise overtook it or a lapse passed a gate on its way.
THEOREM PausesWaitedForAreOpen == Spec => []WaitsForOpen
<1>1. OInv => WaitsForOpen
    BY DEF OInv, Excused
<1> QED BY <1>1, GatesStandRight, PTL

\* No pause outlives the turn it paused but one that was being opened as the
\* turn's end lapsed the pauses.
THEOREM PausesEndWithTheirTurn == Spec => []EndsWithTurn
<1>1. OInv => EndsWithTurn
    BY DEF OInv, LateOpen, EndsWithTurn, Waits, Open
<1> QED BY <1>1, GatesStandRight, PTL
-----------------------------------------------------------------------------
(* The records of the pauses refine DecisionBoard *)

\* The steps that write the records.
LEMMA PauseWriters ==
    ASSUME [Next]_vars, pause' # pause
    PROVE  \/ SettlePauses
           \/ \E t \in 1..MaxTurn : GateInserts(t)
           \/ \E r \in Raises : RaiseSettles(r)
<1>1. CASE UNCHANGED vars
    BY <1>1 DEF vars, pVars
<1>2. CASE Outside
    BY <1>2 DEF Outside, StartTurn, Stop, Crash, PCrash, GateOpens, RaiseFind, pVars
<1>3. CASE TurnSteps
    BY <1>3 DEF TurnSteps, Retire, RetirePauses, Seal, EndQuestions, SettleQuestions, EndPauses,
                TurnOver, Redrive, BootLapses, BootClears, pVars
<1>4. CASE Lands \/ QSteps
    BY <1>4 DEF Lands, QSteps, pVars
<1>5. CASE PSteps
    BY <1>5 DEF PSteps, GateSteps, RaiseSteps, GateLooks, GateResumes, GateTakes, GateLifts,
                GateSupersedes, GateLapses, GateHolds, GateWithdraws, LapseLands, RaiseLooks,
                RaiseWakes, RaiseChecks, RaiseClears
<1> QED BY <1>1, <1>2, <1>3, <1>4, <1>5 DEF Next, System

LEMMA PauseStutter == ASSUME pause' = pause PROVE UNCHANGED PauseBoard!board
BY DEF PauseBoard!board, PauseOutcome, Pauses

\* settleAll() cancels what is pending, and that alone.
LEMMA PausesLapse ==
    ASSUME PTypeOK, SettlePauses
    PROVE  PauseBoard!Decide(Asking, "cancelled") /\ Asking \in SUBSET (1..MaxPause)
<1>1. /\ Len(pause) \in Nat /\ MaxPause \in Nat /\ Len(pause) <= MaxPause
      /\ Len(pause') = Len(pause)
    BY PauseTypes, PausesSettle
<1>2. Pauses' = Pauses /\ Pauses \subseteq 1..MaxPause
    BY <1>1 DEF Pauses
<1>3. \A p \in Pauses : pause'[p] = IF p \in Asking THEN "cancelled" ELSE pause[p]
    BY DEF SettlePauses, Asking
<1>4. PauseOutcome' = [p \in 1..MaxPause |-> IF p \in Asking THEN "cancelled" ELSE PauseOutcome[p]]
    BY <1>2, <1>3 DEF PauseOutcome, Asking
<1>5. \A p \in Asking : PauseOutcome[p] = "pending"
    BY <1>2 DEF PauseOutcome, Asking
<1> QED BY <1>2, <1>4, <1>5 DEF PauseBoard!Decide, Asking

\* An insert asks for a pause nobody asked for before.
LEMMA PauseAsked ==
    ASSUME PTypeOK, NEW t \in 1..MaxTurn, GateInserts(t)
    PROVE  \E p \in 1..MaxPause : PauseBoard!Ask({p}, {})
<1> DEFINE n == Len(pause) + 1
<1>1. pause \in Seq(PauseAt) /\ pause' = Append(pause, "pending") /\ Len(pause) < MaxPause
    BY DEF GateInserts, PTypeOK, PauseAt
<1>2. Len(pause) \in Nat /\ MaxPause \in Nat /\ Len(pause') = n
    BY <1>1, PauseTypes
<1>3. pause'[n] = "pending" /\ \A p \in Pauses : pause'[p] = pause[p]
    BY <1>1 DEF Pauses
<1>4. n \in 1..MaxPause /\ n \notin Pauses /\ Pauses' = Pauses \cup {n}
    BY <1>1, <1>2 DEF Pauses
<1> HIDE DEF n
<1>5. PauseOutcome' = [p \in 1..MaxPause |-> IF p \in {n} THEN "pending" ELSE PauseOutcome[p]]
    BY <1>3, <1>4 DEF PauseOutcome
<1>6. PauseOutcome[n] = "absent"
    BY <1>4 DEF PauseOutcome
<1> QED BY <1>4, <1>5, <1>6 DEF PauseBoard!Ask

\* The conditional update of the route decides one that is still pending.
LEMMA PauseRaised ==
    ASSUME PTypeOK, Numbered, NEW r \in Raises, RaiseSettles(r), pause' # pause
    PROVE  \E p \in 1..MaxPause : PauseBoard!Decide({p}, "raised")
<1> DEFINE n == raise[r].p
<1>1. n # 0 /\ pause[n] = "pending" /\ pause' = [pause EXCEPT ![n] = "raised"]
    BY DEF RaiseSettles, Numbered
<1>2. n \in Pauses /\ Len(pause) \in Nat /\ MaxPause \in Nat /\ Len(pause) <= MaxPause
    BY <1>1, PauseTypes DEF RaiseStates, Pauses
<1>3. pause \in [Pauses -> PauseAt] /\ pause \in Seq(PauseAt)
    BY PauseTypes DEF PTypeOK, PauseAt
<1> HIDE DEF n
<1>4. Len(pause') = Len(pause)
    BY <1>1, <1>3
<1>5. Pauses' = Pauses /\ Pauses \subseteq 1..MaxPause
    BY <1>2, <1>4 DEF Pauses
<1>6. pause'[n] = "raised" /\ \A p \in Pauses : p # n => pause'[p] = pause[p]
    BY <1>1, <1>2, <1>3
<1>7. PauseOutcome' = [p \in 1..MaxPause |-> IF p \in {n} THEN "raised" ELSE PauseOutcome[p]]
    BY <1>2, <1>5, <1>6 DEF PauseOutcome
<1>8. PauseOutcome[n] = "pending" /\ n \in 1..MaxPause
    BY <1>1, <1>2, <1>5 DEF PauseOutcome
<1> QED BY <1>7, <1>8 DEF PauseBoard!Decide

LEMMA PauseBoardStep == Inv /\ [Next]_vars => [PauseBoard!Next]_(PauseBoard!board)
<1> SUFFICES ASSUME Inv, [Next]_vars PROVE PauseBoard!Next \/ UNCHANGED PauseBoard!board
    OBVIOUS
<1>t. PTypeOK /\ Numbered
    BY DEF Inv, PInv
<1>1. CASE pause' = pause
    BY <1>1, PauseStutter
<1>2. CASE SettlePauses
    BY <1>t, <1>2, PausesLapse DEF PauseBoard!Next
<1>3. ASSUME NEW t \in 1..MaxTurn, GateInserts(t) PROVE PauseBoard!Next
    <2>1. PICK p \in 1..MaxPause : PauseBoard!Ask({p}, {})
        BY <1>t, <1>3, PauseAsked
    <2>2. {p} \in SUBSET (1..MaxPause) /\ {} \in SUBSET {p}
        OBVIOUS
    <2> QED BY <2>1, <2>2 DEF PauseBoard!Next
<1>4. ASSUME NEW r \in Raises, RaiseSettles(r), pause' # pause PROVE PauseBoard!Next
    <2>1. PICK p \in 1..MaxPause : PauseBoard!Decide({p}, "raised")
        BY <1>t, <1>4, PauseRaised
    <2>2. {p} \in SUBSET (1..MaxPause)
        OBVIOUS
    <2> QED BY <2>1, <2>2 DEF PauseBoard!Next
<1> QED BY <1>1, <1>2, <1>3, <1>4, PauseWriters

\* A pause is asked about once, decided once and never changed again, whatever
\* the gates, the lapses, the raises, failed calls and crashes do.
THEOREM PausesRefine == Spec => PausesKeepPromise
<1>1. Init => PauseBoard!Init
    <2>1. Init => Pauses = {}
        BY DEF Init, PInit, Pauses
    <2> QED BY <2>1 DEF PauseBoard!Init, PauseOutcome
<1> QED BY <1>1, PauseBoardStep, Invariance, PTL DEF Spec, PausesKeepPromise, PauseBoard!Spec
=============================================================================
