------------------------- MODULE SubAgents_proofs -------------------------
(***************************************************************************)
(* For every team, every set of instances and every cap: the ledger is     *)
(* exact, parallel spawns stay within the concurrency cap, what counts as  *)
(* running has a loop, no object runs two, and what is held of an instance *)
(* is counted.                                                             *)
(***************************************************************************)
EXTENDS SubAgents, FiniteSetTheorems, TLAPS

Pending == {a \in Agents : stage[a] = "admitted"}
Started == {a \in Agents : stage[a] \in {"admitted", "thrown", "registered"}}
FirstRuns == {o \in Running : object[o].first}

\* A status says whether there is a loop.
LoopStates == \A o \in Objects :
    /\ object[o].status = "running" => object[o].loop # "none"
    /\ object[o].status = "complete" => object[o].loop = "none"

\* Nothing is known of an agent before its spawn registers.
Unborn ==
    /\ \A a \in Agents : stage[a] # "registered" => active[a] = 0 /\ document[a] = "none"
    /\ \A o \in Objects : stage[o[1]] # "registered" => object[o] = NoObject
    /\ \A r \in Readers : stage[r[1]] # "registered" => seen[r] = "none"

Inv == TypeOK /\ LedgerExact /\ SpawnsWithinCap /\ LoopStates /\ Unborn

-----------------------------------------------------------------------------
(* Counting *)

\* An agent has one registered object at most, so there are finitely many.
LEMMA RegisteredFinite == IsFiniteSet(Registered)
<1> DEFINE f == [o \in Registered |-> o[1]]
<1>1. \A o \in Registered : o = <<o[1], o[2]>> /\ o[1] \in Agents /\ o[2] = active[o[1]]
    BY DEF Registered, Objects, Numbers
<1>2. f \in [Registered -> Agents]
    BY <1>1
<1>3. \A o, p \in Registered : f[o] = f[p] => o = p
    BY <1>1
<1>4. f \in Injection(Registered, Agents)
    BY <1>2, <1>3 DEF Injection, IsInjective
<1>5. IsFiniteSet(Agents)
    BY SubAgentsAssumption
<1> QED BY <1>4, <1>5, FS_Injection

\* The first runs are running: no more of them than of those.
LEMMA FirstRunsFinite ==
    /\ IsFiniteSet(Running) /\ Cardinality(Running) \in Nat
    /\ IsFiniteSet(FirstRuns) /\ Cardinality(FirstRuns) \in Nat
    /\ Cardinality(FirstRuns) <= Cardinality(Running)
<1>1. Running \in SUBSET Registered /\ FirstRuns \in SUBSET Running
    BY DEF Running, FirstRuns
<1>2. IsFiniteSet(Running)
    BY <1>1, RegisteredFinite, FS_Subset
<1>3. IsFiniteSet(FirstRuns) /\ Cardinality(FirstRuns) <= Cardinality(Running)
    BY <1>1, <1>2, FS_Subset
<1> QED BY <1>2, <1>3, FS_CardinalityType

LEMMA LedgerFinite ==
    /\ IsFiniteSet(Pending) /\ Cardinality(Pending) \in Nat
    /\ IsFiniteSet(Started) /\ Cardinality(Started) \in Nat
<1>1. Pending \in SUBSET Agents /\ Started \in SUBSET Agents /\ IsFiniteSet(Agents)
    BY SubAgentsAssumption DEF Pending, Started
<1>2. IsFiniteSet(Pending) /\ IsFiniteSet(Started)
    BY <1>1, FS_Subset
<1> QED BY <1>2, FS_CardinalityType

\* Where no first run begins, and no admission ends, the cap stands.
LEMMA CapStands ==
    ASSUME TypeOK, SpawnsWithinCap, FirstRuns' \subseteq FirstRuns, reserved' = reserved
    PROVE  SpawnsWithinCap'
<1>1. IsFiniteSet(FirstRuns) /\ Cardinality(FirstRuns) \in Nat
    BY FirstRunsFinite
<1>2. FirstRuns' \in SUBSET FirstRuns
    OBVIOUS
<1>3. IsFiniteSet(FirstRuns') /\ Cardinality(FirstRuns') <= Cardinality(FirstRuns)
    BY <1>1, <1>2, FS_Subset
<1>4. Cardinality(FirstRuns') \in Nat
    BY <1>3, FS_CardinalityType
<1>5. reserved + Cardinality(FirstRuns) <= MaxConcurrent
    BY DEF SpawnsWithinCap, FirstRuns
<1>6. reserved' + Cardinality(FirstRuns') <= MaxConcurrent
    BY <1>1, <1>3, <1>4, <1>5, SubAgentsAssumption DEF TypeOK
<1> QED BY <1>6 DEF SpawnsWithinCap, FirstRuns

\* Where no spawn moves, the ledger is as exact as it was.
LEMMA LedgerStands == ASSUME LedgerExact, UNCHANGED spawn PROVE LedgerExact'
BY DEF LedgerExact, spawn

-----------------------------------------------------------------------------
(* The inductive invariant *)

LEMMA InitInv == Init => Inv
<1> SUFFICES ASSUME Init PROVE Inv
    OBVIOUS
<1>1. TypeOK
    BY SubAgentsAssumption DEF Init, TypeOK, States, NoObject, Places
<1>2. LedgerExact
    <2>1. Pending = {} /\ Started = {}
        BY DEF Init, Pending, Started
    <2> QED BY <2>1, FS_EmptySet DEF Init, LedgerExact, Pending, Started
<1>3. SpawnsWithinCap
    <2>1. FirstRuns = {}
        BY DEF Init, FirstRuns, Running, Registered, NoObject
    <2>2. MaxConcurrent \in Nat
        BY SubAgentsAssumption
    <2>3. reserved + Cardinality(FirstRuns) <= MaxConcurrent
        BY <2>1, <2>2, FS_EmptySet DEF Init
    <2> QED BY <2>3 DEF SpawnsWithinCap, FirstRuns
<1>4. LoopStates
    BY DEF Init, LoopStates, NoObject
<1>5. Unborn
    BY DEF Init, Unborn, Objects, Readers
<1> QED BY <1>1, <1>2, <1>3, <1>4, <1>5 DEF Inv

-----------------------------------------------------------------------------
(* What a step does to one object *)

\* The keys of the state.
LEMMA Keys ==
    /\ \A a \in Agents : <<a, 1>> \in Objects
    /\ \A o \in Objects : o[1] \in Agents
    /\ \A r \in Readers : r[1] \in Agents /\ <<r[1], 1>> \in Objects
    /\ \A r \in Readers : \A n \in Numbers(r[1]) : <<r[1], n>> \in Objects
BY SubAgentsAssumption DEF Objects, Numbers, Readers

LEMMA Becoming ==
    ASSUME TypeOK, NEW o \in Objects, NEW state \in States, Becomes(o, state)
    PROVE  /\ object' \in [Objects -> States]
           /\ object'[o] = state /\ \A p \in Objects \ {o} : object'[p] = object[p]
BY DEF TypeOK, Becomes

LEMMA Writing ==
    ASSUME TypeOK, NEW a \in Agents, NEW status, document' = Writes(a, status)
    PROVE  /\ document' \in [Agents -> {"none", "complete", "other"}]
           /\ \A b \in Agents \ {a} : document'[b] = document[b]
BY DEF TypeOK, Writes

LEMMA Releasing ==
    ASSUME TypeOK, NEW S, IsFiniteSet(S), Release(S)
    PROVE  reservations' \in [Instances -> Nat]
<1> DEFINE back(i) == Cardinality({o \in S : object[o].at = i /\ Holds(o)})
<1>1. ASSUME NEW i \in Instances PROVE back(i) \in Nat
    <2>1. {o \in S : object[o].at = i /\ Holds(o)} \in SUBSET S
        OBVIOUS
    <2> QED BY <2>1, FS_Subset, FS_CardinalityType
<1>2. reservations' = [i \in Instances |->
            IF reservations[i] > back(i) THEN reservations[i] - back(i) ELSE 0]
    BY DEF Release
<1> HIDE DEF back
<1> QED BY <1>1, <1>2 DEF TypeOK

LEMMA Stopping ==
    ASSUME TypeOK, NEW o \in Objects
    PROVE  /\ Stopped(o) \in States
           /\ Stopped(o).status = "stopped" /\ Stopped(o).first = object[o].first
           /\ [Stopped(o) EXCEPT !.released = TRUE] \in States
           /\ [Stopped(o) EXCEPT !.released = TRUE].status = "stopped"
           /\ [Stopped(o) EXCEPT !.released = TRUE].first = object[o].first
           /\ [object[o] EXCEPT !.released = TRUE] \in States
           /\ [object[o] EXCEPT !.released = TRUE].status = object[o].status
           /\ [object[o] EXCEPT !.released = TRUE].first = object[o].first
           /\ [object[o] EXCEPT !.released = TRUE].loop = object[o].loop
<1>1. object[o] \in States
    BY DEF TypeOK
<1> QED BY <1>1 DEF Stopped, Aborted, States

\* A registered agent's object goes into another state of the kind Inv asks
\* for, and begins no first run.
LEMMA ObjectMoves ==
    ASSUME Inv, NEW o \in Objects, NEW state \in States, Becomes(o, state),
           UNCHANGED <<spawn, active, seen>>,
           reservations' \in [Instances -> Nat],
           UNCHANGED document \/ \E status : document' = Writes(o[1], status),
           stage[o[1]] = "registered",
           state.status = "running" => state.loop # "none",
           state.status = "complete" => state.loop = "none",
           state.status = "running" /\ state.first => object[o].status = "running" /\ object[o].first
    PROVE  Inv'
<1> USE DEF Inv
<1>1. /\ object' \in [Objects -> States]
      /\ object'[o] = state /\ \A p \in Objects \ {o} : object'[p] = object[p]
    BY Becoming
<1>2. /\ document' \in [Agents -> {"none", "complete", "other"}]
      /\ \A b \in Agents \ {o[1]} : document'[b] = document[b]
    <2>1. CASE UNCHANGED document
        BY <2>1 DEF TypeOK
    <2>2. ASSUME NEW status, document' = Writes(o[1], status)
          PROVE  /\ document' \in [Agents -> {"none", "complete", "other"}]
                 /\ \A b \in Agents \ {o[1]} : document'[b] = document[b]
        BY <2>2, Writing, Keys
    <2> QED BY <2>1, <2>2
<1>3. TypeOK'
    BY <1>1, <1>2 DEF TypeOK, spawn
<1>4. LedgerExact'
    BY LedgerStands
<1>5. SpawnsWithinCap'
    <2>1. FirstRuns' \subseteq FirstRuns
        BY <1>1 DEF FirstRuns, Running, Registered
    <2> QED BY <2>1, CapStands DEF spawn
<1>6. LoopStates'
    BY <1>1 DEF LoopStates
<1>7. Unborn'
    BY <1>1, <1>2 DEF Unborn, spawn
<1> QED BY <1>3, <1>4, <1>5, <1>6, <1>7

-----------------------------------------------------------------------------
(* The steps *)

LEMMA StepInv == Inv /\ [Next]_vars => Inv'
<1> SUFFICES ASSUME Inv, [Next]_vars PROVE Inv'
    OBVIOUS
<1> USE DEF Inv
<1>1. ASSUME NEW a \in Agents, Assign(a) PROVE Inv'
    <2>1. TypeOK'
        BY <1>1, SubAgentsAssumption DEF Assign, To, TypeOK, LeastLoaded, Places
    <2>2. LedgerExact'
        <3>1. Pending' = Pending
            BY <1>1 DEF Assign, To, Pending, TypeOK
        <3>2. Started' = Started
            BY <1>1 DEF Assign, To, Started, TypeOK
        <3>3. reserved = Cardinality(Pending) /\ spawned = Cardinality(Started)
            BY DEF LedgerExact, Pending, Started
        <3>4. reserved' = Cardinality(Pending') /\ spawned' = Cardinality(Started')
            BY <1>1, <3>1, <3>2, <3>3, LedgerFinite, FS_AddElement, FS_RemoveElement DEF Assign, To
        <3> QED BY <3>4 DEF LedgerExact, Pending, Started
    <2>3. SpawnsWithinCap'
        <3>1. FirstRuns' \subseteq FirstRuns /\ reserved' = reserved
            BY <1>1 DEF Assign, To, FirstRuns, Running, Registered
        <3> QED BY <3>1, CapStands
    <2>4. LoopStates'
        BY <1>1 DEF Assign, To, LoopStates
    <2>5. Unborn'
        BY <1>1, Keys DEF Assign, To, Unborn, TypeOK
    <2> QED BY <2>1, <2>2, <2>3, <2>4, <2>5
<1>2. ASSUME NEW a \in Agents, Admit(a) PROVE Inv'
    <2>1. TypeOK'
        BY <1>2, SubAgentsAssumption DEF Admit, To, MayRun, TypeOK, LeastLoaded, Places
    <2>2. LedgerExact'
        <3>1. Pending' = Pending \cup {a} /\ a \notin Pending
            BY <1>2 DEF Admit, To, MayRun, Pending, TypeOK
        <3>2. Started' = Started \cup {a} /\ a \notin Started
            BY <1>2 DEF Admit, To, MayRun, Started, TypeOK
        <3>3. reserved = Cardinality(Pending) /\ spawned = Cardinality(Started)
            BY DEF LedgerExact, Pending, Started
        <3>4. reserved' = Cardinality(Pending') /\ spawned' = Cardinality(Started')
            BY <1>2, <3>1, <3>2, <3>3, LedgerFinite, FS_AddElement, FS_RemoveElement DEF Admit, To, MayRun
        <3> QED BY <3>4 DEF LedgerExact, Pending, Started
    <2>3. SpawnsWithinCap'
        <3>1. FirstRuns' = FirstRuns
            BY <1>2 DEF Admit, To, FirstRuns, Running, Registered
        <3>2. Cardinality(Running) + reserved < MaxConcurrent /\ reserved' = reserved + 1
            BY <1>2 DEF Admit, MayRun
        <3>3. reserved' + Cardinality(FirstRuns') <= MaxConcurrent
            BY <3>1, <3>2, FirstRunsFinite, SubAgentsAssumption DEF TypeOK
        <3> QED BY <3>3 DEF SpawnsWithinCap, FirstRuns
    <2>4. LoopStates'
        BY <1>2 DEF Admit, To, MayRun, LoopStates
    <2>5. Unborn'
        BY <1>2, Keys DEF Admit, To, MayRun, Unborn, TypeOK
    <2> QED BY <2>1, <2>2, <2>3, <2>4, <2>5
<1>3. ASSUME NEW a \in Agents, Refuse(a) PROVE Inv'
    <2>1. TypeOK'
        BY <1>3, SubAgentsAssumption DEF Refuse, To, TypeOK, LeastLoaded, Places
    <2>2. LedgerExact'
        <3>1. Pending' = Pending
            BY <1>3 DEF Refuse, To, Pending, TypeOK
        <3>2. Started' = Started
            BY <1>3 DEF Refuse, To, Started, TypeOK
        <3>3. reserved = Cardinality(Pending) /\ spawned = Cardinality(Started)
            BY DEF LedgerExact, Pending, Started
        <3>4. reserved' = Cardinality(Pending') /\ spawned' = Cardinality(Started')
            BY <1>3, <3>1, <3>2, <3>3, LedgerFinite, FS_AddElement, FS_RemoveElement DEF Refuse, To
        <3> QED BY <3>4 DEF LedgerExact, Pending, Started
    <2>3. SpawnsWithinCap'
        <3>1. FirstRuns' \subseteq FirstRuns /\ reserved' = reserved
            BY <1>3 DEF Refuse, To, FirstRuns, Running, Registered
        <3> QED BY <3>1, CapStands
    <2>4. LoopStates'
        BY <1>3 DEF Refuse, To, LoopStates
    <2>5. Unborn'
        BY <1>3, Keys DEF Refuse, To, Unborn, TypeOK
    <2> QED BY <2>1, <2>2, <2>3, <2>4, <2>5
<1>4. ASSUME NEW a \in Agents, Throw(a) PROVE Inv'
    <2>1. TypeOK'
        <3>1. Pending # {} /\ reserved = Cardinality(Pending)
            BY <1>4 DEF Throw, To, Freed, Pending, LedgerExact
        <3>2. reserved' \in Nat
            BY <1>4, <3>1, LedgerFinite, FS_EmptySet DEF Throw, To, Freed
        <3> QED BY <1>4, <3>2 DEF Throw, To, Freed, TypeOK
    <2>2. LedgerExact'
        <3>1. Pending' = Pending \ {a} /\ a \in Pending
            BY <1>4 DEF Throw, To, Freed, Pending, TypeOK
        <3>2. Started' = Started
            BY <1>4 DEF Throw, To, Freed, Started, TypeOK
        <3>3. reserved = Cardinality(Pending) /\ spawned = Cardinality(Started)
            BY DEF LedgerExact, Pending, Started
        <3>4. reserved' = Cardinality(Pending') /\ spawned' = Cardinality(Started')
            BY <1>4, <3>1, <3>2, <3>3, LedgerFinite, FS_AddElement, FS_RemoveElement DEF Throw, To, Freed
        <3> QED BY <3>4 DEF LedgerExact, Pending, Started
    <2>3. SpawnsWithinCap'
        <3>1. FirstRuns' = FirstRuns /\ reserved' = reserved - 1
            BY <1>4 DEF Throw, To, Freed, FirstRuns, Running, Registered
        <3>2. reserved + Cardinality(FirstRuns) <= MaxConcurrent
            BY DEF SpawnsWithinCap, FirstRuns
        <3>3. reserved' + Cardinality(FirstRuns') <= MaxConcurrent
            BY <3>1, <3>2, FirstRunsFinite, SubAgentsAssumption DEF TypeOK
        <3> QED BY <3>3 DEF SpawnsWithinCap, FirstRuns
    <2>4. LoopStates'
        BY <1>4 DEF Throw, To, Freed, LoopStates
    <2>5. Unborn'
        BY <1>4, Keys DEF Throw, To, Freed, Unborn, TypeOK
    <2> QED BY <2>1, <2>2, <2>3, <2>4, <2>5
<1>5. ASSUME NEW a \in Agents, Register(a) PROVE Inv'
    <2>0. PICK p \in Places, state \in States :
              /\ reservations' = IF p = place[a] THEN reservations ELSE Less(place[a])
              /\ Becomes(<<a, 1>>, state)
              /\ object' \in [Objects -> States]
              /\ object'[<<a, 1>>] = state /\ \A q \in Objects \ {<<a, 1>>} : object'[q] = object[q]
              /\ state.status = "running" /\ state.loop = "running"
        <3>1. PICK p \in Places :
              /\ reservations' = IF p = place[a] THEN reservations ELSE Less(place[a])
              /\ Becomes(<<a, 1>>, [NoObject EXCEPT
                    !.status = "running", !.loop = "running", !.signal = "live",
                    !.at = p, !.booked = (p = place[a]), !.first = TRUE])
            BY <1>5 DEF Register
        <3> DEFINE state == [NoObject EXCEPT
                    !.status = "running", !.loop = "running", !.signal = "live",
                    !.at = p, !.booked = (p = place[a]), !.first = TRUE]
        <3>2. state \in States /\ state.status = "running" /\ state.loop = "running"
            BY DEF NoObject, States
        <3> HIDE DEF state
        <3>3. Becomes(<<a, 1>>, state)
            BY <3>1 DEF state
        <3> QED BY <3>1, <3>2, <3>3, Becoming, Keys
    <2>1. TypeOK'
        <3>1. Pending # {} /\ reserved = Cardinality(Pending)
            BY <1>5 DEF Register, Pending, LedgerExact
        <3>2. reserved' \in Nat
            BY <1>5, <3>1, LedgerFinite, FS_EmptySet DEF Register, Freed
        <3>3. reservations' \in [Instances -> Nat]
            BY <2>0 DEF Less, TypeOK
        <3>4. document' \in [Agents -> {"none", "complete", "other"}]
            BY <1>5, Writing DEF Register
        <3>5. stage' \in [Agents -> {"none", "assigned", "admitted", "refused", "thrown", "registered"}]
            BY <1>5 DEF Register, To, TypeOK
        <3>6. place' \in [Agents -> Places] /\ active' \in [Agents -> Nat]
            BY <1>5 DEF Register, TypeOK, Places
        <3> QED BY <1>5, <2>0, <3>2, <3>3, <3>4, <3>5, <3>6 DEF Register, TypeOK
    <2>2. LedgerExact'
        <3>1. Pending' = Pending \ {a} /\ a \in Pending
            BY <1>5 DEF Register, To, Freed, Pending, TypeOK
        <3>2. Started' = Started
            BY <1>5 DEF Register, To, Freed, Started, TypeOK
        <3>3. reserved = Cardinality(Pending) /\ spawned = Cardinality(Started)
            BY DEF LedgerExact, Pending, Started
        <3>4. reserved' = Cardinality(Pending') /\ spawned' = Cardinality(Started')
            BY <1>5, <3>1, <3>2, <3>3, LedgerFinite, FS_AddElement, FS_RemoveElement DEF Register, To, Freed
        <3> QED BY <3>4 DEF LedgerExact, Pending, Started
    <2>3. SpawnsWithinCap'
        <3> DEFINE F == FirstRuns
        <3>0. active' = [active EXCEPT ![a] = 1] /\ reserved' = reserved - 1
            BY <1>5 DEF Register, Freed
        <3>1. FirstRuns' \in SUBSET (F \cup {<<a, 1>>})
            <4>1. ASSUME NEW o \in FirstRuns', o # <<a, 1>> PROVE o \in FirstRuns
                <5>1. o \in Objects /\ object'[o] = object[o]
                    BY <4>1, <2>0 DEF FirstRuns, Running, Registered
                <5>2. o[1] # a
                    BY <4>1, <3>0 DEF FirstRuns, Running, Registered, TypeOK, Objects
                <5> QED BY <4>1, <5>1, <5>2, <3>0, Keys DEF FirstRuns, Running, Registered, TypeOK
            <4> QED BY <4>1
        <3>2. IsFiniteSet(F) /\ Cardinality(F) \in Nat
            BY FirstRunsFinite
        <3>3. reserved + Cardinality(F) <= MaxConcurrent
            BY DEF SpawnsWithinCap, FirstRuns
        <3> HIDE DEF F
        <3>4. /\ IsFiniteSet(F \cup {<<a, 1>>})
              /\ Cardinality(F \cup {<<a, 1>>}) = IF <<a, 1>> \in F THEN Cardinality(F) ELSE Cardinality(F) + 1
            BY <3>2, FS_AddElement
        <3>5. /\ IsFiniteSet(FirstRuns')
              /\ Cardinality(FirstRuns') <= Cardinality(F \cup {<<a, 1>>})
            BY <3>1, <3>4, FS_Subset
        <3>6. Cardinality(FirstRuns') \in Nat
            BY <3>5, FS_CardinalityType
        <3>7. reserved' + Cardinality(FirstRuns') <= MaxConcurrent
            BY <3>0, <3>2, <3>3, <3>4, <3>5, <3>6, SubAgentsAssumption DEF TypeOK
        <3> QED BY <3>7 DEF SpawnsWithinCap, FirstRuns
    <2>4. LoopStates'
        BY <1>5, Becoming, <2>0 DEF Register, To, Freed, LoopStates
    <2>5. Unborn'
        BY <1>5, Keys, <2>0, Writing DEF Register, To, Freed, Unborn, TypeOK
    <2> QED BY <2>1, <2>2, <2>3, <2>4, <2>5
<1>6. ASSUME NEW o \in Objects, LoopReturns(o) PROVE Inv'
    <2> DEFINE state == [object[o] EXCEPT !.loop = "settling"]
    <2>1. object[o] \in States /\ Becomes(o, state)
        BY <1>6 DEF LoopReturns, TypeOK
    <2>2. state \in States /\ stage[o[1]] = "registered"
        <3>1. stage[o[1]] = "registered"
            BY <1>6, Keys DEF LoopReturns, Unborn, NoObject
        <3>2. state \in States
            BY <1>6, <2>1 DEF States
        <3> QED BY <3>1, <3>2
    <2>3. /\ state.status = "running" => state.loop # "none"
          /\ state.status = "complete" => state.loop = "none"
          /\ state.status = "running" /\ state.first => object[o].status = "running" /\ object[o].first
        BY <1>6, <2>1 DEF LoopReturns, States, LoopStates
    <2>4. reservations' \in [Instances -> Nat]
        BY <1>6 DEF LoopReturns, TypeOK
    <2>5. UNCHANGED <<spawn, active, seen>>
        BY <1>6 DEF LoopReturns
    <2>6. UNCHANGED document \/ \E status : document' = Writes(o[1], status)
        BY <1>6 DEF LoopReturns
    <2> HIDE DEF state
    <2> QED BY <2>1, <2>2, <2>3, <2>4, <2>5, <2>6, ObjectMoves
<1>7. ASSUME NEW o \in Objects, LoopStops(o) PROVE Inv'
    <2> DEFINE state == [object[o] EXCEPT !.loop = "none", !.signal = "none", !.released = TRUE, !.status = "stopped"]
    <2>1. object[o] \in States /\ Becomes(o, state)
        BY <1>7 DEF LoopStops, Ended, TypeOK
    <2>2. state \in States /\ stage[o[1]] = "registered"
        <3>1. stage[o[1]] = "registered"
            BY <1>7, Keys DEF LoopStops, Ended, Unborn, NoObject
        <3>2. state \in States
            BY <1>7, <2>1 DEF States
        <3> QED BY <3>1, <3>2
    <2>3. /\ state.status = "running" => state.loop # "none"
          /\ state.status = "complete" => state.loop = "none"
          /\ state.status = "running" /\ state.first => object[o].status = "running" /\ object[o].first
        BY <1>7, <2>1 DEF LoopStops, Ended, States, LoopStates
    <2>4. reservations' \in [Instances -> Nat]
        BY <1>7, Releasing, FS_Singleton DEF LoopStops, Ended
    <2>5. UNCHANGED <<spawn, active, seen>>
        BY <1>7 DEF LoopStops, Ended
    <2>6. UNCHANGED document \/ \E status : document' = Writes(o[1], status)
        BY <1>7 DEF LoopStops, Ended
    <2> HIDE DEF state
    <2> QED BY <2>1, <2>2, <2>3, <2>4, <2>5, <2>6, ObjectMoves
<1>8. ASSUME NEW o \in Objects, Settled(o) PROVE Inv'
    <2> DEFINE state == [object[o] EXCEPT !.loop = "none", !.signal = "none", !.released = TRUE, !.status = "complete"]
    <2>1. object[o] \in States /\ Becomes(o, state)
        BY <1>8 DEF Settled, Ended, TypeOK
    <2>2. state \in States /\ stage[o[1]] = "registered"
        <3>1. stage[o[1]] = "registered"
            BY <1>8, Keys DEF Settled, Ended, Unborn, NoObject
        <3>2. state \in States
            BY <1>8, <2>1 DEF States
        <3> QED BY <3>1, <3>2
    <2>3. /\ state.status = "running" => state.loop # "none"
          /\ state.status = "complete" => state.loop = "none"
          /\ state.status = "running" /\ state.first => object[o].status = "running" /\ object[o].first
        BY <1>8, <2>1 DEF Settled, Ended, States, LoopStates
    <2>4. reservations' \in [Instances -> Nat]
        BY <1>8, Releasing, FS_Singleton DEF Settled, Ended
    <2>5. UNCHANGED <<spawn, active, seen>>
        BY <1>8 DEF Settled, Ended
    <2>6. UNCHANGED document \/ \E status : document' = Writes(o[1], status)
        BY <1>8 DEF Settled, Ended
    <2> HIDE DEF state
    <2> QED BY <2>1, <2>2, <2>3, <2>4, <2>5, <2>6, ObjectMoves
<1>9. ASSUME NEW o \in Objects, LoopFails(o) PROVE Inv'
    <2> DEFINE state == [object[o] EXCEPT !.loop = "none", !.signal = "none", !.status = "failed"]
    <2>1. object[o] \in States /\ Becomes(o, state)
        BY <1>9 DEF LoopFails, FailedStatus, TypeOK
    <2>2. state \in States /\ stage[o[1]] = "registered"
        <3>1. stage[o[1]] = "registered"
            BY <1>9, Keys DEF LoopFails, FailedStatus, Unborn, NoObject
        <3>2. state \in States
            BY <1>9, <2>1 DEF States
        <3> QED BY <3>1, <3>2
    <2>3. /\ state.status = "running" => state.loop # "none"
          /\ state.status = "complete" => state.loop = "none"
          /\ state.status = "running" /\ state.first => object[o].status = "running" /\ object[o].first
        BY <1>9, <2>1 DEF LoopFails, FailedStatus, States, LoopStates
    <2>4. reservations' \in [Instances -> Nat]
        BY <1>9 DEF LoopFails, FailedStatus, TypeOK
    <2>5. UNCHANGED <<spawn, active, seen>>
        BY <1>9 DEF LoopFails, FailedStatus
    <2>6. UNCHANGED document \/ \E status : document' = Writes(o[1], status)
        BY <1>9 DEF LoopFails, FailedStatus
    <2> HIDE DEF state
    <2> QED BY <2>1, <2>2, <2>3, <2>4, <2>5, <2>6, ObjectMoves
<1>10. ASSUME NEW o \in Objects, StopBegins(o) PROVE Inv'
    <2> DEFINE state == [object[o] EXCEPT !.signal = Aborted(o), !.stopping = TRUE]
    <2>1. object[o] \in States /\ Becomes(o, state)
        BY <1>10 DEF StopBegins, TypeOK
    <2>2. state \in States /\ stage[o[1]] = "registered"
        <3>1. stage[o[1]] = "registered"
            BY <1>10, Keys, SubAgentsAssumption DEF StopBegins, Unborn, NoObject, Registered, Numbers, Objects
        <3>2. state \in States
            BY <1>10, <2>1 DEF States, Aborted
        <3> QED BY <3>1, <3>2
    <2>3. /\ state.status = "running" => state.loop # "none"
          /\ state.status = "complete" => state.loop = "none"
          /\ state.status = "running" /\ state.first => object[o].status = "running" /\ object[o].first
        BY <1>10, <2>1 DEF StopBegins, States, LoopStates
    <2>4. reservations' \in [Instances -> Nat]
        BY <1>10 DEF StopBegins, TypeOK
    <2>5. UNCHANGED <<spawn, active, seen>>
        BY <1>10 DEF StopBegins
    <2>6. UNCHANGED document \/ \E status : document' = Writes(o[1], status)
        BY <1>10 DEF StopBegins
    <2> HIDE DEF state
    <2> QED BY <2>1, <2>2, <2>3, <2>4, <2>5, <2>6, ObjectMoves
<1>11. ASSUME NEW o \in Objects, StopMarks(o) PROVE Inv'
    <2> DEFINE state == [object[o] EXCEPT !.stopping = FALSE, !.status = "stopped"]
    <2>1. object[o] \in States /\ Becomes(o, state)
        BY <1>11 DEF StopMarks, TypeOK
    <2>2. state \in States /\ stage[o[1]] = "registered"
        <3>1. stage[o[1]] = "registered"
            BY <1>11, Keys DEF StopMarks, Unborn, NoObject
        <3>2. state \in States
            BY <1>11, <2>1 DEF States
        <3> QED BY <3>1, <3>2
    <2>3. /\ state.status = "running" => state.loop # "none"
          /\ state.status = "complete" => state.loop = "none"
          /\ state.status = "running" /\ state.first => object[o].status = "running" /\ object[o].first
        BY <1>11, <2>1 DEF StopMarks, States, LoopStates
    <2>4. reservations' \in [Instances -> Nat]
        BY <1>11 DEF StopMarks, TypeOK
    <2>5. UNCHANGED <<spawn, active, seen>>
        BY <1>11 DEF StopMarks
    <2>6. UNCHANGED document \/ \E status : document' = Writes(o[1], status)
        BY <1>11 DEF StopMarks
    <2> HIDE DEF state
    <2> QED BY <2>1, <2>2, <2>3, <2>4, <2>5, <2>6, ObjectMoves
<1>12. ASSUME NEW o \in Objects, Resume(o) PROVE Inv'
    <2> DEFINE state == [object[o] EXCEPT !.status = "running", !.loop = "running", !.signal = "live", !.first = FALSE]
    <2>1. object[o] \in States /\ Becomes(o, state)
        BY <1>12 DEF Resume, Runs, Resumable, TypeOK
    <2>2. state \in States /\ stage[o[1]] = "registered"
        <3>1. stage[o[1]] = "registered"
            BY <1>12, Keys DEF Resume, Runs, Resumable, Unborn, NoObject
        <3>2. state \in States
            BY <1>12, <2>1 DEF States
        <3> QED BY <3>1, <3>2
    <2>3. /\ state.status = "running" => state.loop # "none"
          /\ state.status = "complete" => state.loop = "none"
          /\ state.status = "running" /\ state.first => object[o].status = "running" /\ object[o].first
        BY <1>12, <2>1 DEF Resume, Runs, Resumable, States, LoopStates
    <2>4. reservations' \in [Instances -> Nat]
        BY <1>12 DEF Resume, Runs, Resumable, TypeOK
    <2>5. UNCHANGED <<spawn, active, seen>>
        BY <1>12 DEF Resume, Runs, Resumable
    <2>6. UNCHANGED document \/ \E status : document' = Writes(o[1], status)
        BY <1>12 DEF Resume, Runs, Resumable
    <2> HIDE DEF state
    <2> QED BY <2>1, <2>2, <2>3, <2>4, <2>5, <2>6, ObjectMoves
<1>13. ASSUME NEW o \in Objects, FollowUp(o) PROVE Inv'
    <2> DEFINE state == [object[o] EXCEPT !.status = "running", !.loop = "running", !.signal = object[o].signal, !.first = FALSE]
    <2>1. object[o] \in States /\ Becomes(o, state)
        BY <1>13 DEF FollowUp, Runs, Resumable, TypeOK
    <2>2. state \in States /\ stage[o[1]] = "registered"
        <3>1. stage[o[1]] = "registered"
            BY <1>13, Keys DEF FollowUp, Runs, Resumable, Unborn, NoObject
        <3>2. state \in States
            BY <1>13, <2>1 DEF States
        <3> QED BY <3>1, <3>2
    <2>3. /\ state.status = "running" => state.loop # "none"
          /\ state.status = "complete" => state.loop = "none"
          /\ state.status = "running" /\ state.first => object[o].status = "running" /\ object[o].first
        BY <1>13, <2>1 DEF FollowUp, Runs, Resumable, States, LoopStates
    <2>4. reservations' \in [Instances -> Nat]
        BY <1>13 DEF FollowUp, Runs, Resumable, TypeOK
    <2>5. UNCHANGED <<spawn, active, seen>>
        BY <1>13 DEF FollowUp, Runs, Resumable
    <2>6. UNCHANGED document \/ \E status : document' = Writes(o[1], status)
        BY <1>13 DEF FollowUp, Runs, Resumable
    <2> HIDE DEF state
    <2> QED BY <2>1, <2>2, <2>3, <2>4, <2>5, <2>6, ObjectMoves
<1>14. ASSUME NEW o \in Objects, Evict(o) PROVE Inv'
    <2>1. TypeOK'
        BY <1>14 DEF Evict, TypeOK, spawn
    <2>2. LedgerExact'
        BY <1>14, LedgerStands DEF Evict
    <2>3. SpawnsWithinCap'
        <3>1. ASSUME NEW p \in FirstRuns' PROVE p \in FirstRuns
            <4>1. p \in Objects /\ p[1] \in Agents /\ p[2] \in Nat \ {0} /\ o[1] \in Agents
                BY SubAgentsAssumption DEF FirstRuns, Running, Registered, Objects, Numbers
            <4>2. p[1] # o[1]
                BY <1>14, <4>1 DEF Evict, FirstRuns, Running, Registered, TypeOK
            <4> QED BY <1>14, <4>1, <4>2 DEF Evict, FirstRuns, Running, Registered, TypeOK
        <3>2. reserved' = reserved
            BY <1>14 DEF Evict, spawn
        <3> QED BY <3>1, <3>2, CapStands
    <2>4. LoopStates'
        BY <1>14 DEF Evict, LoopStates
    <2>5. Unborn'
        BY <1>14, Keys DEF Evict, Unborn, spawn, TypeOK
    <2> QED BY <2>1, <2>2, <2>3, <2>4, <2>5
<1>15. ASSUME StopAll PROVE Inv'
    <2>1. \A o \in Objects :
              /\ object'[o] \in States
              /\ o \in Running => object'[o].status = "stopped"
              /\ o \notin Running => object'[o].status = object[o].status /\ object'[o].loop = object[o].loop
                                    /\ object'[o].first = object[o].first
        <3> SUFFICES ASSUME NEW o \in Objects
                     PROVE  /\ object'[o] \in States
                            /\ o \in Running => object'[o].status = "stopped"
                            /\ o \notin Running => object'[o].status = object[o].status
                                    /\ object'[o].loop = object[o].loop /\ object'[o].first = object[o].first
            OBVIOUS
        <3>1. object'[o] = IF o \in Running THEN Stopped(o) ELSE object[o]
            BY <1>15 DEF StopAll
        <3>2. object[o] \in States
            BY DEF TypeOK
        <3> QED BY <3>1, <3>2, Stopping
    <2>2. TypeOK'
        <3>1. object' \in [Objects -> States]
            <4>1. object' = [o \in Objects |-> object'[o]]
                BY <1>15 DEF StopAll
            <4> QED BY <4>1, <2>1
        <3>2. document' \in [Agents -> {"none", "complete", "other"}]
            BY <1>15 DEF StopAll, TypeOK
        <3> QED BY <1>15, <3>1, <3>2 DEF StopAll, TypeOK, spawn
    <2>3. LedgerExact'
        BY <1>15, LedgerStands DEF StopAll
    <2>4. SpawnsWithinCap'
        <3>1. FirstRuns' = {}
            <4>1. Registered' = Registered
                BY <1>15 DEF StopAll, Registered
            <4> QED BY <2>1, <4>1 DEF FirstRuns, Running, Registered
        <3>2. reserved' = reserved
            BY <1>15 DEF StopAll, spawn
        <3> QED BY <3>1, <3>2, CapStands
    <2>5. LoopStates'
        BY <2>1 DEF LoopStates
    <2>6. Unborn'
        <3>1. ASSUME NEW a \in Agents, stage[a] # "registered" PROVE document'[a] = "none"
            <4>1. \A o \in Running : o[1] # a
                BY <3>1 DEF Running, Registered, Unborn, NoObject
            <4> QED BY <1>15, <3>1, <4>1 DEF StopAll, Unborn
        <3>2. ASSUME NEW o \in Objects, stage[o[1]] # "registered" PROVE object'[o] = NoObject
            <4>1. o \notin Running
                BY <3>2 DEF Running, Registered, Unborn, NoObject
            <4> QED BY <1>15, <3>2, <4>1 DEF StopAll, Unborn
        <3> QED BY <1>15, <3>1, <3>2 DEF StopAll, Unborn, spawn
    <2> QED BY <2>2, <2>3, <2>4, <2>5, <2>6
<1>16. ASSUME DeleteTeam PROVE Inv'
    <2>1. \A o \in Objects :
              /\ object'[o] \in States
              /\ o \in Running => object'[o].status = "stopped"
              /\ o \notin Running => object'[o].status = object[o].status /\ object'[o].loop = object[o].loop
                                    /\ object'[o].first = object[o].first
        <3> SUFFICES ASSUME NEW o \in Objects
                     PROVE  /\ object'[o] \in States
                            /\ o \in Running => object'[o].status = "stopped"
                            /\ o \notin Running => object'[o].status = object[o].status
                                    /\ object'[o].loop = object[o].loop /\ object'[o].first = object[o].first
            OBVIOUS
        <3>1. object'[o] = IF o \notin Registered THEN object[o]
                           ELSE [(IF o \in Running THEN Stopped(o) ELSE object[o]) EXCEPT !.released = TRUE]
            BY <1>16 DEF DeleteTeam
        <3>2. object[o] \in States /\ (o \in Running => o \in Registered)
            BY DEF TypeOK, Running
        <3>3. CASE o \in Running
            <4>1. object'[o] = [Stopped(o) EXCEPT !.released = TRUE]
                BY <3>1, <3>2, <3>3
            <4> QED BY <4>1, <3>3, Stopping
        <3>4. CASE o \in Registered \ Running
            <4>1. object'[o] = [object[o] EXCEPT !.released = TRUE]
                BY <3>1, <3>4
            <4> QED BY <4>1, <3>4, Stopping
        <3>5. CASE o \notin Registered
            BY <3>1, <3>2, <3>5
        <3> QED BY <3>3, <3>4, <3>5
    <2>2. TypeOK'
        <3>1. object' \in [Objects -> States]
            <4>1. object' = [o \in Objects |-> object'[o]]
                BY <1>16 DEF DeleteTeam
            <4> QED BY <4>1, <2>1
        <3>2. reservations' \in [Instances -> Nat]
            BY <1>16, RegisteredFinite, Releasing DEF DeleteTeam
        <3>3. active' \in [Agents -> Nat]
            BY <1>16 DEF DeleteTeam
        <3> QED BY <1>16, <3>1, <3>2, <3>3 DEF DeleteTeam, TypeOK, spawn
    <2>3. LedgerExact'
        BY <1>16, LedgerStands DEF DeleteTeam
    <2>4. SpawnsWithinCap'
        <3>1. FirstRuns' = {}
            <4>1. \A o \in Objects : o[1] \in Agents /\ o[2] # 0
                BY SubAgentsAssumption DEF Objects, Numbers
            <4>2. Registered' = {}
                BY <1>16, <4>1 DEF DeleteTeam, Registered
            <4> QED BY <4>2 DEF FirstRuns, Running
        <3>2. reserved' = reserved
            BY <1>16 DEF DeleteTeam, spawn
        <3> QED BY <3>1, <3>2, CapStands
    <2>5. LoopStates'
        BY <2>1 DEF LoopStates
    <2>6. Unborn'
        <3>1. ASSUME NEW o \in Objects, stage[o[1]] # "registered" PROVE object'[o] = NoObject
            <4>1. o \notin Registered
                BY <3>1, Keys, SubAgentsAssumption DEF Registered, Unborn, Objects, Numbers
            <4> QED BY <1>16, <3>1, <4>1 DEF DeleteTeam, Unborn
        <3> QED BY <1>16, <3>1 DEF DeleteTeam, Unborn, spawn
    <2> QED BY <2>2, <2>3, <2>4, <2>5, <2>6
<1>17. ASSUME NEW r \in Readers, ReadDocument(r) PROVE Inv'
    <2>1. TypeOK'
        BY <1>17, Keys DEF ReadDocument, TypeOK, spawn
    <2>2. LedgerExact'
        BY <1>17, LedgerStands DEF ReadDocument
    <2>3. SpawnsWithinCap'
        BY <1>17, CapStands DEF ReadDocument, FirstRuns, Running, Registered, spawn
    <2>4. LoopStates'
        BY <1>17 DEF ReadDocument, LoopStates
    <2>5. Unborn'
        BY <1>17, Keys DEF ReadDocument, Unborn, spawn, TypeOK
    <2> QED BY <2>1, <2>2, <2>3, <2>4, <2>5
<1>18. ASSUME NEW r \in Readers, Rehydrate(r) PROVE Inv'
    <2> DEFINE a == r[1]
               state == Rehydrated(a, seen[r])
    <2>1. PICK m \in Numbers(a) : object[<<a, m>>] = NoObject /\ Becomes(<<a, m>>, state)
                                 /\ active' = [active EXCEPT ![a] = m]
        BY <1>18 DEF Rehydrate
    <2>2. a \in Agents /\ <<a, 1>> \in Objects /\ <<a, m>> \in Objects /\ m \in Nat
        BY <2>1, Keys, SubAgentsAssumption DEF Numbers
    <2>3. /\ state \in States /\ state.first = FALSE
          /\ state.status = "running" => state.loop # "none"
          /\ state.status = "complete" => state.loop = "none"
        <3>1. object[<<a, 1>>].at \in Places
            BY <2>2 DEF TypeOK, States
        <3> QED BY <3>1 DEF Rehydrated, NoObject, States
    <2>4. stage[a] = "registered"
        BY <1>18, <2>2 DEF Rehydrate, Unborn
    <2> HIDE DEF a, state
    <2>5. /\ object' \in [Objects -> States]
          /\ object'[<<a, m>>] = state /\ \A p \in Objects \ {<<a, m>>} : object'[p] = object[p]
        BY <2>1, <2>2, <2>3, Becoming
    <2>6. document' \in [Agents -> {"none", "complete", "other"}]
          /\ \A b \in Agents \ {a} : document'[b] = document[b]
        <3>1. document' = document \/ document' = Writes(a, "running")
            BY <1>18 DEF Rehydrate, a
        <3> QED BY <3>1, <2>2, Writing DEF TypeOK
    <2>7. TypeOK'
        <3>1. seen' \in [Readers -> {"none", "complete", "other"}]
            BY <1>18 DEF Rehydrate, TypeOK
        <3>2. active' \in [Agents -> Nat]
            BY <2>1, <2>2 DEF TypeOK
        <3> QED BY <1>18, <2>5, <2>6, <3>1, <3>2 DEF Rehydrate, TypeOK, spawn
    <2>8. LedgerExact'
        BY <1>18, LedgerStands DEF Rehydrate
    <2>9. SpawnsWithinCap'
        <3>1. ASSUME NEW p \in FirstRuns' PROVE p \in FirstRuns
            <4>1. p \in Objects /\ p[1] \in Agents /\ p = <<p[1], p[2]>> /\ p # <<a, m>>
                BY <2>3, <2>5 DEF FirstRuns, Running, Registered, Objects
            <4>2. p[1] # a /\ object'[p] = object[p]
                BY <2>1, <2>2, <2>5, <4>1 DEF FirstRuns, Running, Registered, TypeOK
            <4> QED BY <2>1, <2>2, <4>1, <4>2 DEF FirstRuns, Running, Registered, TypeOK
        <3>2. reserved' = reserved
            BY <1>18 DEF Rehydrate, spawn
        <3> QED BY <3>1, <3>2, CapStands
    <2>10. LoopStates'
        BY <2>3, <2>5 DEF LoopStates
    <2>11. Unborn'
        <3>1. ASSUME NEW p \in Objects, stage[p[1]] # "registered" PROVE object'[p] = NoObject
            BY <3>1, <2>2, <2>4, <2>5 DEF Unborn
        <3>2. ASSUME NEW b \in Agents, stage[b] # "registered" PROVE active'[b] = 0 /\ document'[b] = "none"
            BY <3>2, <2>1, <2>2, <2>4, <2>6 DEF Unborn, TypeOK
        <3>3. ASSUME NEW q \in Readers, stage[q[1]] # "registered" PROVE seen'[q] = "none"
            BY <1>18, <3>3 DEF Rehydrate, Unborn, TypeOK
        <3> QED BY <1>18, <3>1, <3>2, <3>3 DEF Rehydrate, Unborn, spawn
    <2> QED BY <2>7, <2>8, <2>9, <2>10, <2>11
<1>19. CASE UNCHANGED vars
    BY <1>19 DEF vars, spawn, TypeOK, LedgerExact, SpawnsWithinCap, LoopStates, Unborn, Running, Registered
<1> QED BY <1>1, <1>2, <1>3, <1>4, <1>5, <1>6, <1>7, <1>8, <1>9, <1>10, <1>11, <1>12, <1>13, <1>14, <1>15, <1>16, <1>17, <1>18, <1>19 DEF Next

-----------------------------------------------------------------------------
(* The load of an instance *)

\* What LoadNotHidden counts at an instance.
Coming(i) == {a \in Agents : place[a] = i /\ stage[a] \in {"assigned", "admitted"}}
Holding(i) == {o \in Objects : object[o].at = i /\ object[o].booked /\ ~object[o].released}
Strays(i) == {o \in Objects : object[o].at = i /\ ~object[o].booked /\ object[o].released}
Covered(i) == reservations[i] + Cardinality(Strays(i)) >= Cardinality(Coming(i)) + Cardinality(Holding(i))

\* LoadNotHidden is Covered of every instance, before a step and after it.
LEMMA LoadIsCovered ==
    /\ LoadNotHidden <=> \A i \in Instances : Covered(i)
    /\ LoadNotHidden' <=> \A i \in Instances : Covered(i)'
<1>1. \A i \in Instances : /\ Strays(i) = {o \in {o \in Objects : object[o].at = i} : ~object[o].booked /\ object[o].released}
                           /\ Holding(i) = {o \in {o \in Objects : object[o].at = i} : object[o].booked /\ ~object[o].released}
    BY DEF Strays, Holding
<1>2. \A i \in Instances : /\ Strays(i)' = {o \in {o \in Objects : object'[o].at = i} : ~object'[o].booked /\ object'[o].released}
                           /\ Holding(i)' = {o \in {o \in Objects : object'[o].at = i} : object'[o].booked /\ ~object'[o].released}
    BY DEF Strays, Holding
<1>3. LoadNotHidden <=> \A i \in Instances : Covered(i)
    BY <1>1 DEF LoadNotHidden, Covered, Coming
<1>4. LoadNotHidden' <=> \A i \in Instances : Covered(i)'
    BY <1>2 DEF LoadNotHidden, Covered, Coming
<1> QED BY <1>3, <1>4

\* There are finitely many objects.
LEMMA ObjectsFinite == IsFiniteSet(Objects)
<1> DEFINE of == [a \in Agents |-> {a} \X Numbers(a)]
           T == {{a} \X Numbers(a) : a \in Agents}
<1>1. of \in Surjection(Agents, T)
    BY DEF Surjection
<1>2. IsFiniteSet(T)
    BY <1>1, SubAgentsAssumption, FS_Surjection
<1>3. \A S \in T : IsFiniteSet(S)
    <2> SUFFICES ASSUME NEW a \in Agents PROVE IsFiniteSet({a} \X Numbers(a))
        OBVIOUS
    <2>1. IsFiniteSet(Numbers(a))
        BY SubAgentsAssumption, FS_Interval DEF Numbers
    <2>2. IsFiniteSet({a})
        BY FS_Singleton
    <2> QED BY <2>1, <2>2, FS_Product
<1>4. IsFiniteSet(UNION T)
    BY <1>2, <1>3, FS_UNION
<1> QED BY <1>4 DEF Objects

\* So what is counted of an instance is finite.
LEMMA LoadFinite ==
    ASSUME NEW i
    PROVE  /\ IsFiniteSet(Coming(i)) /\ Cardinality(Coming(i)) \in Nat
           /\ IsFiniteSet(Holding(i)) /\ Cardinality(Holding(i)) \in Nat
           /\ IsFiniteSet(Strays(i)) /\ Cardinality(Strays(i)) \in Nat
<1>1. Coming(i) \in SUBSET Agents /\ IsFiniteSet(Agents)
    BY SubAgentsAssumption DEF Coming
<1>2. Holding(i) \in SUBSET Objects /\ Strays(i) \in SUBSET Objects
    BY DEF Holding, Strays
<1>3. IsFiniteSet(Coming(i)) /\ IsFiniteSet(Holding(i)) /\ IsFiniteSet(Strays(i))
    BY <1>1, <1>2, ObjectsFinite, FS_Subset
<1> QED BY <1>3, FS_CardinalityType

\* Where no more comes or is held, and no less is reserved, the load is covered
\* as before.
LEMMA CoverStands ==
    ASSUME TypeOK, NEW i \in Instances, Covered(i),
           Coming(i)' \subseteq Coming(i), Holding(i)' \subseteq Holding(i),
           Strays(i)' = Strays(i), reservations'[i] = reservations[i]
    PROVE  Covered(i)'
<1>1. Coming(i)' \in SUBSET Coming(i) /\ Holding(i)' \in SUBSET Holding(i)
    OBVIOUS
<1>2. /\ IsFiniteSet(Coming(i)') /\ Cardinality(Coming(i)') <= Cardinality(Coming(i))
      /\ IsFiniteSet(Holding(i)') /\ Cardinality(Holding(i)') <= Cardinality(Holding(i))
    BY <1>1, LoadFinite, FS_Subset
<1>3. Cardinality(Coming(i)') \in Nat /\ Cardinality(Holding(i)') \in Nat /\ reservations[i] \in Nat
    BY <1>2, FS_CardinalityType DEF TypeOK
<1>4. reservations[i] + Cardinality(Strays(i)) >= Cardinality(Coming(i)') + Cardinality(Holding(i)')
    BY <1>2, <1>3, LoadFinite DEF Covered
<1> QED BY <1>4 DEF Covered

\* What is released is held no more if it was booked, and a stray if it was
\* not: whatever is given back for it, the rest stays covered.
LEMMA CoverReleases ==
    ASSUME TypeOK, NEW i \in Instances, Covered(i),
           NEW S, IsFiniteSet(S), S \cap Strays(i) = {},
           Coming(i)' = Coming(i), Holding(i)' = Holding(i) \ S,
           Strays(i)' = Strays(i) \cup (S \ Holding(i)),
           reservations'[i] = IF reservations[i] > Cardinality(S) THEN reservations[i] - Cardinality(S) ELSE 0
    PROVE  Covered(i)'
<1> DEFINE H == Holding(i)
           N == S \ H
           c == Cardinality(Coming(i))
           h == Cardinality(H)
           s == Cardinality(Strays(i))
           r == reservations[i]
           b == Cardinality(S \cap H)
<1>1. c \in Nat /\ h \in Nat /\ s \in Nat /\ r \in Nat /\ r + s >= c + h
    BY LoadFinite DEF TypeOK, Covered
<1>2. IsFiniteSet(S \cap H) /\ b \in Nat
    <2>1. IsFiniteSet(S \cap H)
        BY FS_Intersection
    <2> QED BY <2>1, FS_CardinalityType
<1>3. IsFiniteSet(N) /\ Cardinality(N) = Cardinality(S) - b /\ Cardinality(N) \in Nat /\ Cardinality(S) \in Nat
    <2>1. IsFiniteSet(N) /\ Cardinality(N) = Cardinality(S) - b
        BY FS_Difference
    <2> QED BY <2>1, FS_CardinalityType
<1>4. Cardinality(H \ S) = h - b
    <2>1. Cardinality(H \ S) = h - Cardinality(H \cap S) /\ H \cap S = S \cap H
        BY LoadFinite, FS_Difference
    <2> QED BY <2>1
<1>5. Cardinality(Strays(i) \cup N) = s + Cardinality(N)
    <2>1. Strays(i) \cap N = {}
        OBVIOUS
    <2>2. Cardinality(Strays(i) \cup N) = s + Cardinality(N) - Cardinality(Strays(i) \cap N)
        BY <1>3, LoadFinite, FS_Union
    <2>3. Cardinality(Strays(i) \cap N) = 0
        BY <2>1, FS_EmptySet
    <2> HIDE DEF N, s
    <2> QED BY <1>1, <1>3, <2>2, <2>3
<1>6. /\ Cardinality(Coming(i)') = c /\ Cardinality(Holding(i)') = h - b
      /\ Cardinality(Strays(i)') = s + Cardinality(N)
    BY <1>4, <1>5
<1>7. reservations'[i] = IF r > Cardinality(S) THEN r - Cardinality(S) ELSE 0
    OBVIOUS
<1> HIDE DEF H, N, c, h, s, r, b
<1>8. reservations'[i] + Cardinality(Strays(i)') >= Cardinality(Coming(i)') + Cardinality(Holding(i)')
    BY <1>1, <1>2, <1>3, <1>6, <1>7
<1> QED BY <1>8 DEF Covered

\* A step that moves no spawn, reserves and books nothing.
LEMMA LoadStands ==
    ASSUME TypeOK, LoadNotHidden, UNCHANGED <<stage, place, reservations>>,
           \A o \in Objects : /\ object'[o].at = object[o].at /\ object'[o].booked = object[o].booked
                              /\ object'[o].released = object[o].released
    PROVE  LoadNotHidden'
<1> SUFFICES ASSUME NEW i \in Instances, Covered(i) PROVE Covered(i)'
    BY LoadIsCovered
<1>1. Coming(i)' = Coming(i) /\ Holding(i)' = Holding(i) /\ Strays(i)' = Strays(i)
    BY DEF Coming, Holding, Strays
<1> QED BY <1>1, CoverStands

\* A step that releases objects, and gives back what they are at.
LEMMA LoadReleases ==
    ASSUME TypeOK, LoadNotHidden, UNCHANGED <<stage, place>>,
           NEW S \in SUBSET Objects, IsFiniteSet(S), Release(S),
           \A o \in Objects : /\ object'[o].at = object[o].at /\ object'[o].booked = object[o].booked
                              /\ object'[o].released = (object[o].released \/ o \in S)
    PROVE  LoadNotHidden'
<1> SUFFICES ASSUME NEW i \in Instances, Covered(i) PROVE Covered(i)'
    BY LoadIsCovered
<1> DEFINE R == {o \in S : object[o].at = i /\ Holds(o)}
<1>1. IsFiniteSet(R)
    <2>1. R \in SUBSET S
        OBVIOUS
    <2> QED BY <2>1, FS_Subset
<1>2. R \cap Strays(i) = {} /\ Coming(i)' = Coming(i)
    BY DEF Strays, Holds, Coming
<1>3. Holding(i)' = Holding(i) \ R
    BY DEF Holding, Holds
<1>4. Strays(i)' = Strays(i) \cup (R \ Holding(i))
    BY DEF Strays, Holding, Holds
<1>5. reservations'[i] = IF reservations[i] > Cardinality(R) THEN reservations[i] - Cardinality(R) ELSE 0
    BY DEF Release
<1> HIDE DEF R
<1> QED BY <1>1, <1>2, <1>3, <1>4, <1>5, CoverReleases

\* An object of a registered agent that stays where it is, books and releases
\* nothing.
LEMMA LoadMoves ==
    ASSUME TypeOK, LoadNotHidden, NEW o \in Objects, NEW state \in States, Becomes(o, state),
           UNCHANGED <<spawn, reservations>>,
           state.at = object[o].at, state.booked = object[o].booked, state.released = object[o].released
    PROVE  LoadNotHidden'
<1>1. object'[o] = state /\ \A p \in Objects \ {o} : object'[p] = object[p]
    BY Becoming
<1> QED BY <1>1, LoadStands DEF spawn

\* The end of a run releases its object.
LEMMA LoadEnds ==
    ASSUME TypeOK, LoadNotHidden, NEW o \in Objects,
           NEW status \in {"complete", "stopped"}, Ended(o, status)
    PROVE  LoadNotHidden'
<1> DEFINE state == [object[o] EXCEPT !.loop = "none", !.signal = "none", !.released = TRUE, !.status = status]
<1>1. object[o] \in States /\ Becomes(o, state) /\ Release({o}) /\ UNCHANGED spawn
    BY DEF Ended, TypeOK
<1>2. /\ state \in States /\ state.at = object[o].at /\ state.booked = object[o].booked
      /\ state.released = TRUE
    BY <1>1 DEF States
<1> HIDE DEF state
<1>3. object'[o] = state /\ \A p \in Objects \ {o} : object'[p] = object[p]
    BY <1>1, <1>2, Becoming
<1>4. {o} \in SUBSET Objects /\ IsFiniteSet({o})
    BY FS_Singleton
<1>5. \A p \in Objects : /\ object'[p].at = object[p].at /\ object'[p].booked = object[p].booked
                         /\ object'[p].released = (object[p].released \/ p \in {o})
    <2> SUFFICES ASSUME NEW p \in Objects
                 PROVE  /\ object'[p].at = object[p].at /\ object'[p].booked = object[p].booked
                        /\ object'[p].released = (object[p].released \/ p \in {o})
        OBVIOUS
    <2>1. object[p].released \in BOOLEAN
        BY DEF TypeOK, States
    <2> QED BY <1>2, <1>3, <2>1
<1> QED BY <1>1, <1>4, <1>5, LoadReleases DEF spawn

\* The load stays covered at every step.
LEMMA LoadStep == Inv /\ LoadNotHidden /\ [Next]_vars => LoadNotHidden'
<1> SUFFICES ASSUME Inv, LoadNotHidden, [Next]_vars PROVE LoadNotHidden'
    OBVIOUS
<1>0. TypeOK /\ Unborn
    BY DEF Inv
<1>1. ASSUME NEW a \in Agents, Assign(a) PROVE LoadNotHidden'
    <2>1. PICK p \in LeastLoaded \cup {"cloud"} :
              /\ place' = [place EXCEPT ![a] = p]
              /\ reservations' = [i \in Instances |-> reservations[i] + IF i = p THEN 1 ELSE 0]
        BY <1>1 DEF Assign
    <2>2. stage[a] = "none" /\ stage' = [stage EXCEPT ![a] = "assigned"] /\ object' = object
        BY <1>1 DEF Assign, To
    <2> SUFFICES ASSUME NEW i \in Instances, Covered(i) PROVE Covered(i)'
        BY LoadIsCovered
    <2>3. Holding(i)' = Holding(i) /\ Strays(i)' = Strays(i)
        BY <2>2 DEF Holding, Strays
    <2>4. a \notin Coming(i) /\ Coming(i)' = IF i = p THEN Coming(i) \cup {a} ELSE Coming(i)
        BY <1>0, <2>1, <2>2 DEF Coming, TypeOK
    <2>5. reservations'[i] = IF i = p THEN reservations[i] + 1 ELSE reservations[i]
        BY <1>0, <2>1 DEF TypeOK
    <2>6. CASE i = p
        <3>1. Cardinality(Coming(i)') = Cardinality(Coming(i)) + 1
            BY <2>4, <2>6, LoadFinite, FS_AddElement
        <3>2. Cardinality(Holding(i)') = Cardinality(Holding(i)) /\ Cardinality(Strays(i)') = Cardinality(Strays(i))
            BY <2>3
        <3>3. reservations[i] \in Nat /\ reservations'[i] = reservations[i] + 1
            BY <1>0, <2>5, <2>6 DEF TypeOK
        <3>4. reservations'[i] + Cardinality(Strays(i)') >= Cardinality(Coming(i)') + Cardinality(Holding(i)')
            BY <3>1, <3>2, <3>3, LoadFinite DEF Covered
        <3> QED BY <3>4 DEF Covered
    <2>7. CASE i # p
        BY <1>0, <2>3, <2>4, <2>5, <2>7, CoverStands
    <2> QED BY <2>6, <2>7
<1>2. ASSUME NEW a \in Agents, Admit(a) \/ Refuse(a) \/ Throw(a) PROVE LoadNotHidden'
    <2>1. UNCHANGED <<place, reservations, object>>
        BY <1>2 DEF Admit, Refuse, Throw
    <2>2. stage[a] \in {"assigned", "admitted"} /\ \A b \in Agents \ {a} : stage'[b] = stage[b]
        BY <1>0, <1>2 DEF Admit, Refuse, Throw, To, TypeOK
    <2> SUFFICES ASSUME NEW i \in Instances, Covered(i) PROVE Covered(i)'
        BY LoadIsCovered
    <2>3. Coming(i)' \subseteq Coming(i) /\ Holding(i)' = Holding(i) /\ Strays(i)' = Strays(i)
        BY <2>1, <2>2 DEF Coming, Holding, Strays
    <2> QED BY <1>0, <2>1, <2>3, CoverStands
<1>3. ASSUME NEW a \in Agents, Register(a) PROVE LoadNotHidden'
    <2> DEFINE state(p) == [NoObject EXCEPT
                    !.status = "running", !.loop = "running", !.signal = "live",
                    !.at = p, !.booked = (p = place[a]), !.first = TRUE]
    <2>1. PICK p \in Places :
              /\ reservations' = IF p = place[a] THEN reservations ELSE Less(place[a])
              /\ Becomes(<<a, 1>>, state(p))
        BY <1>3 DEF Register
    <2>2. /\ state(p) \in States /\ state(p).at = p
          /\ state(p).booked = (p = place[a]) /\ state(p).released = FALSE
        BY DEF NoObject, States
    <2> HIDE DEF state
    <2>3. <<a, 1>> \in Objects
        BY Keys
    <2>4. object'[<<a, 1>>] = state(p) /\ \A o \in Objects \ {<<a, 1>>} : object'[o] = object[o]
        BY <1>0, <2>1, <2>2, <2>3, Becoming
    <2>5. stage[a] = "admitted" /\ object[<<a, 1>>] = NoObject
        BY <1>0, <1>3, <2>3 DEF Register, Unborn
    <2>6. \A b \in Agents \ {a} : stage'[b] = stage[b] /\ place'[b] = place[b]
        BY <1>0, <1>3 DEF Register, To, TypeOK
    <2>7. stage'[a] = "registered"
        BY <1>0, <1>3 DEF Register, To, TypeOK
    <2> SUFFICES ASSUME NEW i \in Instances, Covered(i) PROVE Covered(i)'
        BY LoadIsCovered
    <2>8. Coming(i)' = Coming(i) \ {a} /\ (a \in Coming(i) <=> place[a] = i)
        BY <2>5, <2>6, <2>7 DEF Coming
    <2>9. <<a, 1>> \notin Holding(i) /\ <<a, 1>> \notin Strays(i)
        BY <2>5 DEF Holding, Strays, NoObject
    <2>10. Strays(i)' = Strays(i)
        BY <2>2, <2>4, <2>9 DEF Strays
    <2>11. Holding(i)' = IF p = i /\ p = place[a] THEN Holding(i) \cup {<<a, 1>>} ELSE Holding(i)
        BY <2>2, <2>3, <2>4, <2>9 DEF Holding
    <2>12. reservations[i] \in Nat
        BY <1>0 DEF TypeOK
    <2>13. CASE p = i /\ p = place[a]
        <3>1. reservations'[i] = reservations[i] /\ a \in Coming(i)
            BY <2>1, <2>8, <2>13
        <3>2. Cardinality(Coming(i)') = Cardinality(Coming(i)) - 1
            BY <2>8, <3>1, LoadFinite, FS_RemoveElement
        <3>3. Cardinality(Holding(i)') = Cardinality(Holding(i)) + 1
            BY <2>9, <2>11, <2>13, LoadFinite, FS_AddElement
        <3>4. Cardinality(Strays(i)') = Cardinality(Strays(i))
            BY <2>10
        <3>5. reservations'[i] + Cardinality(Strays(i)') >= Cardinality(Coming(i)') + Cardinality(Holding(i)')
            BY <2>12, <3>1, <3>2, <3>3, <3>4, LoadFinite DEF Covered
        <3> QED BY <3>5 DEF Covered
    <2>14. CASE p # place[a] /\ place[a] = i
        <3>1. reservations'[i] = IF reservations[i] > 0 THEN reservations[i] - 1 ELSE reservations[i]
            BY <2>1, <2>14 DEF Less
        <3>2. Cardinality(Coming(i)') = Cardinality(Coming(i)) - 1
            BY <2>8, <2>14, LoadFinite, FS_RemoveElement
        <3>3. Cardinality(Holding(i)') = Cardinality(Holding(i)) /\ Cardinality(Strays(i)') = Cardinality(Strays(i))
            BY <2>10, <2>11, <2>14
        <3>4. reservations'[i] + Cardinality(Strays(i)') >= Cardinality(Coming(i)') + Cardinality(Holding(i)')
            BY <2>12, <3>1, <3>2, <3>3, LoadFinite DEF Covered
        <3> QED BY <3>4 DEF Covered
    <2>15. CASE place[a] # i
        <3>1. reservations'[i] = reservations[i]
            BY <2>1, <2>15 DEF Less
        <3> QED BY <1>0, <2>8, <2>10, <2>11, <2>15, <3>1, CoverStands
    <2> QED BY <2>13, <2>14, <2>15
<1>4. ASSUME NEW o \in Objects, LoopReturns(o) PROVE LoadNotHidden'
    <2> DEFINE state == [object[o] EXCEPT !.loop = "settling"]
    <2>1. object[o] \in States /\ Becomes(o, state) /\ UNCHANGED <<spawn, reservations>>
        BY <1>0, <1>4 DEF LoopReturns, TypeOK
    <2>2. state \in States /\ state.at = object[o].at /\ state.booked = object[o].booked /\ state.released = object[o].released
        BY <2>1 DEF States
    <2> HIDE DEF state
    <2> QED BY <1>0, <2>1, <2>2, LoadMoves
<1>5. ASSUME NEW o \in Objects, LoopStops(o) \/ Settled(o) PROVE LoadNotHidden'
    BY <1>0, <1>5, LoadEnds DEF LoopStops, Settled
<1>6. ASSUME NEW o \in Objects, LoopFails(o) PROVE LoadNotHidden'
    <2> DEFINE state == [object[o] EXCEPT !.loop = "none", !.signal = "none", !.status = "failed"]
    <2>1. object[o] \in States /\ Becomes(o, state) /\ UNCHANGED <<spawn, reservations>>
        BY <1>0, <1>6 DEF LoopFails, FailedStatus, TypeOK
    <2>2. state \in States /\ state.at = object[o].at /\ state.booked = object[o].booked /\ state.released = object[o].released
        BY <2>1 DEF States
    <2> HIDE DEF state
    <2> QED BY <1>0, <2>1, <2>2, LoadMoves
<1>7. ASSUME NEW o \in Objects, StopBegins(o) PROVE LoadNotHidden'
    <2> DEFINE state == [object[o] EXCEPT !.signal = Aborted(o), !.stopping = TRUE]
    <2>1. object[o] \in States /\ Becomes(o, state) /\ UNCHANGED <<spawn, reservations>>
        BY <1>0, <1>7 DEF StopBegins, TypeOK
    <2>2. state \in States /\ state.at = object[o].at /\ state.booked = object[o].booked /\ state.released = object[o].released
        BY <2>1 DEF States, Aborted
    <2> HIDE DEF state
    <2> QED BY <1>0, <2>1, <2>2, LoadMoves
<1>8. ASSUME NEW o \in Objects, StopMarks(o) PROVE LoadNotHidden'
    <2> DEFINE state == [object[o] EXCEPT !.stopping = FALSE, !.status = "stopped"]
    <2>1. object[o] \in States /\ Becomes(o, state) /\ UNCHANGED <<spawn, reservations>>
        BY <1>0, <1>8 DEF StopMarks, TypeOK
    <2>2. state \in States /\ state.at = object[o].at /\ state.booked = object[o].booked /\ state.released = object[o].released
        BY <2>1 DEF States
    <2> HIDE DEF state
    <2> QED BY <1>0, <2>1, <2>2, LoadMoves
<1>9. ASSUME NEW o \in Objects, NEW signal \in {"none", "live", "aborted"}, Runs(o, signal),
             UNCHANGED <<spawn, reservations>>
      PROVE  LoadNotHidden'
    <2> DEFINE state == [object[o] EXCEPT !.status = "running", !.loop = "running", !.signal = signal, !.first = FALSE]
    <2>1. object[o] \in States /\ Becomes(o, state)
        BY <1>0, <1>9 DEF Runs, TypeOK
    <2>2. state \in States /\ state.at = object[o].at /\ state.booked = object[o].booked /\ state.released = object[o].released
        BY <2>1 DEF States
    <2> HIDE DEF state
    <2> QED BY <1>0, <1>9, <2>1, <2>2, LoadMoves
<1>10. ASSUME NEW o \in Objects, Resume(o) \/ FollowUp(o) PROVE LoadNotHidden'
    <2>1. object[o].signal \in {"none", "live", "aborted"}
        BY <1>0 DEF TypeOK, States
    <2> QED BY <1>9, <1>10, <2>1 DEF Resume, FollowUp
<1>11. ASSUME NEW o \in Objects, Evict(o) PROVE LoadNotHidden'
    BY <1>0, <1>11, LoadStands DEF Evict, spawn
<1>12. ASSUME StopAll PROVE LoadNotHidden'
    <2>1. ASSUME NEW o \in Objects
          PROVE  /\ object'[o].at = object[o].at /\ object'[o].booked = object[o].booked
                 /\ object'[o].released = object[o].released
        <3>1. object'[o] = (IF o \in Running THEN Stopped(o) ELSE object[o]) /\ object[o] \in States
            BY <1>0, <1>12 DEF StopAll, TypeOK
        <3> QED BY <3>1 DEF Stopped, States
    <2> QED BY <1>0, <1>12, <2>1, LoadStands DEF StopAll, spawn
<1>13. ASSUME DeleteTeam PROVE LoadNotHidden'
    <2>1. ASSUME NEW o \in Objects
          PROVE  /\ object'[o].at = object[o].at /\ object'[o].booked = object[o].booked
                 /\ object'[o].released = (object[o].released \/ o \in Registered)
        <3> DEFINE now == IF o \in Running THEN Stopped(o) ELSE object[o]
        <3>1. object'[o] = (IF o \notin Registered THEN object[o] ELSE [now EXCEPT !.released = TRUE])
            BY <1>13 DEF DeleteTeam
        <3>2. object[o] \in States
            BY <1>0 DEF TypeOK
        <3>3. /\ now \in States /\ now.at = object[o].at /\ now.booked = object[o].booked
            BY <1>0, <3>2, Stopping DEF Stopped, States
        <3> HIDE DEF now
        <3> QED BY <3>1, <3>2, <3>3 DEF States
    <2>2. Registered \in SUBSET Objects /\ IsFiniteSet(Registered)
        BY RegisteredFinite DEF Registered
    <2> QED BY <1>0, <1>13, <2>1, <2>2, LoadReleases DEF DeleteTeam, spawn
<1>14. ASSUME NEW r \in Readers, ReadDocument(r) PROVE LoadNotHidden'
    BY <1>0, <1>14, LoadStands DEF ReadDocument, spawn
<1>15. ASSUME NEW r \in Readers, Rehydrate(r) PROVE LoadNotHidden'
    <2> DEFINE state == Rehydrated(r[1], seen[r])
    <2>1. PICK n \in Numbers(r[1]) : object[<<r[1], n>>] = NoObject /\ Becomes(<<r[1], n>>, state)
        BY <1>15 DEF Rehydrate
    <2>2. state \in States /\ state.booked = FALSE /\ state.released = FALSE
        <3>1. object[<<r[1], 1>>].at \in Places
            BY <1>0, Keys DEF TypeOK, States
        <3> QED BY <3>1 DEF Rehydrated, NoObject, States
    <2> HIDE DEF state
    <2> DEFINE o == <<r[1], n>>
    <2>3. o \in Objects /\ object[o].booked = FALSE /\ object[o].released = FALSE
        BY <2>1, Keys DEF NoObject
    <2>4. object'[o] = state /\ \A p \in Objects \ {o} : object'[p] = object[p]
        BY <1>0, <2>1, <2>2, <2>3, Becoming
    <2> HIDE DEF o
    <2> SUFFICES ASSUME NEW i \in Instances, Covered(i) PROVE Covered(i)'
        BY LoadIsCovered
    <2>5. Holding(i)' = Holding(i) /\ Strays(i)' = Strays(i)
        BY <2>2, <2>3, <2>4 DEF Holding, Strays
    <2>6. Coming(i)' = Coming(i) /\ reservations' = reservations
        BY <1>15 DEF Rehydrate, Coming, spawn
    <2> QED BY <1>0, <2>5, <2>6, CoverStands
<1>16. CASE UNCHANGED vars
    BY <1>0, <1>16, LoadStands DEF vars, spawn
<1> QED BY <1>1, <1>2, <1>3, <1>4, <1>5, <1>6, <1>7, <1>8, <1>10, <1>11, <1>12, <1>13, <1>14, <1>15, <1>16 DEF Next

-----------------------------------------------------------------------------
(* Theorems *)

\* In every reachable state of a conversation's sub-agents the ledger and the
\* loops are as Inv says.
THEOREM Invariance == Spec => []Inv
<1>1. Init => Inv
    BY InitInv
<1>2. Inv /\ [Next]_vars => Inv'
    BY StepInv
<1> QED BY <1>1, <1>2, PTL DEF Spec

\* The state of the sub-agents (activeSubAgents, the ledger, the reservations)
\* keeps its shape.
THEOREM TypeCorrect == Spec => []TypeOK
<1>1. Inv => TypeOK
    BY DEF Inv
<1> QED BY <1>1, Invariance, PTL

\* The ledger of admitSpawn is neither short of a release() nor one over.
THEOREM LedgerIsExact == Spec => []LedgerExact
<1>1. Inv => LedgerExact
    BY DEF Inv
<1> QED BY <1>1, Invariance, PTL

\* However many spawns pass admitSpawn side by side, the first runs of a
\* conversation stay within maxConcurrentPerConversation.
THEOREM CapHolds == Spec => []SpawnsWithinCap
<1>1. Inv => SpawnsWithinCap
    BY DEF Inv
<1> QED BY <1>1, Invariance, PTL

\* What counts against the cap has a loop that will end.
THEOREM NoGhosts == Spec => []RunningHasLoop
<1>1. Inv => RunningHasLoop
    BY DEF Inv, LoopStates, RunningHasLoop, Running, Registered
<1> QED BY <1>1, Invariance, PTL

\* No object gets a second loop while its first goes on, stopped or not.
THEOREM OneLoop == Spec => OneLoopEach
<1> DEFINE Step == \A o \in Objects :
        object[o].status # "running" /\ object'[o].status = "running" => object[o].loop = "none"
<1>1. Inv /\ [Next]_vars => [Step]_vars
    <2> SUFFICES ASSUME Inv, [Next]_vars, NEW o \in Objects,
                        object[o].status # "running", object'[o].status = "running"
                 PROVE  object[o].loop = "none"
        OBVIOUS
    <2> USE DEF Inv
    <2>1. ASSUME NEW a \in Agents, Assign(a) PROVE object[o].loop = "none"
        BY <2>1 DEF Assign
    <2>2. ASSUME NEW a \in Agents, Admit(a) PROVE object[o].loop = "none"
        BY <2>2 DEF Admit
    <2>3. ASSUME NEW a \in Agents, Refuse(a) PROVE object[o].loop = "none"
        BY <2>3 DEF Refuse
    <2>4. ASSUME NEW a \in Agents, Throw(a) PROVE object[o].loop = "none"
        BY <2>4 DEF Throw
    <2>5. ASSUME NEW a \in Agents, Register(a) PROVE object[o].loop = "none"
        <3>1. o = <<a, 1>>
            BY <2>5, Keys DEF Register, Becomes, TypeOK
        <3> QED BY <2>5, <3>1 DEF Register, Unborn, NoObject
    <2>6. ASSUME NEW p \in Objects, LoopReturns(p) PROVE object[o].loop = "none"
        <3>1. CASE o = p
            <4>1. object[o] \in States /\ object'[o] = [object[o] EXCEPT !.loop = "settling"]
                BY <2>6, <3>1 DEF LoopReturns, Becomes, TypeOK
            <4> QED BY <4>1 DEF States
        <3>2. CASE o # p
            BY <2>6, <3>2 DEF LoopReturns, Becomes, TypeOK
        <3> QED BY <3>1, <3>2
    <2>7. ASSUME NEW p \in Objects, LoopStops(p) PROVE object[o].loop = "none"
        <3>1. CASE o = p
            <4>1. object[o] \in States /\ object'[o] = [object[o] EXCEPT !.loop = "none", !.signal = "none", !.released = TRUE, !.status = "stopped"]
                BY <2>7, <3>1 DEF LoopStops, Ended, Becomes, TypeOK
            <4> QED BY <4>1 DEF States
        <3>2. CASE o # p
            BY <2>7, <3>2 DEF LoopStops, Ended, Becomes, TypeOK
        <3> QED BY <3>1, <3>2
    <2>8. ASSUME NEW p \in Objects, Settled(p) PROVE object[o].loop = "none"
        <3>1. CASE o = p
            <4>1. object[o] \in States /\ object'[o] = [object[o] EXCEPT !.loop = "none", !.signal = "none", !.released = TRUE, !.status = "complete"]
                BY <2>8, <3>1 DEF Settled, Ended, Becomes, TypeOK
            <4> QED BY <4>1 DEF States
        <3>2. CASE o # p
            BY <2>8, <3>2 DEF Settled, Ended, Becomes, TypeOK
        <3> QED BY <3>1, <3>2
    <2>9. ASSUME NEW p \in Objects, LoopFails(p) PROVE object[o].loop = "none"
        <3>1. CASE o = p
            <4>1. object[o] \in States /\ object'[o] = [object[o] EXCEPT !.loop = "none", !.signal = "none", !.status = "failed"]
                BY <2>9, <3>1 DEF LoopFails, FailedStatus, Becomes, TypeOK
            <4> QED BY <4>1 DEF States
        <3>2. CASE o # p
            BY <2>9, <3>2 DEF LoopFails, FailedStatus, Becomes, TypeOK
        <3> QED BY <3>1, <3>2
    <2>10. ASSUME NEW p \in Objects, StopBegins(p) PROVE object[o].loop = "none"
        <3>1. CASE o = p
            <4>1. object[o] \in States /\ object'[o] = [object[o] EXCEPT !.signal = Aborted(o), !.stopping = TRUE]
                BY <2>10, <3>1 DEF StopBegins, Becomes, TypeOK
            <4> QED BY <4>1 DEF States
        <3>2. CASE o # p
            BY <2>10, <3>2 DEF StopBegins, Becomes, TypeOK
        <3> QED BY <3>1, <3>2
    <2>11. ASSUME NEW p \in Objects, StopMarks(p) PROVE object[o].loop = "none"
        <3>1. CASE o = p
            <4>1. object[o] \in States /\ object'[o] = [object[o] EXCEPT !.stopping = FALSE, !.status = "stopped"]
                BY <2>11, <3>1 DEF StopMarks, Becomes, TypeOK
            <4> QED BY <4>1 DEF States
        <3>2. CASE o # p
            BY <2>11, <3>2 DEF StopMarks, Becomes, TypeOK
        <3> QED BY <3>1, <3>2
    <2>12. ASSUME NEW p \in Objects, Resume(p) PROVE object[o].loop = "none"
        <3>1. o = p
            BY <2>12 DEF Resume, Runs, Resumable, Becomes, TypeOK
        <3> QED BY <2>12, <3>1 DEF Resume, Runs, Resumable, LoopStates
    <2>13. ASSUME NEW p \in Objects, FollowUp(p) PROVE object[o].loop = "none"
        <3>1. o = p
            BY <2>13 DEF FollowUp, Runs, Resumable, Becomes, TypeOK
        <3> QED BY <2>13, <3>1 DEF FollowUp, Runs, Resumable, LoopStates
    <2>14. ASSUME NEW p \in Objects, Evict(p) PROVE object[o].loop = "none"
        BY <2>14 DEF Evict
    <2>15. ASSUME StopAll PROVE object[o].loop = "none"
        <3>1. object'[o] = IF o \in Running THEN Stopped(o) ELSE object[o]
            BY <2>15 DEF StopAll
        <3> QED BY <3>1, Stopping
    <2>16. ASSUME DeleteTeam PROVE object[o].loop = "none"
        <3>1. o \notin Running
            BY DEF Running
        <3>2. object'[o] = object[o] \/ object'[o] = [object[o] EXCEPT !.released = TRUE]
            BY <2>16, <3>1 DEF DeleteTeam
        <3> QED BY <3>2, Stopping
    <2>17. ASSUME NEW r \in Readers, ReadDocument(r) PROVE object[o].loop = "none"
        BY <2>17 DEF ReadDocument
    <2>18. ASSUME NEW r \in Readers, Rehydrate(r) PROVE object[o].loop = "none"
        <3>1. PICK m \in Numbers(r[1]) : object[<<r[1], m>>] = NoObject
                    /\ Becomes(<<r[1], m>>, Rehydrated(r[1], seen[r]))
            BY <2>18 DEF Rehydrate
        <3>2. o = <<r[1], m>>
            BY <3>1 DEF Becomes, TypeOK
        <3> QED BY <3>1, <3>2 DEF NoObject
    <2>19. CASE UNCHANGED vars
        BY <2>19 DEF vars
    <2> QED BY <2>1, <2>2, <2>3, <2>4, <2>5, <2>6, <2>7, <2>8, <2>9, <2>10, <2>11, <2>12, <2>13, <2>14, <2>15, <2>16, <2>17, <2>18, <2>19 DEF Next
<1> QED BY <1>1, Invariance, PTL DEF Spec, OneLoopEach

\* What is held of an instance is counted, but for what pinned and rebuilt agents
\* gave back unbooked, however the ends of runs, stops and deleteTeam meet.
THEOREM LoadIsCounted == Spec => []LoadNotHidden
<1>1. Init => LoadNotHidden
    <2> SUFFICES ASSUME Init, NEW i \in Instances PROVE Covered(i)
        BY LoadIsCovered
    <2>1. Coming(i) = {} /\ Holding(i) = {} /\ Strays(i) = {} /\ reservations[i] = 0
        BY DEF Init, Coming, Holding, Strays, NoObject
    <2> QED BY <2>1, FS_EmptySet DEF Covered
<1>2. Inv /\ LoadNotHidden /\ [Next]_vars => LoadNotHidden'
    BY LoadStep
<1> QED BY <1>1, <1>2, Invariance, PTL DEF Spec
=============================================================================
