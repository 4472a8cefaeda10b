----------------------------- MODULE SubAgents -----------------------------
(***************************************************************************)
(* The sub-agents of one root conversation (OrchestratorService): the      *)
(* assignment of an instance (InstanceLoadBalancer), the runaway caps      *)
(* (SpawnCaps), the runs, and every way a run is stopped, continued,       *)
(* evicted or rebuilt, in one life of the process.                         *)
(*                                                                         *)
(* What activeSubAgents holds of an agent is a state object, and an agent  *)
(* rebuilt from its document gets a new one: an object is <<agent, n>>.    *)
(* Writes to the agent's document are taken to land at once; whether a     *)
(* finished agent's time to live has passed is a choice.                   *)
(***************************************************************************)
EXTENDS Naturals, FiniteSets, FiniteSetsExt

CONSTANTS
    Agents,         \* the members a team asks for
    Instances,      \* local instances, each with its
    Concurrency,    \* number of slots
    MaxSpawns,      \* caps.maxSpawnsPerConversation
    MaxConcurrent,  \* caps.maxConcurrentPerConversation
    MaxObject,      \* bound: objects, of each agent
    MaxReader       \* bound: resumes of an agent that read its document at once

ASSUME SubAgentsAssumption ==
    /\ IsFiniteSet(Agents) /\ IsFiniteSet(Instances) /\ "cloud" \notin Instances
    /\ Concurrency \in [Instances -> Nat \ {0}]
    /\ {MaxSpawns, MaxConcurrent, MaxReader} \subseteq Nat \ {0}
    /\ MaxObject \in [Agents -> Nat \ {0}]

VARIABLES
    stage,         \* how far the spawn of a member got
    place,         \* where a router assigned it until it registers, or "cloud"
    reservations,  \* instanceReservations
    spawned, reserved,  \* the ledger
    active,        \* activeSubAgents: the number of the agent's object, or 0
    object,        \* the objects, registered or not
    document,      \* subAgentStatus in the agent's conversation: complete or not
    seen           \* what a resume read of the agent's document, or "none"

spawn == <<stage, place, spawned, reserved>>
vars == <<spawn, reservations, active, object, document, seen>>

Numbers(a) == 1..MaxObject[a]
Objects == UNION {{a} \X Numbers(a) : a \in Agents}
Readers == Agents \X (1..MaxReader)
Places == Instances \cup {"cloud"}
NoObject == [status |-> "none", loop |-> "none", signal |-> "none", at |-> "cloud",
             released |-> FALSE, booked |-> FALSE, first |-> FALSE, stopping |-> FALSE]

Init ==
    /\ stage = [a \in Agents |-> "none"] /\ place = [a \in Agents |-> "cloud"]
    /\ reservations = [i \in Instances |-> 0]
    /\ spawned = 0 /\ reserved = 0
    /\ active = [a \in Agents |-> 0] /\ object = [o \in Objects |-> NoObject]
    /\ document = [a \in Agents |-> "none"] /\ seen = [r \in Readers |-> "none"]

Registered == {o \in Objects : active[o[1]] = o[2]}
Running == {o \in Registered : object[o].status = "running"}

\* releaseReservation: never below 0; a place in the cloud has none.
Less(p) == [i \in Instances |-> IF i = p /\ reservations[i] > 0
                                THEN reservations[i] - 1 ELSE reservations[i]]

Writes(a, status) == [document EXCEPT ![a] = IF status = "complete" THEN status ELSE "other"]
Becomes(o, state) == object' = [object EXCEPT ![o] = state]
To(a, s) == stage' = [stage EXCEPT ![a] = s]

-----------------------------------------------------------------------------
(* Spawning: spawnFromTool of a member a router assigned *)

LeastLoaded == {i \in Instances : \A j \in Instances :
                    reservations[i] * Concurrency[j] <= reservations[j] * Concurrency[i]}

\* selectInstanceForMember. The routers hand it no running agents, so only the
\* reservations count; which of two equal instances it takes is left open. A
\* member routed to another provider reserves nothing.
Assign(a) ==
    /\ stage[a] = "none" /\ To(a, "assigned")
    /\ \E p \in LeastLoaded \cup {"cloud"} :
          /\ place' = [place EXCEPT ![a] = p]
          /\ reservations' = [i \in Instances |-> reservations[i] + IF i = p THEN 1 ELSE 0]
    /\ UNCHANGED <<spawned, reserved, active, object, document, seen>>

\* (mutant: what is admitted and not yet registered does not count)
RunningOnly == Cardinality(Running) < MaxConcurrent

MayRun == Cardinality(Running) + reserved < MaxConcurrent

\* admitSpawn.
Admit(a) ==
    /\ stage[a] = "assigned" /\ To(a, "admitted")
    /\ spawned < MaxSpawns /\ MayRun
    /\ spawned' = spawned + 1 /\ reserved' = reserved + 1
    /\ UNCHANGED <<place, reservations, active, object, document, seen>>

\* The refused member keeps its instance's reservation.
Refuse(a) ==
    /\ stage[a] = "assigned" /\ To(a, "refused")
    /\ spawned >= MaxSpawns \/ ~MayRun
    /\ UNCHANGED <<place, spawned, reserved, reservations, active, object, document, seen>>

\* (mutant: an admission is never released)
Kept == reserved

\* The admission's release().
Freed == reserved - 1

\* A spawn that throws before it registers: release() in the finally.
Throw(a) ==
    /\ stage[a] = "admitted" /\ To(a, "thrown")
    /\ reserved' = Freed
    /\ UNCHANGED <<place, spawned, reservations, active, object, document, seen>>

\* A definition may pin another provider than the one assigned: p. From here
\* on the agent counts as running, and its admission's release() is spent.
Register(a) ==
    /\ stage[a] = "admitted" /\ To(a, "registered")
    /\ \E p \in Places :
          /\ reservations' = IF p = place[a] THEN reservations ELSE Less(place[a])
          /\ Becomes(<<a, 1>>, [NoObject EXCEPT
                !.status = "running", !.loop = "running", !.signal = "live",
                !.at = p, !.booked = (p = place[a]), !.first = TRUE])
    /\ active' = [active EXCEPT ![a] = 1] /\ place' = [place EXCEPT ![a] = "cloud"]
    /\ reserved' = Freed
    /\ document' = Writes(a, "running")
    /\ UNCHANGED <<spawned, seen>>

-----------------------------------------------------------------------------
(* The end of a run *)

\* (mutant: whether it was released is not looked at)
AlwaysHolds(o) == TRUE

Holds(o) == ~object[o].released

\* An object gives its place's reservation back once, whether or not it made one.
Release(S) ==
    LET back(i) == Cardinality({o \in S : object[o].at = i /\ Holds(o)})
    IN  reservations' = [i \in Instances |->
            IF reservations[i] > back(i) THEN reservations[i] - back(i) ELSE 0]

\* _runSubAgentLoop: its loop returned, aborted or not, and the worktree is
\* settled next unless a stop has marked the agent.
LoopReturns(o) ==
    /\ object[o].loop = "running" /\ object[o].status # "stopped"
    /\ Becomes(o, [object[o] EXCEPT !.loop = "settling"])
    /\ UNCHANGED <<spawn, reservations, active, document, seen>>

Ended(o, status) ==
    /\ Becomes(o, [object[o] EXCEPT !.loop = "none", !.signal = "none", !.released = TRUE,
                                     !.status = status])
    /\ Release({o})
    /\ document' = Writes(o[1], status)
    /\ UNCHANGED <<spawn, active, seen>>

\* A stop ends the run: marked by it, or told by the abort.
LoopStops(o) ==
    /\ object[o].loop = "running"
    /\ object[o].status = "stopped" \/ object[o].signal = "aborted"
    /\ Ended(o, "stopped")

Settled(o) == object[o].loop = "settling" /\ Ended(o, "complete")

\* (mutant: a failed run keeps its status)
FailsAsIs(o) == object[o].status

FailedStatus(o) == "failed"

\* The loop throws: markSubAgentFailed, which gives no reservation back.
LoopFails(o) ==
    /\ object[o].loop = "running" /\ object[o].signal # "aborted"
    /\ Becomes(o, [object[o] EXCEPT !.loop = "none", !.signal = "none", !.status = FailedStatus(o)])
    /\ UNCHANGED <<spawn, reservations, active, document, seen>>

-----------------------------------------------------------------------------
(* Stopping *)

Aborted(o) == IF object[o].signal = "live" THEN "aborted" ELSE object[o].signal

\* stopAgent aborts, and awaits the removal of the worktree ...
StopBegins(o) ==
    /\ o \in Registered
    /\ Becomes(o, [object[o] EXCEPT !.signal = Aborted(o), !.stopping = TRUE])
    /\ UNCHANGED <<spawn, reservations, active, document, seen>>

\* ... before it marks the object, whatever has become of it.
StopMarks(o) ==
    /\ object[o].stopping
    /\ Becomes(o, [object[o] EXCEPT !.stopping = FALSE, !.status = "stopped"])
    /\ UNCHANGED <<spawn, reservations, active, document, seen>>

Stopped(o) == [object[o] EXCEPT !.signal = Aborted(o), !.status = "stopped"]

\* abortSubAgentsByConversation.
StopAll ==
    /\ Running # {}
    /\ object' = [o \in Objects |-> IF o \in Running THEN Stopped(o) ELSE object[o]]
    /\ document' = [a \in Agents |-> IF \E o \in Running : o[1] = a THEN "other" ELSE document[a]]
    /\ UNCHANGED <<spawn, reservations, active, seen>>

\* deleteTeam: every registered object of the conversation goes.
DeleteTeam ==
    /\ Registered # {}
    /\ object' = [o \in Objects |->
            IF o \notin Registered THEN object[o]
            ELSE [(IF o \in Running THEN Stopped(o) ELSE object[o]) EXCEPT !.released = TRUE]]
    /\ Release(Registered)
    /\ active' = [a \in Agents |-> 0]
    /\ UNCHANGED <<spawn, document, seen>>

-----------------------------------------------------------------------------
(* Continuing *)

\* (mutant: a stopped agent may be continued as well)
NotRunning(o) == object[o].status \in {"complete", "stopped"}

Resumable(o) == object[o].status = "complete"

Runs(o, signal) == Becomes(o, [object[o] EXCEPT
    !.status = "running", !.loop = "running", !.signal = signal, !.first = FALSE])

\* resumeAgent and continueAgent of an agent in memory: no cap is asked.
Resume(o) ==
    /\ o \in Registered /\ Resumable(o)
    /\ Runs(o, "live")
    /\ document' = Writes(o[1], "running")
    /\ UNCHANGED <<spawn, reservations, active, seen>>

\* sendMessage to a finished agent: its controller went with its last run.
FollowUp(o) ==
    /\ o \in Registered /\ Resumable(o)
    /\ Runs(o, object[o].signal)
    /\ document' = Writes(o[1], "running")
    /\ UNCHANGED <<spawn, reservations, active, seen>>

\* cleanupConversation: what runs stays, the rest goes or waits for its time.
Evict(o) ==
    /\ o \in Registered /\ object[o].status # "running"
    /\ active' = [active EXCEPT ![o[1]] = 0]
    /\ UNCHANGED <<spawn, reservations, object, document, seen>>

\* resumeAgent of an evicted agent awaits its document ...
ReadDocument(r) ==
    /\ active[r[1]] = 0 /\ document[r[1]] # "none" /\ seen[r] = "none"
    /\ \E n \in Numbers(r[1]) : object[<<r[1], n>>] = NoObject
    /\ seen' = [seen EXCEPT ![r] = document[r[1]]]
    /\ UNCHANGED <<spawn, reservations, active, object, document>>

\* ... and registers a new object, over whatever is registered by then, that
\* runs if the agent was complete; any other rests, as stopped.
Rehydrated(a, status) ==
    IF status = "complete"
    THEN [NoObject EXCEPT !.status = "running", !.loop = "running", !.signal = "live", !.at = object[<<a, 1>>].at]
    ELSE [NoObject EXCEPT !.status = "stopped", !.at = object[<<a, 1>>].at]

Rehydrate(r) ==
    /\ seen[r] # "none" /\ seen' = [seen EXCEPT ![r] = "none"]
    /\ \E n \in Numbers(r[1]) :
          /\ object[<<r[1], n>>] = NoObject /\ \A m \in 1..(n - 1) : object[<<r[1], m>>] # NoObject
          /\ Becomes(<<r[1], n>>, Rehydrated(r[1], seen[r]))
          /\ active' = [active EXCEPT ![r[1]] = n]
    /\ document' = IF seen[r] = "complete" THEN Writes(r[1], "running") ELSE document
    /\ UNCHANGED <<spawn, reservations>>

-----------------------------------------------------------------------------
Next ==
    \/ \E a \in Agents : \/ Assign(a) \/ Admit(a) \/ Refuse(a) \/ Throw(a) \/ Register(a)
    \/ \E r \in Readers : ReadDocument(r) \/ Rehydrate(r)
    \/ \E o \in Objects : \/ LoopReturns(o) \/ LoopStops(o) \/ Settled(o) \/ LoopFails(o)
                          \/ StopBegins(o) \/ StopMarks(o)
                          \/ Resume(o) \/ FollowUp(o) \/ Evict(o)
    \/ StopAll \/ DeleteTeam

Spec == Init /\ [][Next]_vars

-----------------------------------------------------------------------------
(* Properties *)

States == [status : {"none", "running", "complete", "stopped", "failed"},
           loop : {"none", "running", "settling"}, signal : {"none", "live", "aborted"},
           at : Places, released : BOOLEAN, booked : BOOLEAN, first : BOOLEAN,
           stopping : BOOLEAN]

\* The shape of the state.
TypeOK ==
    /\ stage \in [Agents -> {"none", "assigned", "admitted", "refused", "thrown", "registered"}]
    /\ place \in [Agents -> Places]
    /\ reservations \in [Instances -> Nat]
    /\ spawned \in Nat /\ reserved \in Nat
    /\ active \in [Agents -> Nat]
    /\ object \in [Objects -> States]
    /\ document \in [Agents -> {"none", "complete", "other"}]
    /\ seen \in [Readers -> {"none", "complete", "other"}]

\* The ledger counts exactly the spawns that were admitted, and those of them
\* that have neither registered nor thrown: a release() too many, or one that
\* is missing, would move a cap for the rest of the conversation's life.
LedgerExact ==
    /\ reserved = Cardinality({a \in Agents : stage[a] = "admitted"})
    /\ spawned = Cardinality({a \in Agents : stage[a] \in {"admitted", "thrown", "registered"}})

\* Parallel spawns never run more first runs at once than the cap allows.
SpawnsWithinCap ==
    reserved + Cardinality({o \in Running : object[o].first}) <= MaxConcurrent

\* An object runs again only when its last loop is over, its worktree settled:
\* a stopped agent's loop goes on for a while, and no loop starts beside it.
OneLoopEach == [][\A o \in Objects :
    object[o].status # "running" /\ object'[o].status = "running" => object[o].loop = "none"]_vars

\* What counts against the cap has a loop that will end.
RunningHasLoop == \A o \in Running : object[o].loop # "none"

\* What is held of an instance is counted, less what was given back by
\* objects that never held it (pinned to it, or rebuilt): no reservation is
\* given back twice, however a run's end, a stop and deleteTeam meet.
LoadNotHidden == \A i \in Instances :
    LET coming == {a \in Agents : place[a] = i /\ stage[a] \in {"assigned", "admitted"}}
        there == {o \in Objects : object[o].at = i}
        holding == {o \in there : object[o].booked /\ ~object[o].released}
        strays == {o \in there : ~object[o].booked /\ object[o].released}
    IN  reservations[i] + Cardinality(strays) >= Cardinality(coming) + Cardinality(holding)

\* "Abort all running sub-agents": a stopped agent's loop was told to stop.
StopReachesLoop == \A o \in Objects :
    object[o].status = "stopped" /\ object[o].loop = "running" => object[o].signal = "aborted"
=============================================================================
