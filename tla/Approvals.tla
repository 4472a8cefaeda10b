------------------------------ MODULE Approvals ------------------------------
(***************************************************************************)
(* The approval cards of one loop key: PendingDecisionStore (the durable   *)
(* record of every call asked about, with its process-local fallback) and  *)
(* ApprovalRegistry (the one waiter a running turn parks on), driven by    *)
(* the turns of the conversation, the POST /agent/approve handlers and the *)
(* stop, crash and restart around them.                                    *)
(*                                                                         *)
(* One step runs from an await to the next: a database call and the code   *)
(* that continues after it are two steps, and anything may happen between. *)
(* A batch id is the number of its pass; a record is <<pass, call>>.       *)
(***************************************************************************)
EXTENDS Naturals, FiniteSets

CONSTANTS
    Calls,     \* tool calls of a pass the permission mode puts to the user
    Turns,     \* turns of the conversation (each runs once)
    Posts,     \* POST /agent/approve handlers (each runs once)
    MaxPass,   \* bound: batch ids the turns may use
    MaxCrash,  \* bound: process crashes
    MaxFault,  \* bound: failed database calls
    Overlap,   \* may the next turn start before a stopped one, or its cancel, is through?
    NoCall     \* a POST that names no toolCallId

ASSUME ApprovalsAssumption ==
    /\ MaxPass \in Nat /\ MaxCrash \in Nat /\ MaxFault \in Nat
    /\ Overlap \in BOOLEAN
    /\ NoCall \notin Calls
    /\ IsFiniteSet(Calls)

VARIABLES
    db,        \* pending_decisions: the status and decision of each record
    memory,    \* memoryRecords: the records an insert could not persist
    waiter,    \* waiters.get(loopKey)
    pc,        \* where each turn is
    batch,     \* the batch each turn opened last; survives a crash in its run record
    stopped,   \* the turn's abort signal
    lapsing,   \* the lapse() calls in flight: a turn's own, its abort listener's
    post,      \* the decide() calls
    acted,     \* the decisions the gate acted on
    passes, crashes, faults, up,
    missed     \* history: records settled while their opener was between read and park

store == <<db, memory>>
bounds == <<passes, crashes, faults, up>>
vars == <<store, waiter, pc, batch, stopped, lapsing, post, acted, bounds, missed>>

Passes == 1..MaxPass
Recs == Passes \X Calls
NoRec == <<0, NoCall>>
UserVerdict == {"allow", "deny"}
Lapsed == {"superseded", "turn_ended"}
Settled == UserVerdict \cup Lapsed
Outcomes == {"absent", "pending"} \cup Settled
\* What a batch knows of a call: not in it, to be inserted, undecided or decided.
Known == {"out", "missing", "undecided"} \cup Settled

NoWaiter == [turn |-> "none"]
Jobs == Turns \X {"own", "abort"}
NoLapse == [pc |-> "off", source |-> "superseded", seen |-> 0, todo |-> {}, took |-> {}]
NoPost == [pc |-> "new", verdict |-> "deny", target |-> NoRec, cur |-> NoRec,
           todo |-> {}, won |-> {}, taken |-> {}]

Init ==
    /\ db = [r \in Recs |-> "absent"]
    /\ memory = [r \in Recs |-> "absent"]
    /\ waiter = NoWaiter
    /\ pc = [t \in Turns |-> "new"]
    /\ batch = [t \in Turns |-> [pass |-> 0, asked |-> [c \in Calls |-> "out"]]]
    /\ stopped = [t \in Turns |-> FALSE]
    /\ lapsing = [j \in Jobs |-> NoLapse]
    /\ post = [q \in Posts |-> NoPost]
    /\ acted = {}
    /\ passes = 0 /\ crashes = 0 /\ faults = 0 /\ up = TRUE
    /\ missed = {}

-----------------------------------------------------------------------------
(* PendingDecisionStore *)

\* find: memory shadows the database, and a failed read serves memory alone.
View(ok) == [r \in Recs |-> IF memory[r] # "absent" THEN memory[r]
                            ELSE IF ok THEN db[r] ELSE "absent"]
Stored == View(TRUE)
PendingIn(view) == {r \in Recs : view[r] = "pending"}

\* A database call either succeeds or uses up one fault.
Call(ok) == IF ok THEN UNCHANGED faults
                  ELSE faults < MaxFault /\ faults' = faults + 1

\* (mutant: updateOne without the status filter)
WinsAnyway(r) == Stored[r] # "absent"

\* settle: the write is conditional on the record being pending ...
Wins(r) == Stored[r] = "pending"

\* ... and goes where the record is kept.
Settle(r, outcome) ==
    IF memory[r] # "absent"
    THEN memory' = [memory EXCEPT ![r] = outcome] /\ UNCHANGED db
    ELSE db' = [db EXCEPT ![r] = outcome] /\ UNCHANGED memory

\* insert: all records, or after a failed insertMany (which may have written
\* some of them) all of them in memory.
Insert(S) ==
    \/ /\ db' = [r \in Recs |-> IF r \in S THEN "pending" ELSE db[r]]
       /\ UNCHANGED <<memory, faults>>
    \/ /\ S # {}
       /\ Call(FALSE)
       /\ memory' = [r \in Recs |-> IF r \in S THEN "pending" ELSE memory[r]]
       /\ \E W \in SUBSET S :
             db' = [r \in Recs |-> IF r \in W THEN "pending" ELSE db[r]]

\* A turn that has read a record, or is writing it, but has no waiter yet.
Opening(r) == \E t \in Turns : /\ pc[t] \in {"inserting", "parking"}
                               /\ batch[t].pass = r[1]
                               /\ batch[t].asked[r[2]] # "out"
Missed(r) == IF Opening(r) THEN missed \cup {r} ELSE missed

-----------------------------------------------------------------------------
(* ApprovalRegistry: the waiter *)

UndecidedIn(got) == {c \in Calls : got[c] = "undecided"}

\* (mutant: deliver() without the check of waiter.decisions)
TakesAgain(S) == IF waiter = NoWaiter THEN {}
                 ELSE {r \in S : r[1] = waiter.pass /\ waiter.got[r[2]] # "out"}

\* The records of S that deliver() would hand to the waiter.
Takes(S) == IF waiter = NoWaiter THEN {}
            ELSE {r \in S : r[1] = waiter.pass /\ waiter.got[r[2]] = "undecided"}

\* The gate acts on a complete batch, in the same turn of the event loop.
ActOn(turn, pass, got) ==
    /\ acted' = acted \cup {[turn |-> turn, rec |-> <<pass, c>>, as |-> got[c]] :
                               c \in {d \in Calls : got[d] # "out"}}
    /\ waiter' = NoWaiter

\* deliver() for each record of S; next[t] is where the turn that delivers goes.
Deliver(S, outcome, next) ==
    IF Takes(S) = {}
    THEN UNCHANGED <<waiter, acted>> /\ pc' = next
    ELSE LET got == [c \in Calls |-> IF <<waiter.pass, c>> \in Takes(S)
                                     THEN outcome ELSE waiter.got[c]]
         IN  IF UndecidedIn(got) = {}
             THEN /\ ActOn(waiter.turn, waiter.pass, got)
                  /\ pc' = [next EXCEPT ![waiter.turn] = "running"]
             ELSE /\ waiter' = [waiter EXCEPT !.got = got]
                  /\ pc' = next /\ UNCHANGED acted

\* lapse() up to its first await: it holds the waiter of this moment.
StartLapse(j, source) ==
    lapsing' = [lapsing EXCEPT ![j] =
        [NoLapse EXCEPT !.pc = "find", !.source = source,
                        !.seen = IF waiter = NoWaiter THEN 0 ELSE waiter.pass]]

\* (mutant: only the batch somebody waits for)
FindsAwaited(j, ok) == {r \in PendingIn(View(ok)) : r[1] = lapsing[j].seen}

\* What settleAll is about to settle: every pending record of the loop.
Finds(j, ok) == PendingIn(View(ok))

LapseFind(j) ==
    /\ lapsing[j].pc = "find"
    /\ \E ok \in BOOLEAN :
          /\ Call(ok)
          /\ lapsing' = [lapsing EXCEPT ![j].pc = "settle", ![j].todo = Finds(j, ok)]
    /\ UNCHANGED <<store, waiter, pc, batch, stopped, post, acted, passes, crashes, up, missed>>

LapseSettle(j) ==
    /\ lapsing[j].pc = "settle"
    /\ \E r \in lapsing[j].todo :
          \/ /\ Wins(r)
             /\ Settle(r, lapsing[j].source)
             /\ lapsing' = [lapsing EXCEPT ![j].todo = @ \ {r}, ![j].took = @ \cup {r}]
             /\ missed' = Missed(r)
             /\ UNCHANGED faults
          \/ /\ ~Wins(r)
             /\ lapsing' = [lapsing EXCEPT ![j].todo = @ \ {r}]
             /\ UNCHANGED <<store, missed, faults>>
          \/ /\ memory[r] = "absent"          \* settleAll throws: nothing settled is reported
             /\ Call(FALSE)
             /\ lapsing' = [lapsing EXCEPT ![j].todo = {}, ![j].took = {}]
             /\ UNCHANGED <<store, missed>>
    /\ UNCHANGED <<waiter, pc, batch, stopped, post, acted, passes, crashes, up>>

\* Where a turn continues once its own lapse returned.
After(t) == IF pc[t] = "retiring" THEN "running"
            ELSE IF pc[t] = "opening" THEN "inserting"
            ELSE IF pc[t] = "ending" THEN "over" ELSE pc[t]

\* (mutant: no force after a failed settleAll)
ForcesNothing(j) == {}

\* The calls of the captured waiter: none of them may be left undecided.
Forces(j) == {r \in Recs : r[1] = lapsing[j].seen}

\* Hand out what was settled, then force whatever the captured waiter still lacks.
LapseDeliver(j) ==
    /\ lapsing[j].pc = "settle" /\ lapsing[j].todo = {}
    /\ Deliver(lapsing[j].took \cup Forces(j),
               lapsing[j].source,
               IF j[2] = "own" THEN [pc EXCEPT ![j[1]] = After(j[1])] ELSE pc)
    /\ lapsing' = [lapsing EXCEPT ![j] = NoLapse]
    /\ UNCHANGED <<store, batch, stopped, post, bounds, missed>>

-----------------------------------------------------------------------------
(* A turn: retireOrphans, passes of open() or resumeBatch(), then cancel *)

\* (mutant: no admission control)
AdmittedAlways(t) == TRUE

\* AgentSessionRegistry.isActive refuses a turn while one runs unstopped.
\* A stopped one is not waited for: Overlap says whether that is met.
Admitted(t) == \A u \in Turns \ {t} :
    \/ pc[u] = "new"
    \/ pc[u] = "over" /\ (Overlap \/ lapsing[<<u, "abort">>].pc = "off")
    \/ stopped[u] /\ Overlap

StartTurn(t) ==
    /\ up /\ pc[t] = "new" /\ Admitted(t)
    /\ IF waiter # NoWaiter
       THEN pc' = [pc EXCEPT ![t] = "running"] /\ UNCHANGED lapsing
       ELSE pc' = [pc EXCEPT ![t] = "retiring"] /\ StartLapse(<<t, "own">>, "superseded")
    /\ UNCHANGED <<store, waiter, batch, stopped, post, acted, bounds, missed>>

\* open() of a new batch: the calls the gate asks about, under a fresh batch id.
Open(t) ==
    /\ pc[t] = "running" /\ ~stopped[t] /\ passes < MaxPass
    /\ \E S \in SUBSET Calls \ {{}} :
          batch' = [batch EXCEPT ![t] =
                       [pass |-> passes + 1,
                        asked |-> [c \in Calls |-> IF c \in S THEN "missing" ELSE "out"]]]
    /\ passes' = passes + 1
    /\ pc' = [pc EXCEPT ![t] = "opening"]
    /\ StartLapse(<<t, "own">>, "superseded")
    /\ UNCHANGED <<store, waiter, stopped, post, acted, crashes, faults, up, missed>>

\* (mutant: any decided record is taken for a yes)
RecallsYes(outcome) == IF outcome = "pending" THEN "undecided" ELSE "allow"

\* What a record found again means for its call (recordDecision).
Recalls(outcome) == IF outcome = "pending" THEN "undecided" ELSE outcome

\* What the store tells a replayed pass of the calls it asks about again.
Reread(t, view) == [c \in Calls |->
    IF batch[t].asked[c] = "out" THEN "out"
    ELSE IF view[<<batch[t].pass, c>>] = "absent" THEN "missing"
    ELSE Recalls(view[<<batch[t].pass, c>>])]

\* resumeBatch() of a replayed pass: re-attach to its batch; when the store
\* knows none of the calls, open() continues with a batch of its own.
ResumeFind(t) ==
    /\ pc[t] = "resuming"
    /\ \E ok \in BOOLEAN :
          LET asked == Reread(t, View(ok))
          IN  /\ Call(ok)
              /\ \/ /\ \E c \in Calls : asked[c] \notin {"out", "missing"}
                    /\ batch' = [batch EXCEPT ![t].asked = asked]
                    /\ pc' = [pc EXCEPT ![t] = "inserting"]
                    /\ UNCHANGED <<lapsing, passes>>
                 \/ /\ \A c \in Calls : asked[c] \in {"out", "missing"}
                    /\ passes < MaxPass
                    /\ batch' = [batch EXCEPT ![t].pass = passes + 1]
                    /\ passes' = passes + 1
                    /\ pc' = [pc EXCEPT ![t] = "opening"]
                    /\ StartLapse(<<t, "own">>, "superseded")
    /\ UNCHANGED <<store, waiter, stopped, post, acted, crashes, up, missed>>

\* Once inserted, a missing call is an undecided one.
AsInserted(asked) == [c \in Calls |-> IF asked[c] = "missing" THEN "undecided" ELSE asked[c]]

InsertMissing(t) ==
    /\ pc[t] = "inserting"
    /\ Insert({<<batch[t].pass, c>> : c \in {d \in Calls : batch[t].asked[d] = "missing"}})
    /\ batch' = [batch EXCEPT ![t].asked = AsInserted(@)]
    /\ pc' = [pc EXCEPT ![t] = "parking"]
    /\ UNCHANGED <<waiter, stopped, lapsing, post, acted, passes, crashes, up, missed>>

\* parkWaiter(): the waiter replaces any other; a batch already decided is
\* acted on at once; a turn stopped meanwhile cancels as soon as open() returns.
Park(t) ==
    /\ pc[t] = "parking"
    /\ IF UndecidedIn(batch[t].asked) = {}
       THEN /\ acted' = acted \cup {[turn |-> t, rec |-> <<batch[t].pass, c>>, as |-> batch[t].asked[c]] :
                                       c \in {d \in Calls : batch[t].asked[d] # "out"}}
            /\ pc' = [pc EXCEPT ![t] = "running"]
            /\ UNCHANGED <<waiter, lapsing>>
       ELSE /\ waiter' = [turn |-> t, pass |-> batch[t].pass, got |-> batch[t].asked]
            /\ pc' = [pc EXCEPT ![t] = "waiting"]
            /\ IF stopped[t]
               THEN lapsing' = [lapsing EXCEPT ![<<t, "abort">>] =
                        [NoLapse EXCEPT !.pc = "find", !.source = "turn_ended",
                                        !.seen = batch[t].pass]]
               ELSE UNCHANGED lapsing
            /\ UNCHANGED acted
    /\ UNCHANGED <<store, batch, stopped, post, bounds, missed>>

\* POST /agent/stop: aborts the signal; a waiting turn's listener cancels.
Stop(t) ==
    /\ up /\ ~stopped[t] /\ pc[t] \notin {"new", "over", "dead"}
    /\ stopped' = [stopped EXCEPT ![t] = TRUE]
    /\ IF pc[t] = "waiting"
       THEN StartLapse(<<t, "abort">>, "turn_ended")
       ELSE UNCHANGED lapsing
    /\ UNCHANGED <<store, waiter, pc, batch, post, acted, bounds, missed>>

\* The finally of runAgenticLoop: ApprovalRegistry.cancel(loopKey).
EndTurn(t) ==
    /\ pc[t] = "running"
    /\ pc' = [pc EXCEPT ![t] = "ending"]
    /\ StartLapse(<<t, "own">>, "turn_ended")
    /\ UNCHANGED <<store, waiter, batch, stopped, post, acted, bounds, missed>>

-----------------------------------------------------------------------------
(* decide(): one POST /agent/approve *)

\* The newest pending batch, and the calls of it a request names.
Newest(view) == {r \in PendingIn(view) : \A s \in PendingIn(view) : s[1] <= r[1]}
Named(view, call, wide) ==
    {r \in Newest(view) : r[2] = call \/ (call = NoCall /\ ~wide)}

\* Every early return (not_found, stale, ambiguous, invalid); wide: the scope
\* is more than this call, and can only allow.
Refuses(view, call, given, verdict, wide) ==
    \/ Newest(view) = {}
    \/ given # 0 /\ \A r \in Newest(view) : r[1] # given
    \/ call # NoCall /\ Named(view, call, wide) = {}
    \/ wide /\ verdict = "deny"
    \/ call = NoCall /\ ~wide /\ Cardinality(Newest(view)) # 1

\* What decide() reads and means to settle; ~valid: its editedArgs are refused.
DecideFind(q) ==
    /\ up /\ post[q].pc = "new"
    /\ \E ok \in BOOLEAN, call \in Calls \cup {NoCall}, given \in 0..MaxPass,
          verdict \in UserVerdict, wide \in BOOLEAN, valid \in BOOLEAN :
          LET view == View(ok)
              named == Named(view, call, wide)
          IN  /\ Call(ok)
              /\ IF ~valid \/ Refuses(view, call, given, verdict, wide)
                 THEN post' = [post EXCEPT ![q].pc = "refused"]
                 ELSE post' = [post EXCEPT ![q] =
                         [NoPost EXCEPT !.pc = "settle", !.verdict = verdict,
                             !.target = IF named = {} THEN NoRec
                                        ELSE CHOOSE r \in named : TRUE,
                             !.todo = IF wide THEN Newest(view) ELSE named]]
    /\ UNCHANGED <<store, waiter, pc, batch, stopped, lapsing, acted, passes, crashes, up, missed>>

\* The target is settled first; losing it is the "stale" answer.
DecideSettle(q) ==
    /\ post[q].pc = "settle"
    /\ \E r \in post[q].todo :
          /\ post[q].target \in post[q].todo => r = post[q].target
          /\ \/ /\ Wins(r)
                /\ Settle(r, post[q].verdict)
                /\ post' = [post EXCEPT ![q].pc = "deliver", ![q].cur = r,
                                        ![q].todo = @ \ {r}, ![q].won = @ \cup {r}]
                /\ missed' = Missed(r)
                /\ UNCHANGED faults
             \/ /\ ~Wins(r)
                /\ post' = [post EXCEPT ![q].todo = @ \ {r}, ![q].pc =
                               IF r = post[q].target THEN "refused"
                               ELSE IF post[q].todo = {r} THEN "done" ELSE "settle"]
                /\ UNCHANGED <<store, missed, faults>>
             \/ /\ memory[r] = "absent"          \* the write throws: HTTP 500
                /\ Call(FALSE)
                /\ post' = [post EXCEPT ![q].pc = "error"]
                /\ UNCHANGED <<store, missed>>
    /\ UNCHANGED <<waiter, pc, batch, stopped, lapsing, acted, passes, crashes, up>>

\* (mutant: only the call the request named is handed on)
HandsOverTarget(q) == {post[q].cur} \cap {post[q].target}

\* What a settled decision hands to the waiter.
HandsOver(q) == {post[q].cur}

DecideDeliver(q) ==
    /\ post[q].pc = "deliver"
    /\ Deliver(HandsOver(q), post[q].verdict, pc)
    /\ post' = [post EXCEPT ![q].pc = IF post[q].todo = {} THEN "done" ELSE "settle",
                            ![q].cur = NoRec,
                            ![q].taken = @ \cup Takes(HandsOver(q))]
    /\ UNCHANGED <<store, batch, stopped, lapsing, bounds, missed>>

-----------------------------------------------------------------------------
(* Crash and restart *)

\* Everything in the process is gone. What the history says of records that
\* were only in memory goes with them.
Crash ==
    /\ up /\ crashes < MaxCrash
    /\ crashes' = crashes + 1
    /\ up' = FALSE
    /\ memory' = [r \in Recs |-> "absent"]
    /\ waiter' = NoWaiter
    /\ lapsing' = [j \in Jobs |-> NoLapse]
    /\ pc' = [t \in Turns |-> IF pc[t] \in {"new", "over"} THEN pc[t] ELSE "dead"]
    /\ stopped' = [t \in Turns |-> FALSE]
    /\ post' = [q \in Posts |->
          [post[q] EXCEPT !.pc = IF @ \in {"settle", "deliver"} THEN "lost" ELSE @,
                          !.cur = NoRec, !.todo = {}, !.taken = {},
                          !.won = {r \in @ : memory[r] = "absent"}]]
    /\ acted' = {a \in acted : memory[a.rec] = "absent"}
    /\ missed' = {}
    /\ UNCHANGED <<db, batch, passes, faults>>

\* TurnResumeService.start: the interrupted turn replays its pass in flight,
\* asking about any of its calls again, or goes on with no pass to replay
\* (then, and in a turn that starts over, retireOrphans comes first).
Redrive(t) ==
    /\ ~up /\ pc[t] = "dead"
    /\ up' = TRUE
    /\ \/ /\ batch[t].pass > 0
          /\ \E S \in SUBSET Calls \ {{}} :
                batch' = [batch EXCEPT ![t].asked =
                             [c \in Calls |-> IF c \in S THEN "missing" ELSE "out"]]
          /\ pc' = [u \in Turns |-> IF u = t THEN "resuming"
                                    ELSE IF pc[u] = "dead" THEN "over" ELSE pc[u]]
          /\ UNCHANGED lapsing
       \/ /\ pc' = [u \in Turns |-> IF u = t THEN "retiring"
                                    ELSE IF pc[u] = "dead" THEN "over" ELSE pc[u]]
          /\ StartLapse(<<t, "own">>, "superseded")
          /\ UNCHANGED batch
    /\ UNCHANGED <<store, waiter, stopped, post, acted, passes, crashes, faults, missed>>

\* TurnResumeService.prepare for a loop that is not re-driven, before the
\* server listens: its pending decisions lapse (a failed write leaves the rest).
Salvage ==
    /\ ~up
    /\ up' = TRUE
    /\ pc' = [u \in Turns |-> IF pc[u] = "dead" THEN "over" ELSE pc[u]]
    /\ LET pending == PendingIn(Stored)
       IN  \E S \in SUBSET pending :
              /\ Call(S = pending)
              /\ db' = [r \in Recs |-> IF r \in S THEN "turn_ended" ELSE db[r]]
    /\ UNCHANGED <<memory, waiter, batch, stopped, lapsing, post, acted, passes, crashes, missed>>

-----------------------------------------------------------------------------
LapseStep(j) == up /\ (LapseFind(j) \/ LapseSettle(j) \/ LapseDeliver(j))
TurnStep(t) == up /\ (ResumeFind(t) \/ InsertMissing(t) \/ Park(t))
PostStep(q) == up /\ (DecideSettle(q) \/ DecideDeliver(q))

Next ==
    \/ \E j \in Jobs : LapseStep(j)
    \/ \E t \in Turns : StartTurn(t) \/ Open(t) \/ TurnStep(t) \/ Stop(t) \/ EndTurn(t)
    \/ \E q \in Posts : DecideFind(q) \/ PostStep(q)
    \/ Crash
    \/ \E t \in Turns : Redrive(t)
    \/ Salvage

\* What the event loop guarantees: a pending database call returns and its
\* continuation runs. Nobody is obliged to click, stop or start anything.
Fairness ==
    /\ \A j \in Jobs : WF_vars(LapseStep(j))
    /\ \A t \in Turns : WF_vars(TurnStep(t))
    /\ \A q \in Posts : WF_vars(PostStep(q))

Spec == Init /\ [][Next]_vars
FairSpec == Spec /\ Fairness
-----------------------------------------------------------------------------
(* Properties *)

LapseType == [pc : {"off", "find", "settle"}, source : Lapsed, seen : 0..MaxPass,
              todo : SUBSET Recs, took : SUBSET Recs]
PostType == [pc : {"new", "settle", "deliver", "done", "refused", "error", "lost"},
             verdict : UserVerdict, target : Recs \cup {NoRec}, cur : Recs \cup {NoRec},
             todo : SUBSET Recs, won : SUBSET Recs, taken : SUBSET Recs]
WaiterType == [turn : Turns, pass : Passes, got : [Calls -> Known \ {"missing"}]]

\* The shape of every variable.
TypeOK ==
    /\ db \in [Recs -> Outcomes] /\ memory \in [Recs -> Outcomes]
    /\ waiter \in WaiterType \cup {NoWaiter}
    /\ pc \in [Turns -> {"new", "retiring", "running", "opening", "inserting", "parking",
                         "resuming", "waiting", "ending", "over", "dead"}]
    /\ batch \in [Turns -> [pass : 0..MaxPass, asked : [Calls -> Known]]]
    /\ stopped \in [Turns -> BOOLEAN]
    /\ lapsing \in [Jobs -> LapseType]
    /\ post \in [Posts -> PostType]
    /\ acted \subseteq [turn : Turns, rec : Recs, as : Settled]
    /\ passes \in 0..MaxPass /\ crashes \in 0..MaxCrash /\ faults \in 0..MaxFault
    /\ up \in BOOLEAN
    /\ missed \subseteq Recs

\* "Each call is decided at most once, however many POSTs race for it": a
\* record is won by one POST at most, and what that POST said is what the
\* store keeps, through lapses, failed calls and restarts.
DecidedOnce ==
    \A q \in Posts : \A r \in post[q].won :
        /\ Stored[r] = post[q].verdict
        /\ \A other \in Posts \ {q} : r \notin post[other].won

\* The gate never runs (or refuses in the user's name) a call on any verdict
\* but the one the store holds for it: no stale, lapsed or foreign decision.
ActsOnStored ==
    \A a \in acted : a.as \in UserVerdict => Stored[a.rec] = a.as

\* A POST answered "delivered" reached the turn: its verdict is in the waiter
\* or has been acted on, and a lapse racing it never takes its place.
DeliveredIsKept ==
    \A q \in Posts : \A r \in post[q].taken :
        \/ \E a \in acted : a.rec = r /\ a.as = post[q].verdict
        \/ /\ waiter # NoWaiter
           /\ waiter.pass = r[1] /\ waiter.got[r[2]] = post[q].verdict

\* A call the store has decided and the waiter still waits for.
Unheard(c) == /\ waiter # NoWaiter
              /\ waiter.got[c] = "undecided"
              /\ Stored[<<waiter.pass, c>>] \in Settled

\* Some handler in flight will still tell the waiter.
OnItsWay(r) == \/ \E q \in Posts : post[q].cur = r
               \/ \E j \in Jobs : \/ r \in lapsing[j].took
                                   \/ (lapsing[j].pc # "off" /\ lapsing[j].seen = r[1])

\* open(): "the returned promise resolves when every call in it is decided":
\* the decision of a call a turn waits for always reaches its waiter.
NoLostDecision ==
    \A c \in Calls : Unheard(c) => OnItsWay(<<waiter.pass, c>>)

\* The one window in which a decision can be lost: it was settled after its
\* opener read (or inserted) the record and before it parked its waiter.
LostOnlyWhileOpening ==
    \A c \in Calls : Unheard(c) =>
        OnItsWay(<<waiter.pass, c>>) \/ <<waiter.pass, c>> \in missed

\* decide(): "One batch is pending per loop": short of a failed write or an
\* overlapping turn, no two batches are ever both pending.
OneBatchPending ==
    faults = 0 /\ ~Overlap =>
        \A r, s \in PendingIn(Stored) : r[1] = s[1]

\* cancel(): "deny whatever it was still waiting on": in one process life a
\* card lapses under a turn only if that very turn was stopped.
LapsesOwnCards ==
    crashes = 0 => \A a \in acted : a.as \in Lapsed => stopped[a.turn]

\* The same of cancel() alone, for turns that may overlap: a card is denied as
\* "turn_ended" only under the turn that was stopped.
CancelsOwnCards ==
    crashes = 0 => \A a \in acted : a.as = "turn_ended" => stopped[a.turn]

\* "A lapsed wait must never hang the turn": a stopped turn leaves its wait,
\* whichever database calls fail.
StopEndsWait ==
    \A t \in Turns : stopped[t] /\ pc[t] = "waiting" ~> pc[t] # "waiting"

\* The store, as its promise describes it (DecisionBoard).
Board == INSTANCE DecisionBoard
    WITH Items <- Recs, Verdicts <- Settled,
         outcome <- Stored, volatile <- {r \in Recs : memory[r] # "absent"}

\* Decided at most once, never changed, lost only with the process that alone
\* remembered it: every step of the registry and its callers is a board step.
StoreKeepsPromise == Board!Spec
-----------------------------------------------------------------------------
(* Why DecidedOnce and ActsOnStored hold: the invariant that is inductive *)

Fresh(r) == db[r] = "absent" /\ memory[r] = "absent"

\* Batch ids are never shared, and an unused one has no records.
PassesAreOwn ==
    /\ \A t \in Turns : batch[t].pass <= passes
    /\ \A t, u \in Turns : t # u /\ batch[t].pass = batch[u].pass => batch[t].pass = 0
    /\ \A r \in Recs : r[1] > passes => Fresh(r)

\* What an opener still has to insert is in neither store, what it has read as
\* decided is decided so, and a re-driven turn finds no record in memory.
OpenerIsRight(t) ==
    /\ pc[t] \in {"opening", "resuming", "inserting", "parking"} => batch[t].pass >= 1
    /\ pc[t] \in {"opening", "resuming"} =>
          \A c \in Calls : batch[t].asked[c] \in {"out", "missing"}
    /\ pc[t] \in {"opening", "inserting"} => \A c \in Calls :
          batch[t].asked[c] = "missing" => Fresh(<<batch[t].pass, c>>)
    /\ pc[t] = "resuming" => \A c \in Calls : memory[<<batch[t].pass, c>>] = "absent"
    /\ pc[t] \in {"inserting", "parking"} => \A c \in Calls :
          batch[t].asked[c] \in UserVerdict => Stored[<<batch[t].pass, c>>] = batch[t].asked[c]
    /\ pc[t] = "parking" => \A c \in Calls : batch[t].asked[c] # "missing"
OpenersAreRight == \A t \in Turns : OpenerIsRight(t)

\* What the waiter has been told by a user is what the store holds.
WaiterIsRight ==
    waiter # NoWaiter => \A c \in Calls :
        waiter.got[c] \in UserVerdict => Stored[<<waiter.pass, c>>] = waiter.got[c]

\* A handler hands on only what it won; a down server remembers nothing.
HandlersAreRight ==
    /\ \A q \in Posts : post[q].pc = "deliver" => post[q].cur \in post[q].won
    /\ ~up => \A r \in Recs : memory[r] = "absent"

\* Each part is needed by the step of another, as the proofs show.
Inv ==
    /\ TypeOK
    /\ PassesAreOwn /\ OpenersAreRight /\ WaiterIsRight /\ HandlersAreRight
    /\ DecidedOnce /\ ActsOnStored
=============================================================================
