------------------------------- MODULE Goals -------------------------------
(***************************************************************************)
(* A conversation's goal and everybody who writes it: the turns' GoalRun   *)
(* (lifecycle/GoalGate.ts), the model's goal tools, the afterResponse hook *)
(* that books a finished turn, the user's requests, and boot.  Every write *)
(* is a read of the document, an await, and a write of the WHOLE goal      *)
(* without a condition, so two writers can cross.                          *)
(***************************************************************************)
EXTENDS GoalRecord, FiniteSets

CONSTANTS
    MaxRounds,  \* a goal's maxIterations
    MaxEmpty,   \* MAXIMUM_EMPTY_GOAL_CONTINUATIONS
    Requests,   \* the user's requests about the goal, each made once
    MaxTurn,    \* bound: the conversation's turns
    MaxTools,   \* bound: calls of the goal tools
    MaxLate,    \* bound: units detached sub-agents spent after their turn was booked, read at once
    MaxCrash,   \* bound: crashes
    MaxFault    \* bound: reads or writes of the document that throw

ASSUME GoalsAssumption ==
    /\ Budget \in Nat /\ MaxMade \in Nat /\ MaxRounds \in Nat \ {0} /\ MaxEmpty \in Nat \ {0}
    /\ MaxTurn \in Nat /\ MaxTools \in Nat /\ MaxLate \in Nat /\ MaxCrash \in Nat /\ MaxFault \in Nat

Turns == 1 .. MaxTurn

VARIABLES
    goal,       \* `goal` on the conversation document, or NoGoal
    proposal,   \* `goalProposal`: its number, 0 when none waits
    turn,       \* the turn in progress and its GoalRun
    hook,       \* per turn, its afterResponse booking
    request,    \* per request, how far it got
    remembered, \* earlierRuns holds a booked run, into which a detached sub-agent may still spend
    up,         \* the process runs
    open,       \* the checkpoint of a turn a crash cut off waits for boot
    made, ran, tools, crashes, faults,   \* the bounded counters
    crossed,    \* history: a write replaced a goal its writer had not read
    sent,       \* history: revisions asked since the goal was last (re)activated or rewritten
    vouched,    \* history: goals a satisfied verdict was recorded on
    unattended  \* history: the agent is "working" on its own, or was "cut" off at it, and no user came by

store == <<goal, proposal>>
counters == <<made, ran, tools, crashes, faults>>
history == <<crossed, sent, vouched, unattended>>
vars == <<store, turn, hook, request, remembered, up, open, counters, history>>

-----------------------------------------------------------------------------
(* Calls of the service: what each reads, when it returns early and what it writes. *)

Patch(p) == [does |-> "patch", patch |-> p]
Clear == [does |-> "clear"]
Make(id) == [does |-> "make", id |-> id]
Decline == [does |-> "decline"]
Book == [does |-> "book"]
Late(units) == [does |-> "late", units |-> units]
Mark(on) == [does |-> "mark", on |-> on]
Judge(verdict, reason, rubric, round) ==
    [does |-> "judge", verdict |-> verdict, reason |-> reason, rubric |-> rubric, round |-> round]

(* What the call returns without writing, from what it read. *)
Skips(call, g, p) ==
    CASE call.does = "make" -> FALSE
      [] call.does = "decline" -> p = 0
      [] call.does = "mark" -> \/ ~ Exists(g)
                               \/ ~ call.on /\ ~ g.marked
                               \/ call.on /\ g.status # "active"
      [] OTHER -> ~ Exists(g)

(* The goal the call writes back, from the goal it read. *)
Written(call, g) ==
    CASE call.does = "patch" -> Patched(g, call.patch)
      [] call.does = "clear" -> NoGoal
      [] call.does = "make" -> NewGoal(call.id)
      [] call.does = "book" -> Booked(g)
      [] call.does = "late" -> [g EXCEPT !.spent = @ + call.units]
      [] call.does = "mark" -> [g EXCEPT !.marked = call.on]
      [] call.does = "judge" -> Judged(g, call.verdict, call.reason, call.rubric, call.round)

(* The newest number in use once the user makes the call. *)
Newest(call) ==
    IF \/ call.does = "make" /\ call.id > made
       \/ call.does = "patch" /\ call.patch.rubric > made
    THEN made + 1 ELSE made

(* The writes that are built from the goal that was read. *)
Rewrites(call) == call.does \in {"patch", "book", "late", "mark", "judge"}

(* A new goal, a resumed one and a rewritten rubric start the rounds over. *)
StartsOver(call, g) ==
    \/ call.does = "make"
    \/ call.does = "patch" /\ (Resumes(g, call.patch) \/ Rewritten(g, call.patch))

(* One write of the document (persist, persistProposal). *)
Persist(call, g) ==
    /\ goal' = IF call.does = "decline" THEN goal ELSE Written(call, g)
    /\ proposal' = IF call.does \in {"make", "decline"} THEN 0 ELSE proposal
    /\ crossed' = (crossed \/ (Rewrites(call) /\ goal # g))
    /\ vouched' = IF call.does = "judge" /\ call.verdict = "satisfied" THEN vouched \union {g.id} ELSE vouched
    /\ sent' = IF StartsOver(call, g) THEN 0
               ELSE IF call.does = "judge" /\ call.verdict = "needs_revision" /\ call.reason = "none" THEN sent + 1
               ELSE sent

-----------------------------------------------------------------------------
NoCall == [does |-> "nothing"]
NoTurn == [at |-> "idle", call |-> NoCall, seen |-> NoGoal, alone |-> FALSE, empty |-> 0, used |-> FALSE,
           spoke |-> FALSE, redriven |-> FALSE]
Waiting == [at |-> "none", seen |-> NoGoal]
Unasked == [at |-> "unasked", call |-> NoCall, seen |-> NoGoal]

Init ==
    /\ goal \in {NoGoal, NewGoal(1)} /\ proposal = 0
    /\ turn = NoTurn
    /\ hook = [t \in Turns |-> Waiting]
    /\ request = [r \in Requests |-> Unasked]
    /\ remembered = FALSE /\ up = TRUE /\ open = FALSE
    /\ made = goal.id /\ ran = 0 /\ tools = 0 /\ crashes = 0 /\ faults = 0
    /\ crossed = FALSE /\ sent = 0 /\ vouched = {} /\ unattended = "no"

-----------------------------------------------------------------------------
(* The user's requests: PUT, PATCH and DELETE /goal, approve and decline.  *)
(* A PATCH sets the status, the rubric, the obstacle, or what no decision reads. *)

UserPatches == {To("paused"), To("active"), Keep, [Keep EXCEPT !.rubric = made + 1]}
               \union {[Keep EXCEPT !.obstacle = o] : o \in {"set", "gone"}}

UserCalls == {Patch(p) : p \in UserPatches} \union {Clear, Decline, Make(made + 1)}
             \union (IF proposal = 0 THEN {} ELSE {Make(proposal)})

(* The request arrives and reads the document; it returns when there is nothing to change. *)
Locate(r) ==
    /\ up /\ request[r].at = "unasked"
    /\ \E c \in UserCalls :
          /\ made' = Newest(c) /\ made' <= MaxMade
          /\ request' = [request EXCEPT ![r] = IF Skips(c, goal, proposal) THEN [Unasked EXCEPT !.at = "answered"]
                                               ELSE [at |-> "located", call |-> c, seen |-> goal]]
    /\ UNCHANGED <<store, turn, hook, remembered, up, open, ran, tools, crashes, faults, history>>

(* Its write. *)
Answer(r) ==
    /\ up /\ request[r].at = "located"
    /\ Persist(request[r].call, request[r].seen)
    /\ request' = [request EXCEPT ![r] = [Unasked EXCEPT !.at = "answered"]]
    /\ unattended' = "no"
    /\ UNCHANGED <<turn, hook, remembered, up, open, counters>>

-----------------------------------------------------------------------------
(* The loop's own calls of the service: a read, then a write, one at a time. *)

Goes(at, call) == [turn EXCEPT !.at = at, !.call = call, !.seen = NoGoal]
Calls(call) == Goes("calls", call)
Works == Goes("works", NoCall)
Ends == Goes("ends", NoCall)

(* A verdict sent the agent back: from its first revision it works on its own. *)
Continues ==
    IF ~ turn.alone THEN [Calls(Mark(TRUE)) EXCEPT !.alone = TRUE, !.spoke = FALSE, !.used = FALSE]
    ELSE [Works EXCEPT !.used = FALSE]

SendsBack(call) == call.does = "judge" /\ call.verdict = "needs_revision" /\ call.reason = "none"

(* Where the loop goes on after the call. *)
After(call) ==
    CASE SendsBack(call) -> Continues
      [] call.does = "judge" /\ ~ SendsBack(call) -> Ends
      [] call.does = "patch" /\ call.patch.pause # "none" -> Ends
      [] call.does = "mark" /\ ~ call.on -> NoTurn
      [] OTHER -> Works

LoopLocates ==
    /\ up /\ turn.at = "calls"
    /\ turn' = IF Skips(turn.call, goal, proposal) THEN After(turn.call)
               ELSE [turn EXCEPT !.at = "writes", !.seen = goal]
    /\ UNCHANGED <<store, hook, request, remembered, up, open, counters, history>>

LoopWrites ==
    /\ up /\ turn.at = "writes"
    /\ Persist(turn.call, turn.seen)
    /\ turn' = After(turn.call)
    /\ unattended' = IF turn.call = Mark(TRUE) /\ unattended = "no" THEN "working" ELSE unattended
    /\ UNCHANGED <<hook, request, remembered, up, open, counters>>

(* The call throws: a tool reports it, the gate ends the turn, the mark and the late spend are given up. *)
LoopCallFails ==
    /\ up /\ turn.at \in {"calls", "writes"} /\ faults < MaxFault
    /\ faults' = faults + 1
    /\ turn' = IF turn.call.does = "judge" THEN Ends ELSE After(turn.call)
    /\ UNCHANGED <<store, hook, request, remembered, up, open, made, ran, tools, crashes, history>>

-----------------------------------------------------------------------------
(* The turn. *)

(* The user's message starts a turn; its GoalRun opens. *)
StartTurn ==
    /\ up /\ ~ open /\ turn.at = "idle" /\ ran + 1 \in Turns
    /\ ran' = ran + 1
    /\ turn' = [NoTurn EXCEPT !.at = "opens"]
    /\ unattended' = "no"
    /\ UNCHANGED <<store, hook, request, remembered, up, open, made, tools, crashes, faults, crossed, sent, vouched>>

(* GoalRun.open: what detached sub-agents of earlier turns still spent is booked. *)
Open ==
    /\ up /\ turn.at = "opens"
    /\ \/ turn' = Works
       \/ /\ Exists(goal) /\ remembered
          /\ \E units \in 1 .. MaxLate : turn' = Calls(Late(units))
    /\ UNCHANGED <<store, hook, request, remembered, up, open, counters, history>>

(* The agent uses a tool: new evidence for the verifier. *)
UseTool ==
    /\ up /\ turn.at = "works" /\ turn.alone /\ ~ turn.used
    /\ turn' = [turn EXCEPT !.used = TRUE]
    /\ UNCHANGED <<store, hook, request, remembered, up, open, counters, history>>

(* A bug to catch: the tool stores the completion the model claims. *)
ClaimsStored ==
    {Patch(p) : p \in {To("active"), To("completed"), [Keep EXCEPT !.obstacle = "set"]}} \union {Clear}

(* update_goal reports, blocks or re-activates the goal (a claim on a blocked  *)
(* goal does the last; on another it changes nothing); clear_goal removes it.  *)
ModelCalls ==
    {Patch(p) : p \in {To("active"), To("blocked"), [Keep EXCEPT !.obstacle = "set"], [Keep EXCEPT !.obstacle = "gone"]}}
    \union {Clear}

UseGoalTool ==
    /\ up /\ turn.at = "works" /\ tools < MaxTools /\ Exists(goal)
    /\ tools' = tools + 1
    /\ \E c \in ModelCalls : turn' = [Calls(c) EXCEPT !.used = @ \/ turn.alone]
    /\ UNCHANGED <<store, hook, request, remembered, up, open, made, ran, crashes, faults, history>>

(* propose_goal: it waits as the proposal, whatever waited before. *)
Propose ==
    /\ up /\ turn.at = "works" /\ tools < MaxTools /\ made < MaxMade
    /\ tools' = tools + 1 /\ made' = made + 1
    /\ proposal' = made + 1
    /\ turn' = [turn EXCEPT !.used = @ \/ turn.alone]
    /\ UNCHANGED <<goal, hook, request, remembered, up, open, ran, crashes, faults, history>>

(* A user's message reaches the loop while it works on its own. *)
Speak ==
    /\ up /\ turn.at = "works" /\ turn.alone /\ ~ turn.spoke
    /\ turn' = [turn EXCEPT !.spoke = TRUE]
    /\ UNCHANGED <<store, hook, request, remembered, up, open, counters, history>>

(* The turn would end on a text answer: the gate decides (GoalRun.decide). *)
(* A read that throws ends the turn, as LeaveLoop does.                     *)
Gate ==
    /\ up /\ turn.at = "works"
    /\ turn' = IF ~ Active(goal) THEN Ends
               ELSE IF turn.alone /\ turn.spoke THEN Calls(Patch(Pausing("user_message")))
               ELSE IF Exhausted(goal, 1) THEN Calls(Patch(Pausing("budget")))
               ELSE IF turn.alone /\ ~ turn.used
                    THEN IF turn.empty + 1 >= MaxEmpty
                         THEN [Calls(Patch(Pausing("empty_continuations"))) EXCEPT !.empty = @ + 1]
                         ELSE [turn EXCEPT !.empty = @ + 1]
               ELSE [turn EXCEPT !.at = "verifies", !.seen = goal, !.empty = 0]
    /\ UNCHANGED <<store, hook, request, remembered, up, open, counters, history>>

(* A bug to catch: one round too many. *)
RoundTooMany ==
    IF turn.seen.rounds + 1 > MaxRounds THEN {"max_iterations"}
    ELSE {"none"} \union (IF Budget > 0 THEN {"budget"} ELSE {})

(* The pauses a request for revisions may come with; the verifier's own spend counts. *)
RevisionPauses ==
    IF turn.seen.rounds + 1 >= MaxRounds THEN {"max_iterations"}
    ELSE {"none"} \union (IF Budget > 0 THEN {"budget"} ELSE {})

(* The verifier answers about the goal the gate read. *)
Verify ==
    /\ up /\ turn.at = "verifies"
    /\ LET Verdict(verdict, reason) == Calls(Judge(verdict, reason, turn.seen.rubric, turn.seen.rounds + 1))
       IN  \/ turn' = Calls(Patch(Pausing("failed")))
           \/ turn' = Verdict("satisfied", "none")
           \/ turn' = Verdict("failed", "failed")
           \/ \E reason \in RevisionPauses : turn' = Verdict("needs_revision", reason)
    /\ UNCHANGED <<store, hook, request, remembered, up, open, counters, history>>

(* The loop ends without the gate: the user stopped it (a stop that comes  *)
(* while the gate is at work is seen when it is done), or its iterations ran out. *)
LeaveLoop ==
    /\ up /\ turn.at = "works"
    /\ turn' = Ends
    /\ UNCHANGED <<store, hook, request, remembered, up, open, counters, history>>

(* A bug to catch: the loop ends without taking its mark back. *)
NeverUnmarks == NoTurn

(* GoalRun.close: the loop no longer works on the goal on its own. *)
Close == IF turn.alone THEN [Calls(Mark(FALSE)) EXCEPT !.alone = FALSE] ELSE NoTurn

Attended == unattended' = IF unattended = "working" THEN "no" ELSE unattended

(* finalize starts the afterResponse hook and does not wait for it; then the run closes. *)
Finalize ==
    /\ up /\ turn.at = "ends"
    /\ hook' = [hook EXCEPT ![ran].at = "due"]
    /\ turn' = Close /\ Attended
    /\ UNCHANGED <<store, request, remembered, up, open, counters, crossed, sent, vouched>>

(* The loop throws: no afterResponse hook. *)
LoopThrows ==
    /\ up /\ turn.at = "works" /\ faults < MaxFault
    /\ faults' = faults + 1
    /\ turn' = Close /\ Attended
    /\ UNCHANGED <<store, hook, request, remembered, up, open, made, ran, tools, crashes, crossed, sent, vouched>>

-----------------------------------------------------------------------------
(* The afterResponse hook of a finished turn: it books the turn on the goal. *)

(* What it books is the spend so far; what a detached sub-agent spends after *)
(* it is read from the remembered run when a later turn opens.              *)
HookLocates(t) ==
    /\ up /\ hook[t].at = "due"
    /\ hook' = [hook EXCEPT ![t] = IF Exists(goal) THEN [at |-> "located", seen |-> goal] ELSE Waiting]
    /\ remembered' = (remembered \/ Exists(goal))
    /\ UNCHANGED <<store, turn, request, up, open, counters, history>>

HookBooks(t) ==
    /\ up /\ hook[t].at = "located"
    /\ Persist(Book, hook[t].seen)
    /\ hook' = [hook EXCEPT ![t] = Waiting]
    /\ UNCHANGED <<turn, request, remembered, up, open, counters, unattended>>

(* The booking throws: it is logged and given up. *)
HookFails(t) ==
    /\ up /\ hook[t].at \in {"due", "located"} /\ faults < MaxFault
    /\ faults' = faults + 1
    /\ hook' = [hook EXCEPT ![t] = Waiting]
    /\ UNCHANGED <<store, turn, request, remembered, up, open, made, ran, tools, crashes, history>>

-----------------------------------------------------------------------------
(* Crash and boot. *)

Crash ==
    /\ up /\ crashes < MaxCrash
    /\ crashes' = crashes + 1
    /\ up' = FALSE
    /\ open' = (open \/ turn.at # "idle")
    /\ unattended' = IF unattended = "working" THEN "cut" ELSE unattended
    /\ turn' = NoTurn /\ remembered' = FALSE
    /\ hook' = [t \in Turns |-> Waiting]
    /\ request' = [r \in Requests |-> IF request[r].at = "unasked" THEN Unasked ELSE [Unasked EXCEPT !.at = "answered"]]
    /\ UNCHANGED <<store, made, ran, tools, faults, crossed, sent, vouched>>

(* Boot pauses what the crash interrupted, and goes on when that fails. *)
Boot ==
    /\ ~ up
    /\ up' = TRUE
    /\ \/ goal' = (IF Exists(goal) /\ goal.marked THEN Interrupted(goal) ELSE goal) /\ UNCHANGED faults
       \/ faults < MaxFault /\ faults' = faults + 1 /\ UNCHANGED goal
    /\ UNCHANGED <<proposal, turn, hook, request, remembered, open, made, ran, tools, crashes, history>>

(* Then the cut-off turn runs again, or is merged and left. *)
Redrive ==
    /\ up /\ open
    /\ open' = FALSE
    /\ turn' \in {NoTurn, [NoTurn EXCEPT !.at = "opens", !.redriven = TRUE]}
    /\ UNCHANGED <<store, hook, request, remembered, up, counters, history>>

-----------------------------------------------------------------------------
Loop == Open \/ Gate \/ Verify \/ LoopLocates \/ LoopWrites \/ Finalize

Next ==
    \/ \E r \in Requests : Locate(r) \/ Answer(r)
    \/ StartTurn \/ Loop \/ UseTool \/ UseGoalTool \/ Propose \/ Speak \/ LeaveLoop
    \/ LoopCallFails \/ LoopThrows
    \/ \E t \in Turns : HookLocates(t) \/ HookBooks(t) \/ HookFails(t)
    \/ Crash \/ Boot \/ Redrive

Spec == Init /\ [][Next]_vars

(* The loop and the boot are one asynchronous call each: what they started *)
(* goes on.  The agent's own choices, the user and the hook are not forced. *)
FairSpec == Spec /\ WF_vars(Loop) /\ WF_vars(Boot)

-----------------------------------------------------------------------------
LoopCalls ==
    [does : {"patch"}, patch : Patches] \union [does : {"clear", "nothing"}] \union [does : {"mark"}, on : BOOLEAN]
    \union [does : {"late"}, units : Nat]
    \union [does : {"judge"}, verdict : {"satisfied", "failed", "needs_revision"}, reason : Reasons \union {"none"},
            rubric : Nat \ {0}, round : Nat]

RequestCalls == [does : {"patch"}, patch : Patches] \union [does : {"clear", "decline", "nothing"}]
                \union [does : {"make"}, id : Nat \ {0}]

Stored == GoalDocuments \union {NoGoal}

TurnStates == [at : {"idle", "opens", "works", "calls", "writes", "verifies", "ends"}, call : LoopCalls, seen : Stored,
               alone : BOOLEAN, empty : Nat, used : BOOLEAN, spoke : BOOLEAN, redriven : BOOLEAN]
HookStates == [at : {"none", "due", "located"}, seen : Stored]
RequestStates == [at : {"unasked", "located", "answered"}, call : RequestCalls, seen : Stored]

(* The type invariant. *)
TypeOK ==
    /\ goal \in Stored /\ proposal \in Nat
    /\ turn \in TurnStates
    /\ hook \in [Turns -> HookStates]
    /\ request \in [Requests -> RequestStates]
    /\ remembered \in BOOLEAN /\ up \in BOOLEAN /\ open \in BOOLEAN
    /\ made \in Nat /\ ran \in 0 .. MaxTurn /\ tools \in Nat /\ crashes \in Nat /\ faults \in Nat
    /\ crossed \in BOOLEAN /\ sent \in Nat /\ vouched \subseteq Nat /\ unattended \in {"no", "working", "cut"}

(* "At most maxIterations": while no write of the goal crosses another, the   *)
(* verifier sends the agent back fewer than maxIterations times before        *)
(* somebody resumes the goal or rewrites its rubric, over all turns, tools,   *)
(* bookings, crashes and re-driven turns in between (GoalGate.decide,         *)
(* recordVerification, applyGoalPatch).                                       *)
RoundsBounded == ~ crossed => sent < MaxRounds

(* The mark that makes boot pause a goal stands for a loop that works on it   *)
(* on its own, or one that is just taking the mark back; a mark that outlives *)
(* its loop would pause a goal nobody was working on (markContinuing,         *)
(* GoalRun.close, pauseInterruptedRuns).                                      *)
MarkIsHonest ==
    up /\ ~ crossed /\ faults = 0 /\ Exists(goal) /\ goal.marked => turn.alone \/ turn.call = Mark(FALSE)

(* "A completion is a claim, not a status": whatever the tools, the requests  *)
(* and the stale writes of crossed calls do, a goal stands completed only     *)
(* after a satisfied verdict was recorded on it (update_goal,                 *)
(* recordVerification).                                                       *)
CompletedByVerdict == Exists(goal) /\ goal.status = "completed" => goal.id \in vouched

(* Work on its own comes to an end: the rounds, the nudges and the crashes    *)
(* leave no way for the gate to send the agent back for ever.                 *)
AutonomyEnds == turn.alone ~> ~ turn.alone

(* "A restart must not resume unattended spend on its own" (index.ts): no     *)
(* re-driven turn works on its own before the user came by.  The code breaks  *)
(* it: the re-driven agent may set the paused goal active itself.             *)
RestartPauses == ~ (turn.redriven /\ unattended = "cut" /\ turn.alone /\ turn.at = "works")

(* "Only the user can resume it" (GoalTools): a paused goal becomes active by *)
(* a user's request alone.  The code breaks it, by update_goal "active".      *)
OnlyUserResumes ==
    [][Exists(goal) /\ goal.status = "paused" /\ Active(goal') => \E r \in Requests : Answer(r)]_vars

(* "The afterResponse hook books the total": a booked turn stays booked.  The *)
(* code breaks it: a write that crosses the booking puts the old spend back.  *)
SpendStays == [][Exists(goal) /\ Exists(goal') /\ goal'.id = goal.id => goal'.spent >= goal.spent]_vars

(* "A new rubric forgets the verdict about the old one": a goal's verdict is  *)
(* about its rubric.  The code breaks it: the verifier still read the old one. *)
VerdictOnRubric == Exists(goal) => goal.judged \in {0, goal.rubric}
=============================================================================
