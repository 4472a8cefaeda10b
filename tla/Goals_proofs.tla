---------------------------- MODULE Goals_proofs ----------------------------
(***************************************************************************)
(* Proofs about a conversation's goal: its state keeps its shape, it is    *)
(* completed by a verdict alone, its mark stands for a loop at work, and   *)
(* its rounds are bounded.                                                 *)
(***************************************************************************)
EXTENDS Goals, TLAPS

(* A write that takes the goal `before` as it was read keeps which goal it is, *)
(* and completes it only when `asked` says so.                                 *)
Keeps(after, before, asked) ==
    /\ after \in GoalDocuments
    /\ after.id = before.id
    /\ after.status = "completed" => before.status = "completed" \/ asked

(* A goal with some of its fields replaced is a goal. *)
Edited(g, rubric, judged, rounds, status, pause, marked) ==
    [g EXCEPT !.rubric = rubric, !.judged = judged, !.rounds = rounds, !.status = status, !.pause = pause, !.marked = marked]

LEMMA EditedGoal ==
    ASSUME NEW g \in GoalDocuments, NEW rubric \in Nat \ {0}, NEW judged \in Nat, NEW rounds \in Nat,
           NEW status \in Statuses, NEW pause \in Reasons \union {"none"}, NEW marked \in BOOLEAN
    PROVE  LET after == Edited(g, rubric, judged, rounds, status, pause, marked)
           IN  after \in GoalDocuments /\ after.id = g.id /\ after.status = status
BY DEF Edited, GoalDocuments

(* applyGoalPatch keeps the goal's shape and number, and completes it only *)
(* when the patch names that status.                                       *)
LEMMA PatchKeeps ==
    ASSUME NEW g \in GoalDocuments, NEW p \in Patches
    PROVE  Keeps(Patched(g, p), g, p.status = "completed")
<1>1. /\ PatchedStatus(g, p) \in Statuses
      /\ PatchedStatus(g, p) = "completed" => g.status = "completed" \/ p.status = "completed"
  BY DEF PatchedStatus, GoalDocuments, Patches, Statuses
<1>2. PatchedPause(g, p) \in Reasons \union {"none"}
  BY <1>1 DEF PatchedPause, GoalDocuments, Patches, Reasons
<1> DEFINE marked == g.marked /\ PatchedStatus(g, p) = "active"
<1>3. marked \in BOOLEAN
  OBVIOUS
<1> DEFINE rubric == IF Rewritten(g, p) THEN p.rubric ELSE g.rubric
<1> DEFINE judged == IF Rewritten(g, p) THEN 0 ELSE g.judged
<1> DEFINE rounds == IF Rewritten(g, p) \/ Resumes(g, p) THEN 0 ELSE g.rounds
<1>4. rubric \in Nat \ {0} /\ judged \in Nat /\ rounds \in Nat
  BY DEF Rewritten, GoalDocuments, Patches
<1>5. Patched(g, p) = Edited(g, rubric, judged, rounds, PatchedStatus(g, p), PatchedPause(g, p), marked)
  BY DEF Patched, Edited, GoalDocuments
<1> HIDE DEF rubric, judged, rounds, marked
<1>6. Patched(g, p) \in GoalDocuments /\ Patched(g, p).id = g.id /\ Patched(g, p).status = PatchedStatus(g, p)
  BY <1>1, <1>2, <1>3, <1>4, <1>5, EditedGoal
<1>7. QED BY <1>1, <1>6 DEF Keeps

(* Patches used by the writers are patches. *)
LEMMA PatchesAre ==
    /\ Keep \in Patches
    /\ \A s \in Statuses : To(s) \in Patches /\ To(s).status = s
    /\ \A r \in Reasons : Pausing(r) \in Patches /\ Pausing(r).status = "paused"
    /\ Keep.status = "same"
BY DEF Keep, To, Pausing, Patches, Statuses, Reasons

(* recordTurn's write. *)
LEMMA BookKeeps ==
    ASSUME NEW g \in GoalDocuments
    PROVE  Keeps(Booked(g), g, FALSE)
<1> DEFINE paid == [g EXCEPT !.spent = @ + 1]
<1>1. paid \in GoalDocuments /\ paid.id = g.id /\ paid.status = g.status
  BY DEF GoalDocuments
<1>2. Pausing("budget") \in Patches /\ Pausing("budget").status = "paused"
  BY PatchesAre DEF Reasons
<1> HIDE DEF paid
<1>3. Keeps(Patched(paid, Pausing("budget")), paid, FALSE)
  BY <1>1, <1>2, PatchKeeps DEF Keeps
<1>4. Keeps(paid, g, FALSE)
  BY <1>1 DEF Keeps
<1>5. Booked(g) = paid \/ Booked(g) = Patched(paid, Pausing("budget"))
  BY DEF Booked, paid
<1>6. QED BY <1>1, <1>3, <1>4, <1>5 DEF Keeps

(* recordVerification's write completes the goal on a satisfied verdict alone. *)
LEMMA JudgeKeeps ==
    ASSUME NEW g \in GoalDocuments, NEW verdict, NEW reason \in Reasons \union {"none"},
           NEW rubric \in Nat \ {0}, NEW round \in Nat
    PROVE  Keeps(Judged(g, verdict, reason, rubric, round), g, verdict = "satisfied")
<1> DEFINE patch == IF verdict = "satisfied" THEN To("completed")
                    ELSE IF reason # "none" THEN Pausing(reason) ELSE Keep
<1>1. patch \in Patches /\ (patch.status = "completed" => verdict = "satisfied")
  BY PatchesAre DEF Statuses, Reasons
<1>2. Judged(g, verdict, reason, rubric, round) = [Patched(g, patch) EXCEPT !.judged = rubric, !.rounds = round]
  BY DEF Judged
<1> HIDE DEF patch
<1>3. Keeps(Patched(g, patch), g, patch.status = "completed")
  BY <1>1, PatchKeeps
<1>4. QED BY <1>1, <1>2, <1>3 DEF Keeps, GoalDocuments

(* Boot's write pauses a goal, or only takes its mark back. *)
LEMMA InterruptKeeps ==
    ASSUME NEW g \in GoalDocuments
    PROVE  Keeps(Interrupted(g), g, FALSE) /\ Interrupted(g).marked = FALSE /\ Interrupted(g).rounds = g.rounds
<1>1. CASE Active(g)
  <2>1. Pausing("restart") \in Patches /\ Pausing("restart").status = "paused" /\ Pausing("restart").rubric = 0
    BY PatchesAre DEF Reasons, Pausing, Keep
  <2>2. Keeps(Patched(g, Pausing("restart")), g, FALSE)
    BY <2>1, PatchKeeps DEF Keeps
  <2>3. Patched(g, Pausing("restart")).marked = FALSE /\ Patched(g, Pausing("restart")).rounds = g.rounds
    BY <2>1, <1>1 DEF Patched, PatchedStatus, Resumes, Rewritten, GoalDocuments, Active
  <2>4. QED BY <1>1, <2>2, <2>3 DEF Interrupted
<1>2. CASE ~ Active(g)
  BY <1>2 DEF Interrupted, Keeps, GoalDocuments
<1>3. QED BY <1>1, <1>2

-----------------------------------------------------------------------------
(* The calls, and what a call needs before it writes. *)
AnyCalls == LoopCalls \union RequestCalls \union {Book}

Ready(call, g) == call.does # "nothing" /\ (call.does \in {"make", "decline"} \/ Exists(g))

Asks(call) ==
    \/ call.does = "judge" /\ call.verdict = "satisfied"
    \/ call.does = "patch" /\ call.patch.status = "completed"

LEMMA StoredGoal ==
    ASSUME NEW g \in Stored
    PROVE  /\ Exists(g) => g \in GoalDocuments
           /\ ~ Exists(g) => g = NoGoal
BY DEF Stored, Exists, NoGoal, GoalDocuments

(* What a call writes is a goal or no goal; a completed one was completed *)
(* when it was read, or the call asks for it.                             *)
LEMMA WrittenKeeps ==
    ASSUME NEW call \in AnyCalls, NEW g \in Stored, Ready(call, g), call.does # "decline"
    PROVE  /\ Written(call, g) \in Stored
           /\ Exists(Written(call, g)) /\ Written(call, g).status = "completed"
                => Written(call, g).id = g.id /\ (Asks(call) \/ (g.status = "completed" /\ Exists(g)))
<1>1. CASE call.does = "patch"
  <2>1. call.patch \in Patches /\ g \in GoalDocuments /\ Exists(g)
    BY <1>1, StoredGoal DEF AnyCalls, LoopCalls, RequestCalls, Book, Ready
  <2>2. Written(call, g) = Patched(g, call.patch)
    BY <1>1 DEF Written
  <2>3. QED BY <1>1, <2>1, <2>2, PatchKeeps DEF Keeps, Asks, Stored
<1>2. CASE call.does = "clear"
  BY <1>2 DEF Written, Stored, NoGoal, Exists
<1>3. CASE call.does = "make"
  <2>1. call.id \in Nat \ {0} /\ Written(call, g) = NewGoal(call.id)
    BY <1>3 DEF AnyCalls, LoopCalls, RequestCalls, Book, Written
  <2>2. QED BY <2>1 DEF NewGoal, Stored, GoalDocuments, Statuses, Reasons
<1>4. CASE call.does = "book"
  <2>1. g \in GoalDocuments /\ Exists(g) /\ Written(call, g) = Booked(g)
    BY <1>4, StoredGoal DEF Ready, Written
  <2>2. QED BY <2>1, BookKeeps DEF Keeps, Stored
<1>5. CASE call.does = "late"
  <2>1. g \in GoalDocuments /\ Exists(g) /\ call.units \in Nat /\ Written(call, g) = [g EXCEPT !.spent = @ + call.units]
    BY <1>5, StoredGoal DEF Ready, Written, AnyCalls, LoopCalls, RequestCalls, Book
  <2>2. QED BY <2>1 DEF Stored, GoalDocuments
<1>6. CASE call.does = "mark"
  <2>1. g \in GoalDocuments /\ Exists(g) /\ call.on \in BOOLEAN /\ Written(call, g) = [g EXCEPT !.marked = call.on]
    BY <1>6, StoredGoal DEF Ready, Written, AnyCalls, LoopCalls, RequestCalls, Book
  <2>2. QED BY <2>1 DEF Stored, GoalDocuments
<1>7. CASE call.does = "judge"
  <2>1. /\ g \in GoalDocuments /\ Exists(g)
        /\ call.reason \in Reasons \union {"none"} /\ call.rubric \in Nat \ {0} /\ call.round \in Nat
        /\ Written(call, g) = Judged(g, call.verdict, call.reason, call.rubric, call.round)
    BY <1>7, StoredGoal DEF Ready, Written, AnyCalls, LoopCalls, RequestCalls, Book
  <2>2. QED BY <1>7, <2>1, JudgeKeeps DEF Keeps, Stored, Asks
<1>8. QED
  BY <1>1, <1>2, <1>3, <1>4, <1>5, <1>6, <1>7 DEF AnyCalls, LoopCalls, RequestCalls, Book, Ready

(* One write keeps the types of what it writes. *)
LEMMA PersistTypes ==
    ASSUME TypeOK, NEW call \in AnyCalls, NEW g \in Stored, Ready(call, g), Persist(call, g)
    PROVE  /\ goal' \in Stored /\ proposal' \in Nat
           /\ crossed' \in BOOLEAN /\ sent' \in Nat /\ vouched' \subseteq Nat
           /\ vouched \subseteq vouched'
<1>1. goal' \in Stored
  BY WrittenKeeps DEF Persist, TypeOK
<1>2. proposal' \in Nat /\ sent' \in Nat
  BY DEF Persist, TypeOK
<1>3. crossed' \in BOOLEAN
  BY DEF Persist, TypeOK
<1>4. vouched' \subseteq Nat /\ vouched \subseteq vouched'
  <2>1. g.id \in Nat
    BY DEF Stored, GoalDocuments, NoGoal
  <2>2. QED BY <2>1 DEF Persist, TypeOK
<1>5. QED BY <1>1, <1>2, <1>3, <1>4

-----------------------------------------------------------------------------
(* The shape of the state: its types, and that whoever is about to write read a goal. *)
Prepared ==
    /\ turn.at \in {"calls", "writes"} => turn.call.does # "nothing"
    /\ turn.at \in {"writes", "verifies"} => Exists(turn.seen)
    /\ \A t \in Turns : hook[t].at = "located" => Exists(hook[t].seen)
    /\ \A r \in Requests : request[r].at = "located" => Ready(request[r].call, request[r].seen)

Shape == TypeOK /\ Prepared

(* The loop's turns: the ones it calls the service from, and the others. *)
TurnReady(t) ==
    /\ t \in TurnStates
    /\ t.at \in {"calls", "writes"} => t.call.does # "nothing"
    /\ t.at \in {"writes", "verifies"} => Exists(t.seen)

LEMMA GoesOn ==
    ASSUME turn \in TurnStates, NEW call \in LoopCalls
    PROVE  /\ call.does # "nothing" => TurnReady(Calls(call))
           /\ TurnReady(Works) /\ TurnReady(Ends) /\ TurnReady(NoTurn)
           /\ TurnReady(Continues) /\ TurnReady(Close) /\ TurnReady(After(call))
<1>1. NoCall \in LoopCalls /\ NoGoal \in Stored /\ Mark(TRUE) \in LoopCalls /\ Mark(FALSE) \in LoopCalls
  BY DEF NoCall, LoopCalls, Stored, Mark
<1>2. ASSUME NEW c \in LoopCalls, NEW at \in {"calls", "works", "ends"}
      PROVE  Goes(at, c) \in TurnStates /\ Goes(at, c).at = at /\ Goes(at, c).call = c
  BY <1>1, <1>2 DEF Goes, TurnStates
<1>3. call.does # "nothing" => TurnReady(Calls(call))
  BY <1>2 DEF Calls, TurnReady
<1>4. TurnReady(Works) /\ TurnReady(Ends)
  BY <1>1, <1>2 DEF Works, Ends, TurnReady
<1>5. TurnReady(NoTurn)
  BY <1>1 DEF NoTurn, TurnReady, TurnStates
<1>6. ASSUME NEW on \in BOOLEAN
      PROVE  Calls(Mark(on)) \in TurnStates /\ Calls(Mark(on)).at = "calls" /\ Calls(Mark(on)).call.does = "mark"
  <2>1. Mark(on) \in LoopCalls /\ Mark(on).does = "mark"
    BY DEF Mark, LoopCalls
  <2>2. QED BY <2>1, <1>2 DEF Calls
<1>7. TurnReady(Continues)
  <2>1. TurnReady([Calls(Mark(TRUE)) EXCEPT !.alone = TRUE, !.spoke = FALSE, !.used = FALSE])
    BY <1>6 DEF TurnReady, TurnStates
  <2>2. TurnReady([Works EXCEPT !.used = FALSE])
    BY <1>4 DEF TurnReady, TurnStates
  <2>3. QED BY <2>1, <2>2 DEF Continues
<1>8. TurnReady(Close)
  BY <1>5, <1>6 DEF Close, TurnReady, TurnStates
<1>9. TurnReady(After(call))
  <2>1. After(call) \in {Continues, Ends, NoTurn, Works}
    BY DEF After
  <2>2. QED BY <2>1, <1>4, <1>5, <1>7
<1>10. QED BY <1>3, <1>4, <1>5, <1>7, <1>8, <1>9

(* Every step keeps the shape. *)
LEMMA ShapeInit == Init => Shape
<1> SUFFICES ASSUME Init PROVE Shape
  OBVIOUS
<1> USE GoalsAssumption
<1>1. NoGoal \in Stored /\ NewGoal(1) \in Stored /\ NoGoal.id = 0 /\ NewGoal(1).id = 1
  BY DEF Stored, NoGoal, NewGoal, GoalDocuments, Statuses, Reasons
<1>2. goal \in Stored /\ made \in Nat
  BY <1>1 DEF Init
<1>3. turn \in TurnStates /\ turn.at = "idle"
  BY <1>1 DEF Init, NoTurn, NoCall, TurnStates, LoopCalls
<1>4. hook \in [Turns -> HookStates] /\ \A t \in Turns : hook[t].at = "none"
  BY <1>1 DEF Init, Waiting, HookStates
<1>5. request \in [Requests -> RequestStates] /\ \A r \in Requests : request[r].at = "unasked"
  BY <1>1 DEF Init, Unasked, NoCall, RequestStates, RequestCalls
<1>6. ran \in 0 .. MaxTurn
  BY DEF Init
<1>7. QED BY <1>2, <1>3, <1>4, <1>5, <1>6 DEF Init, Shape, TypeOK, Prepared

(* What the user and the model may ask for are calls; none names a completion. *)
LEMMA CallsAre ==
    ASSUME TypeOK
    PROVE  /\ \A c \in UserCalls : /\ c \in RequestCalls /\ c.does # "nothing" /\ ~ Asks(c)
                                   /\ c.does \in {"patch", "clear", "make", "decline"}
           /\ \A c \in ModelCalls : c \in LoopCalls /\ c.does \in {"patch", "clear"} /\ ~ Asks(c)
<1>1. \A p \in UserPatches : p \in Patches /\ p.status # "completed"
  BY DEF UserPatches, Patches, Keep, To, Statuses, TypeOK
<1>2. \A p \in Patches : /\ Patch(p) \in RequestCalls /\ Patch(p) \in LoopCalls
                         /\ Patch(p).does = "patch" /\ Patch(p).patch = p
  BY DEF Patch, RequestCalls, LoopCalls
<1>3. Clear \in RequestCalls /\ Clear \in LoopCalls /\ Decline \in RequestCalls /\ Clear.does = "clear" /\ Decline.does = "decline"
  BY DEF Clear, Decline, RequestCalls, LoopCalls
<1>4. \A id \in Nat \ {0} : Make(id) \in RequestCalls /\ Make(id).does = "make"
  BY DEF Make, RequestCalls
<1>5. made + 1 \in Nat \ {0} /\ (proposal # 0 => proposal \in Nat \ {0})
  BY DEF TypeOK
<1>6. \A p \in {To("active"), To("blocked"), [Keep EXCEPT !.obstacle = "set"], [Keep EXCEPT !.obstacle = "gone"]} :
         p \in Patches /\ p.status # "completed"
  BY DEF Patches, Keep, To, Statuses
<1>7. ASSUME NEW c \in UserCalls
      PROVE  c \in RequestCalls /\ c.does # "nothing" /\ ~ Asks(c) /\ c.does \in {"patch", "clear", "make", "decline"}
  <2>1. \/ \E p \in UserPatches : c = Patch(p)
        \/ c \in {Clear, Decline}
        \/ \E id \in Nat \ {0} : c = Make(id)
    BY <1>5, <1>7 DEF UserCalls
  <2>2. CASE \E p \in UserPatches : c = Patch(p)
    BY <2>2, <1>1, <1>2 DEF Asks
  <2>3. CASE c \in {Clear, Decline}
    BY <2>3, <1>3 DEF Asks
  <2>4. CASE \E id \in Nat \ {0} : c = Make(id)
    BY <2>4, <1>4 DEF Asks
  <2>5. QED BY <2>1, <2>2, <2>3, <2>4
<1>8. ASSUME NEW c \in ModelCalls
      PROVE  c \in LoopCalls /\ c.does \in {"patch", "clear"} /\ ~ Asks(c)
  <2>1. \/ c = Clear
        \/ \E p \in {To("active"), To("blocked"), [Keep EXCEPT !.obstacle = "set"], [Keep EXCEPT !.obstacle = "gone"]} : c = Patch(p)
    BY <1>8 DEF ModelCalls
  <2>2. QED BY <2>1, <1>2, <1>3, <1>6 DEF Asks
<1>9. QED BY <1>7, <1>8

(* The calls the gate makes are calls; a verdict alone asks for the completion. *)
LEMMA GateCallsAre ==
    /\ \A reason \in Reasons : /\ Patch(Pausing(reason)) \in LoopCalls /\ Patch(Pausing(reason)).does = "patch"
                               /\ Patch(Pausing(reason)).patch = Pausing(reason) /\ ~ Asks(Patch(Pausing(reason)))
    /\ \A units \in Nat : Late(units) \in LoopCalls /\ Late(units).does = "late"
    /\ \A verdict \in {"satisfied", "failed", "needs_revision"}, reason \in Reasons \union {"none"},
          rubric \in Nat \ {0}, round \in Nat :
          LET c == Judge(verdict, reason, rubric, round)
          IN  c \in LoopCalls /\ c.does = "judge" /\ c.verdict = verdict /\ c.reason = reason /\ c.round = round
<1>1. \A reason \in Reasons : Pausing(reason) \in Patches /\ Pausing(reason).status = "paused"
  BY PatchesAre
<1>2. \A p \in Patches : Patch(p) \in LoopCalls /\ Patch(p).does = "patch" /\ Patch(p).patch = p
  BY DEF Patch, LoopCalls
<1>3. \A units \in Nat : Late(units) \in LoopCalls /\ Late(units).does = "late"
  BY DEF Late, LoopCalls
<1>4. ASSUME NEW verdict \in {"satisfied", "failed", "needs_revision"}, NEW reason \in Reasons \union {"none"},
             NEW rubric \in Nat \ {0}, NEW round \in Nat
      PROVE  LET c == Judge(verdict, reason, rubric, round)
             IN  c \in LoopCalls /\ c.does = "judge" /\ c.verdict = verdict /\ c.reason = reason /\ c.round = round
  BY DEF Judge, LoopCalls
<1>5. \A reason \in Reasons : ~ Asks(Patch(Pausing(reason)))
  BY <1>1, <1>2 DEF Asks
<1>6. QED BY <1>1, <1>2, <1>3, <1>4, <1>5

(* The turns the gate and the verifier go on with. *)
LEMMA VerifyGoesOn ==
    ASSUME TypeOK, Prepared, Verify
    PROVE  TurnReady(turn')
<1>1. turn \in TurnStates /\ turn.seen \in GoalDocuments
  BY StoredGoal DEF TypeOK, Prepared, Verify, TurnStates
<1>2. turn.seen.rubric \in Nat \ {0} /\ turn.seen.rounds + 1 \in Nat
  BY <1>1 DEF GoalDocuments
<1>3. RevisionPauses \subseteq Reasons \union {"none"}
  BY DEF RevisionPauses, Reasons
<1>4. "failed" \in Reasons
  BY DEF Reasons
<1>5. \E c \in LoopCalls : c.does # "nothing" /\ turn' = Calls(c)
  <2> DEFINE J(verdict, reason) == Judge(verdict, reason, turn.seen.rubric, turn.seen.rounds + 1)
  <2>1. \A verdict \in {"satisfied", "failed", "needs_revision"}, reason \in Reasons \union {"none"} :
           J(verdict, reason) \in LoopCalls /\ J(verdict, reason).does = "judge"
    BY <1>2, GateCallsAre
  <2>2. Patch(Pausing("failed")) \in LoopCalls /\ Patch(Pausing("failed")).does = "patch"
    BY <1>4, GateCallsAre
  <2>3. \/ turn' = Calls(Patch(Pausing("failed")))
        \/ \E verdict \in {"satisfied", "failed", "needs_revision"}, reason \in Reasons \union {"none"} :
              turn' = Calls(J(verdict, reason))
    BY <1>3, <1>4 DEF Verify
  <2> HIDE DEF J
  <2>4. QED BY <2>1, <2>2, <2>3
<1>6. QED BY <1>1, <1>5, GoesOn

LEMMA GateGoesOn ==
    ASSUME TypeOK, Prepared, Gate
    PROVE  TurnReady(turn')
<1>1. turn \in TurnStates /\ turn.at = "works"
  BY DEF TypeOK, Gate
<1>2. \A reason \in Reasons : TurnReady(Calls(Patch(Pausing(reason))))
  BY <1>1, GateCallsAre, GoesOn
<1>3. {"user_message", "budget", "empty_continuations"} \subseteq Reasons
  BY DEF Reasons
<1>4. TurnReady([Calls(Patch(Pausing("empty_continuations"))) EXCEPT !.empty = @ + 1])
  BY <1>2, <1>3 DEF TurnReady, TurnStates
<1>5. TurnReady([turn EXCEPT !.empty = @ + 1])
  BY <1>1 DEF TurnReady, TurnStates
<1>6. Exists(goal) => TurnReady([turn EXCEPT !.at = "verifies", !.seen = goal, !.empty = 0])
  BY <1>1 DEF TurnReady, TurnStates, TypeOK
<1>7. TurnReady(Ends)
  <2>1. NoCall \in LoopCalls
    BY DEF NoCall, LoopCalls
  <2>2. QED BY <1>1, <2>1, GoesOn
<1>8. QED
  BY <1>2, <1>3, <1>4, <1>5, <1>6, <1>7 DEF Gate, Active

(* The loop's own steps keep the shape of its turn. *)
LEMMA LoopCallReady ==
    ASSUME TypeOK, Prepared, turn.at = "writes"
    PROVE  /\ turn.call \in LoopCalls /\ turn.call \in AnyCalls /\ turn.seen \in Stored
           /\ Ready(turn.call, turn.seen) /\ turn.call.does # "decline" /\ turn.call.does # "make"
<1>1. turn.call \in LoopCalls /\ turn.seen \in Stored
  BY DEF TypeOK, TurnStates
<1>2. turn.call.does # "decline" /\ turn.call.does # "make"
  BY <1>1 DEF LoopCalls
<1>3. QED BY <1>1, <1>2 DEF AnyCalls, Ready, Prepared

LEMMA RequestCallReady ==
    ASSUME TypeOK, Prepared, NEW r \in Requests, request[r].at = "located"
    PROVE  /\ request[r].call \in RequestCalls /\ request[r].call \in AnyCalls
           /\ request[r].seen \in Stored /\ Ready(request[r].call, request[r].seen)
BY DEF TypeOK, Prepared, RequestStates, AnyCalls

LEMMA HookCallReady ==
    ASSUME TypeOK, Prepared, NEW t \in Turns, hook[t].at = "located"
    PROVE  Book \in AnyCalls /\ hook[t].seen \in Stored /\ Ready(Book, hook[t].seen) /\ ~ Asks(Book)
BY DEF TypeOK, Prepared, HookStates, AnyCalls, Ready, Book, Asks

LEMMA LoopLocatesGoesOn ==
    ASSUME TypeOK, Prepared, LoopLocates
    PROVE  TurnReady(turn')
<1>1. turn \in TurnStates /\ turn.call \in LoopCalls /\ turn.call.does # "nothing" /\ goal \in Stored
  BY DEF TypeOK, Prepared, LoopLocates, TurnStates
<1>2. turn.call.does # "make" /\ turn.call.does # "decline"
  BY <1>1 DEF LoopCalls
<1>3. ~ Skips(turn.call, goal, proposal) => Exists(goal)
  BY <1>2 DEF Skips
<1>4. ~ Skips(turn.call, goal, proposal) => TurnReady([turn EXCEPT !.at = "writes", !.seen = goal])
  BY <1>1, <1>3 DEF TurnReady, TurnStates
<1>5. QED BY <1>1, <1>4, GoesOn DEF LoopLocates

(* A turn that has just begun to open. *)
LEMMA Opening ==
    /\ TurnReady([NoTurn EXCEPT !.at = "opens", !.redriven = TRUE])
    /\ TurnReady([NoTurn EXCEPT !.at = "opens"])
BY DEF NoTurn, NoCall, TurnReady, TurnStates, LoopCalls, Stored

(* What a step that touches only one part leaves alone. *)
LEMMA ShapeParts ==
    ASSUME TypeOK, Prepared,
           goal' \in Stored, proposal' \in Nat, TurnReady(turn'),
           hook' \in [Turns -> HookStates], \A t \in Turns : hook'[t].at = "located" => Exists(hook'[t].seen),
           request' \in [Requests -> RequestStates],
           \A r \in Requests : request'[r].at = "located" => Ready(request'[r].call, request'[r].seen),
           remembered' \in BOOLEAN, up' \in BOOLEAN, open' \in BOOLEAN,
           made' \in Nat, ran' \in 0 .. MaxTurn, tools' \in Nat, crashes' \in Nat, faults' \in Nat,
           crossed' \in BOOLEAN, sent' \in Nat, vouched' \subseteq Nat, unattended' \in {"no", "working", "cut"}
    PROVE  Shape'
BY DEF Shape, TypeOK, Prepared, TurnReady

LEMMA ShapeStep ==
    ASSUME Shape, [Next]_vars
    PROVE  Shape'
<1> USE GoalsAssumption
<1>1. /\ TypeOK /\ Prepared /\ TurnReady(turn)
      /\ \A t \in Turns : hook[t].at = "located" => Exists(hook[t].seen)
      /\ \A r \in Requests : request[r].at = "located" => Ready(request[r].call, request[r].seen)
  BY DEF Shape, TypeOK, Prepared, TurnReady
<1>2. /\ goal \in Stored /\ proposal \in Nat /\ turn \in TurnStates /\ hook \in [Turns -> HookStates]
      /\ request \in [Requests -> RequestStates] /\ remembered \in BOOLEAN /\ up \in BOOLEAN /\ open \in BOOLEAN
      /\ made \in Nat /\ ran \in 0 .. MaxTurn /\ tools \in Nat /\ crashes \in Nat /\ faults \in Nat
      /\ crossed \in BOOLEAN /\ sent \in Nat /\ vouched \subseteq Nat /\ unattended \in {"no", "working", "cut"}
  BY <1>1 DEF TypeOK
<1>3. NoCall \in LoopCalls /\ NoCall \in RequestCalls /\ NoGoal \in Stored
  BY DEF NoCall, LoopCalls, RequestCalls, Stored
<1>4. TurnReady(Works) /\ TurnReady(Ends) /\ TurnReady(NoTurn) /\ TurnReady(Close)
  BY <1>2, <1>3, GoesOn
<1>5. Waiting \in HookStates /\ Waiting.at = "none"
  BY <1>3 DEF Waiting, HookStates
<1>6. Unasked \in RequestStates /\ Unasked.at = "unasked"
      /\ [Unasked EXCEPT !.at = "answered"] \in RequestStates /\ [Unasked EXCEPT !.at = "answered"].at = "answered"
  BY <1>3 DEF Unasked, RequestStates
<1>7. ASSUME NEW r \in Requests, Locate(r) PROVE Shape'
  <2>1. PICK c \in UserCalls :
          /\ made' = Newest(c)
          /\ request' = [request EXCEPT ![r] = IF Skips(c, goal, proposal) THEN [Unasked EXCEPT !.at = "answered"]
                                               ELSE [at |-> "located", call |-> c, seen |-> goal]]
    BY <1>7 DEF Locate
  <2>2. c \in RequestCalls /\ c.does # "nothing" /\ c.does \in {"patch", "clear", "make", "decline"}
    BY <1>1, CallsAre
  <2>3. ~ Skips(c, goal, proposal) => Ready(c, goal)
    BY <2>2 DEF Skips, Ready
  <2>4. [at |-> "located", call |-> c, seen |-> goal] \in RequestStates
    BY <1>2, <2>2 DEF RequestStates
  <2>5. request' \in [Requests -> RequestStates]
        /\ \A q \in Requests : request'[q].at = "located" => Ready(request'[q].call, request'[q].seen)
    BY <1>1, <1>2, <1>6, <2>1, <2>3, <2>4
  <2>6. made' \in Nat
    BY <1>2, <2>1 DEF Newest
  <2>7. QED BY <1>1, <1>2, <1>7, <2>5, <2>6, ShapeParts DEF Locate, store, history
<1>8. ASSUME NEW r \in Requests, Answer(r) PROVE Shape'
  <2>1. /\ goal' \in Stored /\ proposal' \in Nat /\ crossed' \in BOOLEAN /\ sent' \in Nat /\ vouched' \subseteq Nat
    BY <1>1, <1>8, RequestCallReady, PersistTypes DEF Answer
  <2>2. request' \in [Requests -> RequestStates]
        /\ \A q \in Requests : request'[q].at = "located" => Ready(request'[q].call, request'[q].seen)
    BY <1>1, <1>2, <1>6, <1>8 DEF Answer
  <2>3. QED BY <1>1, <1>2, <1>8, <2>1, <2>2, ShapeParts DEF Answer, counters
<1>9. CASE StartTurn
  <2>1. ran' \in 0 .. MaxTurn
    BY <1>9 DEF StartTurn, Turns
  <2>2. TurnReady(turn')
    BY <1>9, Opening DEF StartTurn
  <2>3. QED BY <1>1, <1>2, <1>9, <2>1, <2>2, ShapeParts DEF StartTurn, store
<1>10. CASE Open
  <2>1. TurnReady(turn')
    <3>1. \A units \in 1 .. MaxLate : Late(units) \in LoopCalls /\ Late(units).does = "late"
      BY GateCallsAre
    <3>2. QED BY <1>2, <1>4, <1>10, <3>1, GoesOn DEF Open
  <2>2. QED BY <1>1, <1>2, <1>10, <2>1, ShapeParts DEF Open, store, counters, history
<1>11. CASE Gate
  BY <1>1, <1>2, <1>11, GateGoesOn, ShapeParts DEF Gate, store, counters, history
<1>12. CASE Verify
  BY <1>1, <1>2, <1>12, VerifyGoesOn, ShapeParts DEF Verify, store, counters, history
<1>13. CASE LoopLocates
  BY <1>1, <1>2, <1>13, LoopLocatesGoesOn, ShapeParts DEF LoopLocates, store, counters, history
<1>14. CASE LoopWrites
  <2>1. turn.call \in LoopCalls /\ turn.call \in AnyCalls /\ turn.seen \in Stored /\ Ready(turn.call, turn.seen)
    BY <1>1, <1>14, LoopCallReady DEF LoopWrites
  <2>2. /\ goal' \in Stored /\ proposal' \in Nat /\ crossed' \in BOOLEAN /\ sent' \in Nat /\ vouched' \subseteq Nat
    BY <1>1, <1>14, <2>1, PersistTypes DEF LoopWrites
  <2>3. TurnReady(turn')
    BY <1>2, <1>14, <2>1, GoesOn DEF LoopWrites
  <2>4. unattended' \in {"no", "working", "cut"}
    BY <1>2, <1>14 DEF LoopWrites
  <2>5. QED BY <1>1, <1>2, <1>14, <2>2, <2>3, <2>4, ShapeParts DEF LoopWrites, counters
<1>15. CASE Finalize
  <2>1. hook' \in [Turns -> HookStates] /\ \A t \in Turns : hook'[t].at = "located" => Exists(hook'[t].seen)
    BY <1>1, <1>2, <1>15 DEF Finalize, HookStates
  <2>2. unattended' \in {"no", "working", "cut"}
    BY <1>2, <1>15 DEF Finalize, Attended
  <2>3. QED BY <1>1, <1>2, <1>4, <1>15, <2>1, <2>2, ShapeParts DEF Finalize, store, counters
<1>16. CASE UseTool
  <2>1. TurnReady(turn')
    BY <1>1, <1>16 DEF UseTool, TurnReady, TurnStates
  <2>2. QED BY <1>1, <1>2, <1>16, <2>1, ShapeParts DEF UseTool, store, counters, history
<1>17. CASE UseGoalTool
  <2>1. PICK c \in ModelCalls : turn' = [Calls(c) EXCEPT !.used = @ \/ turn.alone]
    BY <1>17 DEF UseGoalTool
  <2>2. TurnReady(Calls(c))
    BY <1>1, <1>2, CallsAre, GoesOn
  <2>3. TurnReady(turn')
    BY <2>1, <2>2 DEF TurnReady, TurnStates
  <2>4. QED BY <1>1, <1>2, <1>17, <2>3, ShapeParts DEF UseGoalTool, store, history
<1>18. CASE Propose
  <2>1. TurnReady(turn')
    BY <1>1, <1>18 DEF Propose, TurnReady, TurnStates
  <2>2. QED BY <1>1, <1>2, <1>18, <2>1, ShapeParts DEF Propose, history
<1>19. CASE Speak
  <2>1. TurnReady(turn')
    BY <1>1, <1>19 DEF Speak, TurnReady, TurnStates
  <2>2. QED BY <1>1, <1>2, <1>19, <2>1, ShapeParts DEF Speak, store, counters, history
<1>20. CASE LeaveLoop
  BY <1>1, <1>2, <1>4, <1>20, ShapeParts DEF LeaveLoop, store, counters, history
<1>21. CASE LoopCallFails
  <2>1. TurnReady(turn')
    BY <1>2, <1>4, <1>21, GoesOn DEF LoopCallFails, TurnStates
  <2>2. QED BY <1>1, <1>2, <1>21, <2>1, ShapeParts DEF LoopCallFails, store, history
<1>22. CASE LoopThrows
  <2>1. unattended' \in {"no", "working", "cut"}
    BY <1>2, <1>22 DEF LoopThrows, Attended
  <2>2. QED BY <1>1, <1>2, <1>4, <1>22, <2>1, ShapeParts DEF LoopThrows, store
<1>23. ASSUME NEW t \in Turns, HookLocates(t) PROVE Shape'
  <2>1. hook' \in [Turns -> HookStates] /\ \A u \in Turns : hook'[u].at = "located" => Exists(hook'[u].seen)
    BY <1>1, <1>2, <1>5, <1>23 DEF HookLocates, HookStates
  <2>2. remembered' \in BOOLEAN
    BY <1>2, <1>23 DEF HookLocates
  <2>3. QED BY <1>1, <1>2, <1>23, <2>1, <2>2, ShapeParts DEF HookLocates, store, counters, history
<1>24. ASSUME NEW t \in Turns, HookBooks(t) PROVE Shape'
  <2>1. /\ goal' \in Stored /\ proposal' \in Nat /\ crossed' \in BOOLEAN /\ sent' \in Nat /\ vouched' \subseteq Nat
    BY <1>1, <1>24, HookCallReady, PersistTypes DEF HookBooks
  <2>2. hook' \in [Turns -> HookStates] /\ \A u \in Turns : hook'[u].at = "located" => Exists(hook'[u].seen)
    BY <1>1, <1>2, <1>5, <1>24 DEF HookBooks
  <2>3. QED BY <1>1, <1>2, <1>24, <2>1, <2>2, ShapeParts DEF HookBooks, counters
<1>25. ASSUME NEW t \in Turns, HookFails(t) PROVE Shape'
  <2>1. hook' \in [Turns -> HookStates] /\ \A u \in Turns : hook'[u].at = "located" => Exists(hook'[u].seen)
    BY <1>1, <1>2, <1>5, <1>25 DEF HookFails
  <2>2. QED BY <1>1, <1>2, <1>25, <2>1, ShapeParts DEF HookFails, store, history
<1>26. CASE Crash
  <2>1. hook' \in [Turns -> HookStates] /\ \A u \in Turns : hook'[u].at = "located" => Exists(hook'[u].seen)
    BY <1>5, <1>26 DEF Crash
  <2>2. request' \in [Requests -> RequestStates]
        /\ \A q \in Requests : request'[q].at = "located" => Ready(request'[q].call, request'[q].seen)
    BY <1>6, <1>26 DEF Crash
  <2>3. open' \in BOOLEAN /\ unattended' \in {"no", "working", "cut"}
    BY <1>2, <1>26 DEF Crash
  <2>4. TurnReady(turn')
    <3>1. turn' = NoTurn
      BY <1>26 DEF Crash
    <3>2. QED BY <1>4, <3>1
  <2>5. /\ goal' = goal /\ proposal' = proposal /\ made' = made /\ ran' = ran /\ tools' = tools /\ faults' = faults
        /\ crossed' = crossed /\ sent' = sent /\ vouched' = vouched
        /\ remembered' = FALSE /\ up' = FALSE /\ crashes' = crashes + 1
    BY <1>26 DEF Crash, store
  <2>6. crashes' \in Nat
    BY <1>2, <2>5
  <2>10. remembered' \in BOOLEAN /\ up' \in BOOLEAN
    BY <1>26 DEF Crash
  <2>7. /\ goal' \in Stored /\ proposal' \in Nat /\ made' \in Nat /\ ran' \in 0 .. MaxTurn /\ tools' \in Nat
        /\ faults' \in Nat /\ crossed' \in BOOLEAN /\ sent' \in Nat
    BY <1>2, <2>5
  <2>8. vouched' \subseteq Nat
    BY <1>2, <2>5
  <2>9. QED BY <1>1, <2>1, <2>2, <2>3, <2>4, <2>6, <2>7, <2>8, <2>10, ShapeParts
<1>27. CASE Boot
  <2>1. goal' \in Stored
    <3>1. Exists(goal) => Interrupted(goal) \in Stored
      BY <1>2, StoredGoal, InterruptKeeps DEF Keeps, Stored
    <3>2. goal' \in {goal, Interrupted(goal)} /\ (goal' = goal \/ Exists(goal))
      BY <1>27 DEF Boot
    <3>3. QED BY <1>2, <3>1, <3>2
  <2>2. QED BY <1>1, <1>2, <1>27, <2>1, ShapeParts DEF Boot, history
<1>28. CASE Redrive
  <2>1. TurnReady(turn')
    BY <1>4, <1>28, Opening DEF Redrive
  <2>2. QED BY <1>1, <1>2, <1>28, <2>1, ShapeParts DEF Redrive, store, counters, history
<1>29. CASE UNCHANGED vars
  BY <1>1, <1>2, <1>29, ShapeParts DEF vars, store, counters, history
<1>30. QED
  BY <1>7, <1>8, <1>9, <1>10, <1>11, <1>12, <1>13, <1>14, <1>15, <1>16, <1>17, <1>18, <1>19, <1>20, <1>21, <1>22, <1>23,
     <1>24, <1>25, <1>26, <1>27, <1>28, <1>29 DEF Next, Loop

(* The state of a goal keeps its shape. *)
THEOREM TypeCorrect == Spec => []TypeOK
<1>1. Spec => []Shape
  BY ShapeInit, ShapeStep, PTL DEF Spec
<1>2. Shape => TypeOK
  BY DEF Shape
<1>3. QED BY <1>1, <1>2, PTL

-----------------------------------------------------------------------------
(* The fields of the turns the loop goes on with. *)
LEMMA GoesFields ==
    ASSUME turn \in TurnStates, NEW call \in LoopCalls
    PROVE  /\ Calls(call).at = "calls" /\ Calls(call).call = call /\ Calls(call).seen = NoGoal /\ Calls(call).alone = turn.alone
           /\ Works.at = "works" /\ Works.call = NoCall /\ Works.seen = NoGoal /\ Works.alone = turn.alone
           /\ Ends.at = "ends" /\ Ends.call = NoCall /\ Ends.seen = NoGoal /\ Ends.alone = turn.alone
           /\ NoTurn.at = "idle" /\ NoTurn.call = NoCall /\ NoTurn.seen = NoGoal /\ NoTurn.alone = FALSE
<1>1. \A at, c : /\ Goes(at, c).at = at /\ Goes(at, c).call = c /\ Goes(at, c).seen = NoGoal
                 /\ Goes(at, c).alone = turn.alone
  BY DEF Goes, TurnStates
<1>2. QED BY <1>1 DEF Calls, Works, Ends, NoTurn

LEMMA MarksDiffer == Mark(TRUE) # Mark(FALSE) /\ NoCall # Mark(TRUE) /\ NoCall # Mark(FALSE)
                     /\ \A on \in BOOLEAN : Mark(on).does = "mark" /\ Mark(on).on = on /\ Mark(on) \in LoopCalls
<1>1. Mark(TRUE).on = TRUE /\ Mark(FALSE).on = FALSE
  BY DEF Mark
<1>2. NoCall.does = "nothing" /\ \A on \in BOOLEAN : Mark(on).does = "mark" /\ Mark(on).on = on /\ Mark(on) \in LoopCalls
  BY DEF Mark, NoCall, LoopCalls
<1>3. QED BY <1>1, <1>2

LEMMA ContinuesFields ==
    ASSUME turn \in TurnStates
    PROVE  /\ Continues.seen = NoGoal /\ Continues.alone = TRUE
           /\ \/ Continues.at = "calls" /\ Continues.call = Mark(TRUE)
              \/ Continues.at = "works" /\ Continues.call = NoCall
<1>1. Mark(TRUE) \in LoopCalls
  BY MarksDiffer
<1>2. CASE ~ turn.alone
  <2> DEFINE c == Calls(Mark(TRUE))
  <2>1. c.at = "calls" /\ c.call = Mark(TRUE) /\ c.seen = NoGoal
    BY <1>1, GoesFields
  <2>2. c \in TurnStates
    BY <1>1, GoesOn, MarksDiffer DEF TurnReady
  <2>3. Continues = [c EXCEPT !.alone = TRUE, !.spoke = FALSE, !.used = FALSE]
    BY <1>2 DEF Continues
  <2> HIDE DEF c
  <2>4. QED BY <2>1, <2>2, <2>3 DEF TurnStates
<1>3. CASE turn.alone
  <2>1. Works.at = "works" /\ Works.call = NoCall /\ Works.seen = NoGoal /\ Works.alone = turn.alone /\ Works \in TurnStates
    BY <1>1, GoesFields, GoesOn DEF TurnReady
  <2>2. Continues = [Works EXCEPT !.used = FALSE]
    BY <1>3 DEF Continues
  <2>3. turn.alone = TRUE
    BY <1>3 DEF TurnStates
  <2>4. QED BY <2>1, <2>2, <2>3 DEF TurnStates
<1>4. QED BY <1>2, <1>3

LEMMA CloseFields ==
    ASSUME turn \in TurnStates
    PROVE  /\ Close.seen = NoGoal /\ Close.alone = FALSE
           /\ \/ turn.alone /\ Close.at = "calls" /\ Close.call = Mark(FALSE)
              \/ ~ turn.alone /\ Close = NoTurn
<1>1. Mark(FALSE) \in LoopCalls /\ Mark(FALSE).does = "mark"
  BY MarksDiffer
<1>2. CASE turn.alone
  <2> DEFINE c == Calls(Mark(FALSE))
  <2>1. c.at = "calls" /\ c.call = Mark(FALSE) /\ c.seen = NoGoal
    BY <1>1, GoesFields
  <2>2. c \in TurnStates
    BY <1>1, GoesOn DEF TurnReady
  <2>3. Close = [c EXCEPT !.alone = FALSE]
    BY <1>2 DEF Close
  <2> HIDE DEF c
  <2>4. QED BY <1>2, <2>1, <2>2, <2>3 DEF TurnStates
<1>3. CASE ~ turn.alone
  BY <1>1, <1>3, GoesFields DEF Close
<1>4. QED BY <1>2, <1>3

(* Where the loop goes on after a call. *)
LEMMA AfterFields ==
    ASSUME turn \in TurnStates, NEW call \in LoopCalls, call.does # "nothing"
    PROVE  /\ SendsBack(call) => After(call) = Continues
           /\ call = Mark(FALSE) => After(call) = NoTurn
           /\ ~ SendsBack(call) /\ call # Mark(FALSE) => After(call) \in {Works, Ends}
           /\ After(call).seen = NoGoal
           /\ After(call).at \notin {"verifies", "writes"}
           /\ After(call).call \in {NoCall, Mark(TRUE)}
           /\ After(call).call = Mark(TRUE) => After(call).alone
<1>1. call.does = "mark" /\ ~ call.on => call = Mark(FALSE)
  BY DEF LoopCalls, Mark
<1>2. Mark(FALSE).does = "mark" /\ Mark(FALSE).on = FALSE
  BY MarksDiffer
<1>3. SendsBack(call) => After(call) = Continues
  BY DEF After, SendsBack
<1>4. call = Mark(FALSE) => After(call) = NoTurn
  BY <1>2 DEF After, SendsBack
<1>5. ~ SendsBack(call) /\ call # Mark(FALSE) => After(call) \in {Works, Ends}
  BY <1>1 DEF After
<1>6. QED BY <1>3, <1>4, <1>5, GoesFields, ContinuesFields, MarksDiffer

-----------------------------------------------------------------------------
(* A goal is completed by a verdict alone: whoever holds a completed goal, *)
(* read or stored, holds one a satisfied verdict was recorded on, and      *)
(* nobody but the verdict asks for a completion.                           *)
Settled(g) == Exists(g) /\ g.status = "completed" => g.id \in vouched

Vouched ==
    /\ Settled(goal) /\ Settled(turn.seen)
    /\ turn.call.does = "patch" => ~ Asks(turn.call)
    /\ \A t \in Turns : Settled(hook[t].seen)
    /\ \A r \in Requests : Settled(request[r].seen) /\ ~ Asks(request[r].call)

LEMMA PersistVouches ==
    ASSUME TypeOK, NEW call \in AnyCalls, NEW g \in Stored, Ready(call, g), Persist(call, g),
           Settled(goal), Settled(g), call.does = "patch" => ~ Asks(call)
    PROVE  Settled(goal)' /\ vouched \subseteq vouched'
<1>1. vouched \subseteq vouched'
  BY PersistTypes
<1>2. CASE call.does = "decline"
  BY <1>1, <1>2 DEF Persist, Settled
<1>3. CASE call.does # "decline"
  <2>1. goal' = Written(call, g)
    BY <1>3 DEF Persist
  <2>2. Exists(goal') /\ goal'.status = "completed" => goal'.id = g.id /\ (Asks(call) \/ (g.status = "completed" /\ Exists(g)))
    BY <1>3, <2>1, WrittenKeeps
  <2>3. Asks(call) => g.id \in vouched'
    BY DEF Asks, Persist
  <2>4. QED BY <1>1, <2>2, <2>3 DEF Settled
<1>4. QED BY <1>2, <1>3

(* What a step must show: everybody holds what somebody held, or nothing. *)
LEMMA VouchedParts ==
    ASSUME Vouched, vouched \subseteq vouched', Settled(goal)',
           turn'.seen \in {turn.seen, goal, NoGoal}, turn'.call.does = "patch" => ~ Asks(turn'.call),
           \A t \in Turns : hook'[t].seen \in {hook[t].seen, goal, NoGoal},
           \A r \in Requests : request'[r].seen \in {request[r].seen, goal, NoGoal} /\ ~ Asks(request'[r].call)
    PROVE  Vouched'
<1>1. ~ Exists(NoGoal)
  BY DEF Exists, NoGoal
<1>2. \A g : Settled(g) => (Exists(g) /\ g.status = "completed" => g.id \in vouched')
  BY DEF Settled
<1>3. \A g \in {turn.seen, goal, NoGoal} : Exists(g) /\ g.status = "completed" => g.id \in vouched'
  BY <1>1, <1>2 DEF Vouched
<1>4. \A t \in Turns : \A g \in {hook[t].seen, goal, NoGoal} : Exists(g) /\ g.status = "completed" => g.id \in vouched'
  BY <1>1, <1>2 DEF Vouched
<1>5. \A r \in Requests : \A g \in {request[r].seen, goal, NoGoal} : Exists(g) /\ g.status = "completed" => g.id \in vouched'
  BY <1>1, <1>2 DEF Vouched
<1>6. Settled(turn.seen)'
  BY <1>3 DEF Settled
<1>7. \A t \in Turns : Settled(hook[t].seen)'
  BY <1>4 DEF Settled
<1>8. \A r \in Requests : Settled(request[r].seen)'
  BY <1>5 DEF Settled
<1>9. QED BY <1>6, <1>7, <1>8 DEF Vouched

(* The verifier is followed by a pause or by the record of its verdict. *)
LEMMA VerifyCalls ==
    ASSUME TypeOK, Prepared, Verify
    PROVE  /\ turn'.at = "calls" /\ turn'.seen = NoGoal /\ turn'.alone = turn.alone
           /\ turn'.call.does # "mark"
           /\ turn'.call.does = "patch" => ~ Asks(turn'.call)
           /\ turn'.call.does = "judge" => turn'.call.round = turn.seen.rounds + 1
           /\ SendsBack(turn'.call) => turn.seen.rounds + 1 < MaxRounds
<1>1. turn \in TurnStates /\ turn.seen \in GoalDocuments
  BY StoredGoal DEF TypeOK, Prepared, Verify, TurnStates
<1>2. turn.seen.rubric \in Nat \ {0} /\ turn.seen.rounds + 1 \in Nat
  BY <1>1 DEF GoalDocuments
<1>3. RevisionPauses \subseteq Reasons \union {"none"} /\ "failed" \in Reasons
  BY DEF RevisionPauses, Reasons
<1>4. "none" \in RevisionPauses => turn.seen.rounds + 1 < MaxRounds
  BY <1>2, GoalsAssumption DEF RevisionPauses
<1> DEFINE J(verdict, reason) == Judge(verdict, reason, turn.seen.rubric, turn.seen.rounds + 1)
<1>5. \A verdict \in {"satisfied", "failed", "needs_revision"}, reason \in Reasons \union {"none"} :
         /\ J(verdict, reason) \in LoopCalls /\ J(verdict, reason).does = "judge" /\ J(verdict, reason).verdict = verdict
         /\ J(verdict, reason).reason = reason /\ J(verdict, reason).round = turn.seen.rounds + 1
  BY <1>2, GateCallsAre
<1>6. \/ turn' = Calls(Patch(Pausing("failed")))
      \/ turn' = Calls(J("satisfied", "none"))
      \/ turn' = Calls(J("failed", "failed"))
      \/ \E reason \in RevisionPauses : turn' = Calls(J("needs_revision", reason))
  BY DEF Verify
<1> HIDE DEF J
<1>7. ASSUME NEW c \in LoopCalls, turn' = Calls(c)
      PROVE  turn'.at = "calls" /\ turn'.seen = NoGoal /\ turn'.alone = turn.alone /\ turn'.call = c
  BY <1>1, <1>7, GoesFields
<1>8. CASE turn' = Calls(Patch(Pausing("failed")))
  BY <1>3, <1>7, <1>8, GateCallsAre DEF SendsBack
<1>9. CASE turn' = Calls(J("satisfied", "none")) \/ turn' = Calls(J("failed", "failed"))
  BY <1>3, <1>5, <1>7, <1>9 DEF SendsBack
<1>10. CASE \E reason \in RevisionPauses : turn' = Calls(J("needs_revision", reason))
  BY <1>3, <1>4, <1>5, <1>7, <1>10 DEF SendsBack
<1>11. QED BY <1>6, <1>8, <1>9, <1>10

LEMMA VouchedInit == Init => Vouched
<1> SUFFICES ASSUME Init PROVE Vouched
  OBVIOUS
<1>1. Settled(NoGoal) /\ Settled(NewGoal(1)) /\ ~ Asks(NoCall) /\ NoCall.does = "nothing"
  BY DEF Settled, Exists, NoGoal, NewGoal, Asks, NoCall
<1>2. Settled(goal)
  BY <1>1 DEF Init
<1>3. turn.seen = NoGoal /\ turn.call = NoCall
  BY DEF Init, NoTurn
<1>4. \A t \in Turns : hook[t].seen = NoGoal
  BY DEF Init, Waiting
<1>5. \A r \in Requests : request[r].seen = NoGoal /\ request[r].call = NoCall
  BY DEF Init, Unasked
<1>6. QED BY <1>1, <1>2, <1>3, <1>4, <1>5 DEF Vouched

LEMMA VouchedStep ==
    ASSUME Shape, Vouched, [Next]_vars
    PROVE  Vouched'
<1>1. TypeOK /\ Prepared /\ turn \in TurnStates /\ turn.call \in LoopCalls
  BY DEF Shape, TypeOK, TurnStates
<1>2. hook \in [Turns -> HookStates] /\ request \in [Requests -> RequestStates] /\ goal \in Stored
  BY <1>1 DEF TypeOK
<1>3. /\ Settled(goal) /\ (turn.call.does = "patch" => ~ Asks(turn.call))
      /\ \A r \in Requests : ~ Asks(request[r].call)
  BY DEF Vouched
<1>4. NoCall.does = "nothing" /\ ~ Asks(NoCall) /\ Mark(TRUE).does = "mark" /\ Mark(FALSE).does = "mark"
  BY DEF NoCall, Asks, Mark
<1>5. Works.seen = NoGoal /\ Works.call = NoCall /\ Ends.seen = NoGoal /\ Ends.call = NoCall
      /\ NoTurn.seen = NoGoal /\ NoTurn.call = NoCall
  BY <1>1, GoesFields
<1>6. Close.seen = NoGoal /\ Close.call.does # "patch"
  BY <1>1, <1>4, <1>5, CloseFields
<1>7. Waiting.seen = NoGoal /\ Unasked.seen = NoGoal /\ Unasked.call = NoCall
      /\ [Unasked EXCEPT !.at = "answered"].seen = NoGoal /\ [Unasked EXCEPT !.at = "answered"].call = NoCall
  BY DEF Waiting, Unasked
<1>8. (UNCHANGED <<goal, vouched>>) => Settled(goal)' /\ vouched \subseteq vouched'
  BY <1>3 DEF Settled
<1>9. ASSUME NEW r \in Requests, Locate(r) PROVE Vouched'
  <2>1. PICK c \in UserCalls :
          request' = [request EXCEPT ![r] = IF Skips(c, goal, proposal) THEN [Unasked EXCEPT !.at = "answered"]
                                            ELSE [at |-> "located", call |-> c, seen |-> goal]]
    BY <1>9 DEF Locate
  <2>2. ~ Asks(c)
    BY <1>1, CallsAre
  <2>3. \A q \in Requests : request'[q].seen \in {request[q].seen, goal, NoGoal} /\ ~ Asks(request'[q].call)
    BY <1>2, <1>3, <1>4, <1>7, <2>1, <2>2
  <2>4. QED BY <1>3, <1>8, <1>9, <2>3, VouchedParts DEF Locate, store, history
<1>10. ASSUME NEW r \in Requests, Answer(r) PROVE Vouched'
  <2>1. Settled(request[r].seen) /\ ~ Asks(request[r].call)
    BY DEF Vouched
  <2>2. Settled(goal)' /\ vouched \subseteq vouched'
    BY <1>1, <1>3, <1>10, <2>1, RequestCallReady, PersistVouches DEF Answer
  <2>3. \A q \in Requests : request'[q].seen \in {request[q].seen, goal, NoGoal} /\ ~ Asks(request'[q].call)
    BY <1>2, <1>3, <1>4, <1>7, <1>10 DEF Answer
  <2>4. QED BY <1>3, <1>10, <2>2, <2>3, VouchedParts DEF Answer
<1>11. CASE StartTurn
  <2>1. turn'.seen = NoGoal /\ turn'.call = NoCall
    BY <1>11 DEF StartTurn, NoTurn
  <2>2. QED BY <1>3, <1>4, <1>8, <1>11, <2>1, VouchedParts DEF StartTurn, store
<1>12. CASE Open
  <2>1. ASSUME NEW units \in 1 .. MaxLate
        PROVE  Calls(Late(units)).seen = NoGoal /\ Calls(Late(units)).call.does = "late"
    <3>1. Late(units) \in LoopCalls /\ Late(units).does = "late"
      BY GateCallsAre, GoalsAssumption
    <3>2. QED BY <1>1, <3>1, GoesFields
  <2>2. turn'.seen = NoGoal /\ turn'.call.does # "patch"
    BY <1>4, <1>5, <1>12, <2>1 DEF Open
  <2>3. QED BY <1>3, <1>8, <1>12, <2>2, VouchedParts DEF Open, store, counters, history
<1>13. CASE Gate
  <2>1. \A reason \in Reasons : /\ Calls(Patch(Pausing(reason))).seen = NoGoal
                                /\ Calls(Patch(Pausing(reason))).call = Patch(Pausing(reason))
                                /\ ~ Asks(Patch(Pausing(reason)))
                                /\ Calls(Patch(Pausing(reason))) \in TurnStates
    BY <1>1, GateCallsAre, GoesFields, GoesOn DEF TurnReady
  <2>2. {"user_message", "budget", "empty_continuations"} \subseteq Reasons
    BY DEF Reasons
  <2>3. LET c == [Calls(Patch(Pausing("empty_continuations"))) EXCEPT !.empty = @ + 1]
        IN  c.seen = NoGoal /\ ~ Asks(c.call)
    BY <2>1, <2>2 DEF TurnStates
  <2>4. turn'.seen \in {turn.seen, goal, NoGoal} /\ (turn'.call.does = "patch" => ~ Asks(turn'.call))
    BY <1>1, <1>3, <1>4, <1>5, <1>13, <2>1, <2>2, <2>3 DEF Gate, TurnStates
  <2>5. QED BY <1>3, <1>8, <1>13, <2>4, VouchedParts DEF Gate, store, counters, history
<1>14. CASE Verify
  <2>1. turn'.seen = NoGoal /\ (turn'.call.does = "patch" => ~ Asks(turn'.call))
    BY <1>1, <1>14, VerifyCalls
  <2>2. QED BY <1>3, <1>8, <1>14, <2>1, VouchedParts DEF Verify, store, counters, history
<1>15. CASE LoopLocates
  <2>1. turn.call.does # "nothing"
    BY <1>1, <1>15 DEF Prepared, LoopLocates
  <2>2. After(turn.call).seen = NoGoal /\ After(turn.call).call.does # "patch"
    BY <1>1, <1>4, <2>1, AfterFields
  <2>3. turn'.seen \in {turn.seen, goal, NoGoal} /\ (turn'.call.does = "patch" => ~ Asks(turn'.call))
    BY <1>1, <1>3, <1>15, <2>2 DEF LoopLocates, TurnStates
  <2>4. QED BY <1>3, <1>8, <1>15, <2>3, VouchedParts DEF LoopLocates, store, counters, history
<1>16. CASE LoopWrites
  <2>1. turn.call \in AnyCalls /\ turn.seen \in Stored /\ Ready(turn.call, turn.seen) /\ turn.call.does # "nothing"
    BY <1>1, <1>16, LoopCallReady DEF LoopWrites, Ready
  <2>2. Settled(goal)' /\ vouched \subseteq vouched'
    BY <1>1, <1>3, <1>16, <2>1, PersistVouches DEF LoopWrites, Vouched
  <2>3. turn'.seen = NoGoal /\ turn'.call.does # "patch"
    BY <1>1, <1>4, <1>16, <2>1, AfterFields DEF LoopWrites
  <2>4. QED BY <1>3, <1>16, <2>2, <2>3, VouchedParts DEF LoopWrites
<1>17. CASE Finalize
  <2>1. \A t \in Turns : hook'[t].seen = hook[t].seen
    BY <1>2, <1>17 DEF Finalize, HookStates
  <2>2. QED BY <1>3, <1>6, <1>8, <1>17, <2>1, VouchedParts DEF Finalize, store
<1>18. CASE UseTool \/ Propose \/ Speak
  <2>1. turn'.seen = turn.seen /\ turn'.call = turn.call
    BY <1>1, <1>18 DEF UseTool, Propose, Speak, TurnStates
  <2>2. UNCHANGED <<goal, vouched, hook, request>>
    BY <1>18 DEF UseTool, Propose, Speak, store, history
  <2>3. QED BY <1>3, <1>8, <2>1, <2>2, VouchedParts
<1>19. CASE UseGoalTool
  <2>1. PICK c \in ModelCalls : turn' = [Calls(c) EXCEPT !.used = @ \/ turn.alone]
    BY <1>19 DEF UseGoalTool
  <2>2. c \in LoopCalls /\ c.does # "nothing" /\ ~ Asks(c)
    BY <1>1, CallsAre
  <2>3. Calls(c) \in TurnStates /\ Calls(c).seen = NoGoal /\ Calls(c).call = c
    BY <1>1, <2>2, GoesOn, GoesFields DEF TurnReady
  <2>4. turn'.seen = NoGoal /\ ~ Asks(turn'.call)
    BY <2>1, <2>2, <2>3 DEF TurnStates
  <2>5. QED BY <1>3, <1>8, <1>19, <2>4, VouchedParts DEF UseGoalTool, store, history
<1>20. CASE LeaveLoop
  BY <1>3, <1>4, <1>5, <1>8, <1>20, VouchedParts DEF LeaveLoop, store, counters, history
<1>21. CASE LoopCallFails
  <2>1. turn.call.does # "nothing"
    BY <1>1, <1>21 DEF Prepared, LoopCallFails
  <2>2. After(turn.call).seen = NoGoal /\ After(turn.call).call.does # "patch"
    BY <1>1, <1>4, <2>1, AfterFields
  <2>3. turn'.seen = NoGoal /\ turn'.call.does # "patch"
    BY <1>4, <1>5, <1>21, <2>2 DEF LoopCallFails
  <2>4. QED BY <1>3, <1>8, <1>21, <2>3, VouchedParts DEF LoopCallFails, store, history
<1>22. CASE LoopThrows
  BY <1>3, <1>6, <1>8, <1>22, VouchedParts DEF LoopThrows, store
<1>23. ASSUME NEW t \in Turns, HookLocates(t) PROVE Vouched'
  <2>1. \A u \in Turns : hook'[u].seen \in {hook[u].seen, goal, NoGoal}
    BY <1>2, <1>7, <1>23 DEF HookLocates, HookStates
  <2>2. QED BY <1>3, <1>8, <1>23, <2>1, VouchedParts DEF HookLocates, store, counters, history
<1>24. ASSUME NEW t \in Turns, HookBooks(t) PROVE Vouched'
  <2>1. Settled(goal)' /\ vouched \subseteq vouched'
    BY <1>1, <1>3, <1>24, HookCallReady, PersistVouches DEF HookBooks, Vouched
  <2>2. \A u \in Turns : hook'[u].seen \in {hook[u].seen, goal, NoGoal}
    BY <1>2, <1>7, <1>24 DEF HookBooks, HookStates
  <2>3. QED BY <1>3, <1>24, <2>1, <2>2, VouchedParts DEF HookBooks
<1>25. ASSUME NEW t \in Turns, HookFails(t) PROVE Vouched'
  <2>1. \A u \in Turns : hook'[u].seen \in {hook[u].seen, goal, NoGoal}
    BY <1>2, <1>7, <1>25 DEF HookFails, HookStates
  <2>2. QED BY <1>3, <1>8, <1>25, <2>1, VouchedParts DEF HookFails, store, history
<1>26. CASE Crash
  <2>1. /\ \A t \in Turns : hook'[t].seen = NoGoal
        /\ \A r \in Requests : request'[r].seen = NoGoal /\ ~ Asks(request'[r].call)
    BY <1>4, <1>7, <1>26 DEF Crash
  <2>2. turn'.seen = NoGoal /\ turn'.call = NoCall /\ UNCHANGED <<goal, vouched>>
    BY <1>5, <1>26 DEF Crash, store
  <2>3. QED BY <1>4, <1>8, <2>1, <2>2, VouchedParts
<1>27. CASE Boot
  <2>1. \/ goal' = goal
        \/ Exists(goal) /\ goal' = Interrupted(goal)
    BY <1>27 DEF Boot
  <2>2. Exists(goal) => Keeps(Interrupted(goal), goal, FALSE)
    BY <1>2, StoredGoal, InterruptKeeps
  <2>3. Settled(goal)' /\ vouched \subseteq vouched'
    BY <1>3, <1>27, <2>1, <2>2 DEF Settled, Keeps, Boot, history
  <2>4. QED BY <1>3, <1>27, <2>3, VouchedParts DEF Boot, history
<1>28. CASE Redrive
  <2>1. LET t == [NoTurn EXCEPT !.at = "opens", !.redriven = TRUE] IN t.seen = NoGoal /\ t.call = NoCall
    BY DEF NoTurn
  <2>2. turn'.seen = NoGoal /\ turn'.call = NoCall
    BY <1>5, <1>28, <2>1 DEF Redrive
  <2>3. QED BY <1>3, <1>4, <1>8, <1>28, <2>2, VouchedParts DEF Redrive, store, counters, history
<1>29. CASE UNCHANGED vars
  BY <1>3, <1>8, <1>29, VouchedParts DEF vars, store, history
<1>30. QED
  BY <1>9, <1>10, <1>11, <1>12, <1>13, <1>14, <1>15, <1>16, <1>17, <1>18, <1>19, <1>20, <1>21, <1>22, <1>23,
     <1>24, <1>25, <1>26, <1>27, <1>28, <1>29 DEF Next, Loop

(* A goal stands completed only after a satisfied verdict was recorded on it. *)
THEOREM Completions == Spec => []CompletedByVerdict
<1>1. Init => Shape /\ Vouched
  BY ShapeInit, VouchedInit
<1>2. Shape /\ Vouched /\ [Next]_vars => Shape' /\ Vouched'
  BY ShapeStep, VouchedStep
<1>3. Vouched => CompletedByVerdict
  BY DEF Vouched, Settled, CompletedByVerdict
<1>4. QED BY <1>1, <1>2, <1>3, PTL DEF Spec

-----------------------------------------------------------------------------
(* The mark stands for a loop at work: only the loop that works on its own *)
(* sets it, and the loop takes it back on every way out.                   *)
Marked(g) == Exists(g) /\ g.marked

AtRest(t) == t.alone = FALSE /\ t.call = NoCall /\ t.at = "idle"

Honest ==
    /\ turn.at = "idle" \/ ~ up \/ open => AtRest(turn)
    /\ turn.call = Mark(TRUE) => turn.alone
    /\ turn.call = Mark(FALSE) => turn.at \in {"calls", "writes"}
    /\ MarkIsHonest

(* What a write that crosses no other leaves of the mark and of the rounds. *)
LEMMA PersistMarks ==
    ASSUME TypeOK, NEW call \in AnyCalls, NEW g \in Stored, Ready(call, g), Persist(call, g), ~ crossed'
    PROVE  /\ ~ crossed
           /\ Marked(goal') => call = Mark(TRUE) \/ (Marked(goal) /\ call # Mark(FALSE))
           /\ \/ sent' = 0
              \/ sent' = sent /\ (Exists(goal') => Exists(goal) /\ goal'.rounds = goal.rounds)
              \/ /\ call.does = "judge" /\ (Exists(goal') => goal'.rounds = call.round)
                 /\ (IF SendsBack(call) THEN sent' = sent + 1 ELSE sent' = sent)
<1>1. ~ crossed /\ (Rewrites(call) => goal = g)
  BY DEF Persist, TypeOK
<1>2. CASE call.does = "patch"
  <2>1. goal = g /\ g \in GoalDocuments /\ Exists(g) /\ call.patch \in Patches
    BY <1>1, <1>2, StoredGoal DEF Rewrites, Ready, AnyCalls, LoopCalls, RequestCalls, Book
  <2>2. goal' = Patched(g, call.patch)
    BY <1>2 DEF Persist, Written
  <2>3. /\ goal'.marked => g.marked
        /\ ~ Rewritten(g, call.patch) /\ ~ Resumes(g, call.patch) => goal'.rounds = g.rounds
    BY <2>1, <2>2 DEF Patched, GoalDocuments
  <2>4. IF Rewritten(g, call.patch) \/ Resumes(g, call.patch) THEN sent' = 0 ELSE sent' = sent
    BY <1>2 DEF Persist, StartsOver
  <2>5. call # Mark(FALSE)
    BY <1>2, MarksDiffer
  <2>6. QED BY <1>1, <2>1, <2>3, <2>4, <2>5 DEF Marked
<1>3. CASE call.does = "clear"
  <2>1. goal' = NoGoal /\ sent' = sent /\ ~ Exists(NoGoal)
    BY <1>3 DEF Persist, Written, StartsOver, Exists, NoGoal
  <2>2. QED BY <1>1, <2>1 DEF Marked
<1>4. CASE call.does = "make"
  <2>1. goal' = NewGoal(call.id) /\ sent' = 0
    BY <1>4 DEF Persist, Written, StartsOver
  <2>2. goal'.marked = FALSE
    BY <2>1 DEF NewGoal
  <2>3. QED BY <1>1, <2>1, <2>2 DEF Marked
<1>5. CASE call.does = "decline"
  <2>1. goal' = goal /\ sent' = sent
    BY <1>5 DEF Persist, StartsOver
  <2>2. QED BY <1>1, <1>5, <2>1, MarksDiffer DEF Marked
<1>6. CASE call.does = "book"
  <2> DEFINE paid == [g EXCEPT !.spent = @ + 1]
  <2>1. goal = g /\ g \in GoalDocuments /\ Exists(g)
    BY <1>1, <1>6, StoredGoal DEF Rewrites, Ready
  <2>2. goal' = Booked(g) /\ sent' = sent
    BY <1>6 DEF Persist, Written, StartsOver
  <2>3. paid \in GoalDocuments /\ paid.marked = g.marked /\ paid.rounds = g.rounds
    BY <2>1 DEF GoalDocuments
  <2>4. goal' = paid \/ goal' = Patched(paid, Pausing("budget"))
    BY <2>2 DEF Booked
  <2> HIDE DEF paid
  <2>5. (Patched(paid, Pausing("budget")).marked => paid.marked) /\ Patched(paid, Pausing("budget")).rounds = paid.rounds
    BY <2>3 DEF Patched, GoalDocuments, Resumes, Rewritten, PatchedStatus, Pausing, Keep
  <2>6. QED BY <1>1, <1>6, <2>1, <2>2, <2>3, <2>4, <2>5, MarksDiffer DEF Marked
<1>7. CASE call.does = "late"
  <2>1. goal = g /\ g \in GoalDocuments /\ Exists(g)
    BY <1>1, <1>7, StoredGoal DEF Rewrites, Ready
  <2>2. goal' = [g EXCEPT !.spent = @ + call.units] /\ sent' = sent
    BY <1>7 DEF Persist, Written, StartsOver
  <2>3. goal'.marked = g.marked /\ goal'.rounds = g.rounds
    BY <2>1, <2>2 DEF GoalDocuments
  <2>4. QED BY <1>1, <1>7, <2>1, <2>2, <2>3, MarksDiffer DEF Marked
<1>8. CASE call.does = "mark"
  <2>1. goal = g /\ g \in GoalDocuments /\ Exists(g)
    BY <1>1, <1>8, StoredGoal DEF Rewrites, Ready
  <2>2. goal' = [g EXCEPT !.marked = call.on] /\ sent' = sent
    BY <1>8 DEF Persist, Written, StartsOver
  <2>3. goal'.marked = call.on /\ goal'.rounds = g.rounds
    BY <2>1, <2>2 DEF GoalDocuments
  <2>4. call = Mark(call.on) /\ call.on \in BOOLEAN
    BY <1>8 DEF AnyCalls, LoopCalls, RequestCalls, Book, Mark
  <2>5. call.on => call = Mark(TRUE)
    BY <2>4
  <2>6. QED BY <1>1, <2>1, <2>2, <2>3, <2>5 DEF Marked
<1>9. CASE call.does = "judge"
  <2> DEFINE patch == IF call.verdict = "satisfied" THEN To("completed")
                      ELSE IF call.reason # "none" THEN Pausing(call.reason) ELSE Keep
  <2>1. goal = g /\ g \in GoalDocuments /\ Exists(g) /\ call.round \in Nat
        /\ call.reason \in Reasons \union {"none"} /\ call.rubric \in Nat \ {0}
    BY <1>1, <1>9, StoredGoal DEF Rewrites, Ready, AnyCalls, LoopCalls, RequestCalls, Book
  <2>2. goal' = [Patched(g, patch) EXCEPT !.judged = call.rubric, !.rounds = call.round]
    BY <1>9 DEF Persist, Written, Judged
  <2>3. patch \in Patches
    BY <2>1, PatchesAre DEF Statuses
  <2> HIDE DEF patch
  <2>4. Patched(g, patch) \in GoalDocuments
    BY <2>1, <2>3, PatchKeeps DEF Keeps
  <2>5. Patched(g, patch).marked => g.marked
    BY <2>1 DEF Patched, GoalDocuments
  <2>6. goal'.rounds = call.round /\ (goal'.marked => g.marked)
    BY <2>2, <2>4, <2>5 DEF GoalDocuments
  <2>7. IF SendsBack(call) THEN sent' = sent + 1 ELSE sent' = sent
    BY <1>9 DEF Persist, StartsOver, SendsBack
  <2>8. QED BY <1>1, <1>9, <2>1, <2>6, <2>7, MarksDiffer DEF Marked
<1>10. call.does \in {"patch", "clear", "make", "decline", "book", "late", "mark", "judge"}
  BY DEF AnyCalls, LoopCalls, RequestCalls, Book, Ready
<1>11. QED
  BY <1>2, <1>3, <1>4, <1>5, <1>6, <1>7, <1>8, <1>9, <1>10

LEMMA HonestInit == Init => Honest
<1> SUFFICES ASSUME Init PROVE Honest
  OBVIOUS
<1>1. turn = NoTurn /\ AtRest(NoTurn)
  BY DEF Init, NoTurn, AtRest
<1>2. goal.marked = FALSE \/ ~ Exists(goal)
  BY DEF Init, NewGoal, NoGoal, Exists
<1>3. QED BY <1>1, <1>2, MarksDiffer DEF Honest, MarkIsHonest, AtRest

(* What a step must show when it leaves the goal, or its mark, as they are. *)
LEMMA HonestParts ==
    ASSUME turn'.at = "idle" \/ ~ up' \/ open' => AtRest(turn'),
           turn'.call = Mark(TRUE) => turn'.alone,
           turn'.call = Mark(FALSE) => turn'.at \in {"calls", "writes"},
           up' /\ ~ crossed' /\ faults' = 0 /\ Marked(goal') => turn'.alone \/ turn'.call = Mark(FALSE)
    PROVE  Honest'
BY DEF Honest, MarkIsHonest, Marked, Exists

LEMMA HonestStep ==
    ASSUME Shape, Honest, [Next]_vars
    PROVE  Honest'
<1>1. /\ TypeOK /\ Prepared /\ turn \in TurnStates /\ turn.call \in LoopCalls /\ turn.alone \in BOOLEAN
      /\ goal \in Stored /\ faults \in Nat /\ up \in BOOLEAN /\ open \in BOOLEAN
  BY DEF Shape, TypeOK, TurnStates
<1>2. /\ turn.at = "idle" \/ ~ up \/ open => AtRest(turn)
      /\ turn.call = Mark(TRUE) => turn.alone
      /\ turn.call = Mark(FALSE) => turn.at \in {"calls", "writes"}
      /\ up /\ ~ crossed /\ faults = 0 /\ Marked(goal) => turn.alone \/ turn.call = Mark(FALSE)
  BY DEF Honest, MarkIsHonest, Marked
<1>3. /\ Works.at = "works" /\ Works.call = NoCall /\ Works.alone = turn.alone
      /\ Ends.at = "ends" /\ Ends.call = NoCall /\ Ends.alone = turn.alone
      /\ AtRest(NoTurn) /\ NoTurn.call = NoCall /\ NoTurn.alone = FALSE
  BY <1>1, GoesFields DEF AtRest
<1>4. faults + 1 # 0
  BY <1>1
<1>5. up /\ turn.at # "idle" => ~ open
  BY <1>2 DEF AtRest
<1>6. ASSUME UNCHANGED <<turn, up, open, crossed, faults, goal>>
      PROVE  Honest'
  BY <1>2, <1>6, HonestParts
<1>7. ASSUME NEW r \in Requests, Locate(r) PROVE Honest'
  BY <1>6, <1>7 DEF Locate, store, history
<1>8. ASSUME NEW r \in Requests, Answer(r) PROVE Honest'
  <2>1. request[r].call # Mark(TRUE)
    <3>1. request[r].call.does # "mark"
      BY <1>1, <1>8, RequestCallReady DEF Answer, RequestCalls
    <3>2. QED BY <3>1, MarksDiffer
  <2>2. ~ crossed' => ~ crossed /\ (Marked(goal') => Marked(goal))
    BY <1>1, <1>8, <2>1, RequestCallReady, PersistMarks DEF Answer
  <2>3. QED BY <1>2, <1>8, <2>2, HonestParts DEF Answer, counters
<1>9. CASE StartTurn
  <2>1. turn.alone = FALSE /\ turn.call = NoCall
    BY <1>2, <1>9 DEF StartTurn, AtRest
  <2>2. turn'.at = "opens" /\ turn'.call = NoCall /\ turn'.alone = FALSE
    BY <1>9 DEF StartTurn, NoTurn
  <2>3. up /\ ~ open /\ UNCHANGED <<up, open, crossed, faults, goal>>
    BY <1>9 DEF StartTurn, store
  <2>4. QED BY <1>2, <2>1, <2>2, <2>3, MarksDiffer, HonestParts
<1>10. CASE Open \/ Gate \/ Verify \/ UseGoalTool \/ LeaveLoop
  <2>1. up /\ turn.at \in {"opens", "works", "verifies"} /\ ~ open
    BY <1>5, <1>10 DEF Open, Gate, Verify, UseGoalTool, LeaveLoop
  <2>2. UNCHANGED <<up, open, crossed, faults, goal>>
    BY <1>10 DEF Open, Gate, Verify, UseGoalTool, LeaveLoop, store, counters, history
  <2>3. turn.call # Mark(FALSE)
    BY <1>2, <2>1
  <2>4. ASSUME turn'.at # "idle", turn'.alone = turn.alone, turn'.call = turn.call \/ turn'.call.does # "mark"
        PROVE  Honest'
    <3>1. turn'.call # Mark(FALSE) /\ (turn'.call = Mark(TRUE) => turn'.alone)
      BY <1>2, <2>3, <2>4, MarksDiffer
    <3>2. QED BY <1>2, <2>1, <2>2, <2>3, <2>4, <3>1, HonestParts
  <2>5. ASSUME NEW c \in LoopCalls, c.does # "nothing", c.does # "mark"
        PROVE  /\ Calls(c).at # "idle" /\ Calls(c).alone = turn.alone /\ Calls(c).call.does # "mark"
               /\ Calls(c) \in TurnStates
    BY <1>1, <2>5, GoesFields, GoesOn DEF TurnReady
  <2>6. NoCall.does # "mark"
    BY DEF NoCall
  <2>7. CASE Open
    <3>1. ASSUME NEW units \in 1 .. MaxLate PROVE Late(units) \in LoopCalls /\ Late(units).does = "late"
      BY GateCallsAre, GoalsAssumption
    <3>2. turn' = Works \/ \E units \in 1 .. MaxLate : turn' = Calls(Late(units))
      BY <2>7 DEF Open
    <3>3. QED BY <1>3, <2>4, <2>5, <2>6, <3>1, <3>2
  <2>8. CASE Gate
    <3>1. ASSUME NEW reason \in Reasons
          PROVE  LET c == Calls(Patch(Pausing(reason)))
                 IN  c.at # "idle" /\ c.alone = turn.alone /\ c.call.does # "mark" /\ c \in TurnStates
      BY <2>5, GateCallsAre
    <3>2. {"user_message", "budget", "empty_continuations"} \subseteq Reasons
      BY DEF Reasons
    <3>3. LET c == [Calls(Patch(Pausing("empty_continuations"))) EXCEPT !.empty = @ + 1]
          IN  c.at # "idle" /\ c.alone = turn.alone /\ c.call.does # "mark"
      BY <3>1, <3>2 DEF TurnStates
    <3>4. LET c == [turn EXCEPT !.empty = @ + 1] IN c.at = turn.at /\ c.alone = turn.alone /\ c.call = turn.call
      BY <1>1 DEF TurnStates
    <3>5. LET c == [turn EXCEPT !.at = "verifies", !.seen = goal, !.empty = 0]
          IN  c.at = "verifies" /\ c.alone = turn.alone /\ c.call = turn.call
      BY <1>1 DEF TurnStates
    <3>6. turn.at = "works"
      BY <2>8 DEF Gate
    <3>7. turn'.at # "idle" /\ turn'.alone = turn.alone /\ (turn'.call = turn.call \/ turn'.call.does # "mark")
      BY <1>3, <2>6, <2>8, <3>1, <3>2, <3>3, <3>4, <3>5, <3>6 DEF Gate
    <3>8. QED BY <2>4, <3>7
  <2>9. CASE Verify
    BY <1>1, <2>4, <2>9, VerifyCalls
  <2>10. CASE UseGoalTool
    <3>1. PICK c \in ModelCalls : turn' = [Calls(c) EXCEPT !.used = @ \/ turn.alone]
      BY <2>10 DEF UseGoalTool
    <3>2. c \in LoopCalls /\ c.does # "nothing" /\ c.does # "mark"
      BY <1>1, CallsAre
    <3>3. turn'.at = Calls(c).at /\ turn'.alone = Calls(c).alone /\ turn'.call = Calls(c).call
      BY <2>5, <3>1, <3>2 DEF TurnStates
    <3>4. QED BY <2>4, <2>5, <3>2, <3>3
  <2>11. CASE LeaveLoop
    BY <1>3, <2>4, <2>6, <2>11 DEF LeaveLoop
  <2>12. QED BY <1>10, <2>7, <2>8, <2>9, <2>10, <2>11
<1>11. CASE LoopLocates
  <2>1. turn.at = "calls" /\ up /\ ~ open /\ UNCHANGED <<up, open, crossed, faults, goal>>
    BY <1>5, <1>11 DEF LoopLocates, store, counters, history
  <2>2. turn.call.does # "nothing"
    BY <1>1, <2>1 DEF Prepared
  <2>3. CASE Skips(turn.call, goal, proposal)
    <3>1. turn' = After(turn.call)
      BY <1>11, <2>3 DEF LoopLocates
    <3>2. turn.call = Mark(FALSE) => ~ Marked(goal)
      BY <2>3, MarksDiffer DEF Skips, Marked
    <3>3. CASE turn.call = Mark(FALSE)
      BY <1>1, <1>3, <2>1, <2>2, <3>1, <3>2, <3>3, AfterFields, MarksDiffer, HonestParts
    <3>4. CASE turn.call # Mark(FALSE)
      BY <1>1, <1>2, <1>3, <2>1, <2>2, <3>1, <3>4, AfterFields, ContinuesFields, MarksDiffer, HonestParts
    <3>5. QED BY <3>3, <3>4
  <2>4. CASE ~ Skips(turn.call, goal, proposal)
    <3>1. turn'.at = "writes" /\ turn'.call = turn.call /\ turn'.alone = turn.alone
      BY <1>1, <1>11, <2>4 DEF LoopLocates, TurnStates
    <3>2. QED BY <1>2, <2>1, <3>1, HonestParts
  <2>5. QED BY <2>3, <2>4
<1>12. CASE LoopWrites
  <2>1. turn.at = "writes" /\ up /\ ~ open /\ UNCHANGED <<up, open, faults>> /\ turn' = After(turn.call)
    BY <1>5, <1>12 DEF LoopWrites, counters
  <2>2. turn.call \in AnyCalls /\ turn.seen \in Stored /\ Ready(turn.call, turn.seen) /\ turn.call.does # "nothing"
    BY <1>1, <2>1, LoopCallReady DEF Ready
  <2>3. ~ crossed' => ~ crossed /\ (Marked(goal') => turn.call = Mark(TRUE) \/ (Marked(goal) /\ turn.call # Mark(FALSE)))
    BY <1>1, <1>12, <2>2, PersistMarks DEF LoopWrites
  <2>4. CASE turn.call = Mark(FALSE)
    BY <1>1, <1>3, <2>1, <2>2, <2>3, <2>4, AfterFields, MarksDiffer, HonestParts
  <2>5. CASE turn.call # Mark(FALSE)
    BY <1>1, <1>2, <1>3, <2>1, <2>2, <2>3, <2>5, AfterFields, ContinuesFields, MarksDiffer, HonestParts
  <2>6. QED BY <2>4, <2>5
<1>13. CASE LoopCallFails
  <2>1. turn.at \in {"calls", "writes"} /\ up /\ ~ open /\ UNCHANGED <<up, open>> /\ faults' = faults + 1
    BY <1>5, <1>13 DEF LoopCallFails
  <2>2. turn.call.does # "nothing"
    BY <1>1, <2>1 DEF Prepared
  <2>3. turn' \in {Ends, After(turn.call)}
    BY <1>13 DEF LoopCallFails
  <2>4. QED
    BY <1>1, <1>3, <1>4, <2>1, <2>2, <2>3, AfterFields, ContinuesFields, MarksDiffer, HonestParts
<1>14. CASE Finalize \/ LoopThrows
  <2>1. up /\ ~ open /\ turn.at \in {"works", "ends"} /\ turn' = Close /\ UNCHANGED <<up, open, crossed, goal>>
    BY <1>5, <1>14 DEF Finalize, LoopThrows, store
  <2>2. faults' = faults \/ faults' = faults + 1
    BY <1>14 DEF Finalize, LoopThrows, counters
  <2>3. turn.call # Mark(FALSE)
    BY <1>2, <2>1
  <2>4. QED BY <1>1, <1>2, <1>3, <1>4, <2>1, <2>2, <2>3, CloseFields, MarksDiffer, HonestParts DEF AtRest
<1>15. CASE UseTool \/ Propose \/ Speak
  <2>1. turn'.at = turn.at /\ turn'.call = turn.call /\ turn'.alone = turn.alone
    BY <1>1, <1>15 DEF UseTool, Propose, Speak, TurnStates
  <2>2. UNCHANGED <<up, open, crossed, faults, goal>>
    BY <1>15 DEF UseTool, Propose, Speak, store, counters, history
  <2>3. QED BY <1>2, <2>1, <2>2, HonestParts DEF AtRest
<1>16. ASSUME NEW t \in Turns, HookLocates(t) PROVE Honest'
  BY <1>6, <1>16 DEF HookLocates, store, counters, history
<1>17. ASSUME NEW t \in Turns, HookBooks(t) PROVE Honest'
  <2>1. Book # Mark(TRUE)
    <3>1. Book.does = "book" /\ Mark(TRUE).does = "mark"
      BY DEF Book, Mark
    <3>2. QED BY <3>1
  <2>2. ~ crossed' => ~ crossed /\ (Marked(goal') => Marked(goal))
    BY <1>1, <1>17, <2>1, HookCallReady, PersistMarks DEF HookBooks
  <2>3. QED BY <1>2, <1>17, <2>2, HonestParts DEF HookBooks, counters
<1>18. ASSUME NEW t \in Turns, HookFails(t) PROVE Honest'
  BY <1>2, <1>4, <1>18, HonestParts DEF HookFails, store, history
<1>19. CASE Crash
  BY <1>3, <1>19, MarksDiffer, HonestParts DEF Crash
<1>20. CASE Boot
  <2>1. AtRest(turn) /\ turn' = turn /\ crossed' = crossed
    BY <1>2, <1>20 DEF Boot, history
  <2>2. Marked(goal) => ~ Marked(Interrupted(goal))
    BY <1>1, StoredGoal, InterruptKeeps DEF Marked
  <2>3. faults' = 0 => ~ Marked(goal')
    BY <1>4, <1>20, <2>2 DEF Boot, Marked
  <2>4. QED BY <2>1, <2>3, MarksDiffer, HonestParts DEF AtRest
<1>21. CASE Redrive
  <2>1. AtRest(turn) /\ up /\ UNCHANGED <<up, crossed, faults, goal>> /\ open' = FALSE
    BY <1>2, <1>21 DEF Redrive, store, counters, history
  <2>2. LET t == [NoTurn EXCEPT !.at = "opens", !.redriven = TRUE] IN t.at = "opens" /\ t.call = NoCall /\ t.alone = FALSE
    BY DEF NoTurn
  <2>3. \/ turn' = NoTurn
        \/ turn'.at = "opens" /\ turn'.call = NoCall /\ turn'.alone = FALSE
    BY <1>21, <2>2 DEF Redrive
  <2>4. QED BY <1>2, <1>3, <2>1, <2>3, MarksDiffer, HonestParts DEF AtRest
<1>22. CASE UNCHANGED vars
  BY <1>6, <1>22 DEF vars, store, counters, history
<1>23. QED
  BY <1>7, <1>8, <1>9, <1>10, <1>11, <1>12, <1>13, <1>14, <1>15, <1>16, <1>17, <1>18, <1>19, <1>20, <1>21, <1>22
     DEF Next, Loop

(* A goal is marked only while a loop works on it on its own, or takes the mark back. *)
THEOREM Marks == Spec => []MarkIsHonest
<1>1. Init => Shape /\ Honest
  BY ShapeInit, HonestInit
<1>2. Shape /\ Honest /\ [Next]_vars => Shape' /\ Honest'
  BY ShapeStep, HonestStep
<1>3. Honest => MarkIsHonest
  BY DEF Honest
<1>4. QED BY <1>1, <1>2, <1>3, PTL DEF Spec

-----------------------------------------------------------------------------
(* The rounds: while no write crosses another, the goal's counter is never   *)
(* below the revisions asked since it was last reset, the gate counts on     *)
(* from the goal it read, and a verdict sends the agent back below the limit.*)
Counted ==
    /\ turn.at \in {"calls", "writes"} /\ SendsBack(turn.call) => turn.call.round < MaxRounds
    /\ ~ crossed =>
         /\ sent < MaxRounds
         /\ Exists(goal) => sent <= goal.rounds
         /\ turn.at = "verifies" => sent <= turn.seen.rounds
         /\ turn.at \in {"calls", "writes"} /\ turn.call.does = "judge" => sent < turn.call.round

LEMMA CountedInit == Init => Counted
BY GoalsAssumption DEF Init, Counted, NewGoal, NoGoal, Exists, NoTurn

(* A write of somebody else resets the count, or leaves it and the goal's counter. *)
LEMMA CountedAlone ==
    ASSUME TypeOK, Prepared, Counted, UNCHANGED turn, ~ crossed' => ~ crossed,
           ~ crossed' => \/ sent' = 0
                         \/ sent' = sent /\ (Exists(goal') => Exists(goal) /\ goal'.rounds = goal.rounds),
           Exists(goal') => goal' \in GoalDocuments
    PROVE  Counted'
<1>1. sent \in Nat /\ turn \in TurnStates
  BY DEF TypeOK
<1>2. Exists(goal') => goal'.rounds \in Nat
  BY DEF GoalDocuments
<1>3. turn.at = "verifies" => turn.seen.rounds \in Nat
  BY <1>1, StoredGoal DEF Prepared, TurnStates, GoalDocuments
<1>4. turn.call.does = "judge" => turn.call.round \in Nat
  BY <1>1 DEF TurnStates, LoopCalls
<1>5. (turn.at \in {"calls", "writes"} /\ SendsBack(turn.call) => turn.call.round < MaxRounds)'
  BY DEF Counted, SendsBack
<1>6. ASSUME ~ crossed'
      PROVE  /\ sent' < MaxRounds
             /\ Exists(goal') => sent' <= goal'.rounds
             /\ turn.at = "verifies" => sent' <= turn.seen.rounds
             /\ turn.at \in {"calls", "writes"} /\ turn.call.does = "judge" => sent' < turn.call.round
  <2>1. CASE sent' = 0
    <3>1. turn.at \in {"calls", "writes"} /\ turn.call.does = "judge" => 0 < turn.call.round
      BY <1>1, <1>4, <1>6 DEF Counted
    <3>2. QED BY <1>2, <1>3, <2>1, <3>1, GoalsAssumption
  <2>2. CASE sent' = sent /\ (Exists(goal') => Exists(goal) /\ goal'.rounds = goal.rounds)
    BY <1>6, <2>2 DEF Counted
  <2>3. QED BY <1>6, <2>1, <2>2
<1>7. QED BY <1>5, <1>6 DEF Counted

(* A step of the turn that writes nothing and calls for no verdict. *)
LEMMA CountedQuiet ==
    ASSUME Counted, UNCHANGED <<goal, crossed, sent>>, turn'.at # "verifies",
           turn'.at \in {"calls", "writes"} => turn'.call.does # "judge"
    PROVE  Counted'
BY DEF Counted, SendsBack

LEMMA CountedStep ==
    ASSUME Shape, Counted, [Next]_vars
    PROVE  Counted'
<1>1. /\ TypeOK /\ Prepared /\ turn \in TurnStates /\ turn.call \in LoopCalls /\ goal \in Stored /\ sent \in Nat
  BY DEF Shape, TypeOK, TurnStates
<1>2. Exists(goal) => goal \in GoalDocuments
  BY <1>1, StoredGoal
<1>3. Exists(goal') => goal' \in GoalDocuments
  BY ShapeStep, StoredGoal DEF Shape, TypeOK
<1>4. /\ Works.at = "works" /\ Ends.at = "ends" /\ NoTurn.at = "idle"
      /\ Close.at = "calls" => Close.call = Mark(FALSE)
      /\ Close.at \in {"calls", "idle"}
  BY <1>1, GoesFields, CloseFields
<1>5. Mark(TRUE).does = "mark" /\ Mark(FALSE).does = "mark" /\ NoCall.does = "nothing"
  BY MarksDiffer DEF NoCall
<1>6. ASSUME NEW call \in LoopCalls, call.does # "nothing", turn' \in {Ends, After(call)}
      PROVE  turn'.at # "verifies" /\ (turn'.at \in {"calls", "writes"} => turn'.call.does # "judge")
  BY <1>1, <1>4, <1>5, <1>6, AfterFields
<1>7. ASSUME UNCHANGED <<turn, goal, crossed, sent>>
      PROVE  Counted'
  BY <1>7 DEF Counted, SendsBack
<1>8. ASSUME NEW r \in Requests, Locate(r) PROVE Counted'
  BY <1>7, <1>8 DEF Locate, store, history
<1>9. ASSUME NEW r \in Requests, Answer(r) PROVE Counted'
  <2>1. request[r].call.does # "judge"
    BY <1>1, <1>9, RequestCallReady DEF Answer, RequestCalls
  <2>2. ~ crossed' => /\ ~ crossed
                      /\ \/ sent' = 0
                         \/ sent' = sent /\ (Exists(goal') => Exists(goal) /\ goal'.rounds = goal.rounds)
    BY <1>1, <1>9, <2>1, RequestCallReady, PersistMarks DEF Answer
  <2>3. QED BY <1>1, <1>3, <1>9, <2>2, CountedAlone DEF Answer
<1>10. ASSUME NEW t \in Turns, HookBooks(t) PROVE Counted'
  <2>1. Book.does # "judge"
    BY DEF Book
  <2>2. ~ crossed' => /\ ~ crossed
                      /\ \/ sent' = 0
                         \/ sent' = sent /\ (Exists(goal') => Exists(goal) /\ goal'.rounds = goal.rounds)
    BY <1>1, <1>10, <2>1, HookCallReady, PersistMarks DEF HookBooks
  <2>3. QED BY <1>1, <1>3, <1>10, <2>2, CountedAlone DEF HookBooks
<1>11. CASE StartTurn
  <2>1. turn'.at = "opens"
    BY <1>11 DEF StartTurn, NoTurn
  <2>2. QED BY <1>11, <2>1, CountedQuiet DEF StartTurn, store
<1>12. CASE Open
  <2>1. ASSUME NEW units \in 1 .. MaxLate
        PROVE  Calls(Late(units)).at = "calls" /\ Calls(Late(units)).call.does = "late"
    <3>1. Late(units) \in LoopCalls /\ Late(units).does = "late"
      BY GateCallsAre, GoalsAssumption
    <3>2. QED BY <1>1, <3>1, GoesFields
  <2>2. turn'.at # "verifies" /\ (turn'.at \in {"calls", "writes"} => turn'.call.does # "judge")
    BY <1>4, <1>12, <2>1 DEF Open
  <2>3. QED BY <1>12, <2>2, CountedQuiet DEF Open, store, history
<1>13. CASE Gate
  <2>1. UNCHANGED <<goal, crossed, sent>>
    BY <1>13 DEF Gate, store, history
  <2>2. CASE turn' = [turn EXCEPT !.at = "verifies", !.seen = goal, !.empty = 0] /\ Exists(goal)
    <3>1. turn'.at = "verifies" /\ turn'.seen = goal
      BY <1>1, <2>2 DEF TurnStates
    <3>2. QED BY <2>1, <2>2, <3>1 DEF Counted
  <2>3. ASSUME NEW reason \in Reasons
        PROVE  LET c == Calls(Patch(Pausing(reason)))
               IN  c.at = "calls" /\ c.call.does = "patch" /\ c \in TurnStates
    <3>1. Patch(Pausing(reason)) \in LoopCalls /\ Patch(Pausing(reason)).does = "patch"
      BY GateCallsAre
    <3>2. QED BY <1>1, <3>1, GoesFields, GoesOn DEF TurnReady
  <2>4. {"user_message", "budget", "empty_continuations"} \subseteq Reasons
    BY DEF Reasons
  <2>5. LET c == [Calls(Patch(Pausing("empty_continuations"))) EXCEPT !.empty = @ + 1]
        IN  c.at = "calls" /\ c.call.does = "patch"
    BY <2>3, <2>4 DEF TurnStates
  <2>6. turn.at = "works" /\ LET c == [turn EXCEPT !.empty = @ + 1] IN c.at = "works"
    BY <1>1, <1>13 DEF Gate, TurnStates
  <2>7. CASE ~ (turn' = [turn EXCEPT !.at = "verifies", !.seen = goal, !.empty = 0] /\ Exists(goal))
    <3>1. turn'.at # "verifies" /\ (turn'.at \in {"calls", "writes"} => turn'.call.does # "judge")
      BY <1>4, <1>13, <2>3, <2>4, <2>5, <2>6, <2>7 DEF Gate, Active
    <3>2. QED BY <2>1, <3>1, CountedQuiet
  <2>8. QED BY <2>2, <2>7
<1>14. CASE Verify
  <2>1. /\ turn'.at = "calls"
        /\ turn'.call.does = "judge" => turn'.call.round = turn.seen.rounds + 1
        /\ SendsBack(turn'.call) => turn.seen.rounds + 1 < MaxRounds
    BY <1>1, <1>14, VerifyCalls
  <2>2. turn.at = "verifies" /\ UNCHANGED <<goal, crossed, sent>>
    BY <1>14 DEF Verify, store, history
  <2>3. turn.seen.rounds \in Nat
    BY <1>1, <2>2, StoredGoal DEF Prepared, TurnStates, GoalDocuments
  <2>4. SendsBack(turn'.call) => turn'.call.round < MaxRounds
    BY <2>1 DEF SendsBack
  <2>5. ~ crossed /\ turn'.call.does = "judge" => sent < turn'.call.round
    BY <1>1, <2>1, <2>2, <2>3 DEF Counted
  <2>6. QED BY <2>1, <2>2, <2>4, <2>5 DEF Counted, SendsBack
<1>15. CASE LoopLocates
  <2>1. turn.at = "calls" /\ turn.call.does # "nothing" /\ UNCHANGED <<goal, crossed, sent>>
    BY <1>1, <1>15 DEF LoopLocates, Prepared, store, history
  <2>2. CASE turn' = After(turn.call)
    BY <1>1, <1>6, <2>1, <2>2, CountedQuiet
  <2>3. CASE turn' = [turn EXCEPT !.at = "writes", !.seen = goal]
    <3>1. turn'.at = "writes" /\ turn'.call = turn.call
      BY <1>1, <2>3 DEF TurnStates
    <3>2. QED BY <2>1, <3>1 DEF Counted, SendsBack
  <2>4. QED BY <1>15, <2>2, <2>3 DEF LoopLocates
<1>16. CASE LoopWrites
  <2>1. turn.at = "writes" /\ turn' = After(turn.call)
    BY <1>16 DEF LoopWrites
  <2>2. turn.call \in AnyCalls /\ turn.seen \in Stored /\ Ready(turn.call, turn.seen) /\ turn.call.does # "nothing"
    BY <1>1, <2>1, LoopCallReady DEF Ready
  <2>3. turn'.at # "verifies" /\ (turn'.at \in {"calls", "writes"} => turn'.call.does # "judge")
    BY <1>1, <1>6, <2>1, <2>2
  <2>4. ASSUME ~ crossed' PROVE sent' < MaxRounds /\ (Exists(goal') => sent' <= goal'.rounds)
    <3>1. /\ ~ crossed
          /\ \/ sent' = 0
             \/ sent' = sent /\ (Exists(goal') => Exists(goal) /\ goal'.rounds = goal.rounds)
             \/ /\ turn.call.does = "judge" /\ (Exists(goal') => goal'.rounds = turn.call.round)
                /\ (IF SendsBack(turn.call) THEN sent' = sent + 1 ELSE sent' = sent)
      BY <1>1, <1>16, <2>2, <2>4, PersistMarks DEF LoopWrites
    <3>2. Exists(goal') => goal'.rounds \in Nat
      BY <1>3 DEF GoalDocuments
    <3>3. turn.call.does = "judge" => turn.call.round \in Nat /\ sent < turn.call.round
      BY <1>1, <2>1, <3>1 DEF Counted, LoopCalls
    <3>4. SendsBack(turn.call) => turn.call.round < MaxRounds
      BY <2>1 DEF Counted
    <3>5. sent < MaxRounds /\ (Exists(goal) => sent <= goal.rounds)
      BY <3>1 DEF Counted
    <3>6. QED BY <1>1, <3>1, <3>2, <3>3, <3>4, <3>5, GoalsAssumption
  <2>5. QED BY <2>3, <2>4 DEF Counted, SendsBack
<1>17. CASE LoopCallFails
  <2>1. turn.call.does # "nothing" /\ turn' \in {Ends, After(turn.call)} /\ UNCHANGED <<goal, crossed, sent>>
    BY <1>1, <1>17 DEF LoopCallFails, Prepared, store, history
  <2>2. QED BY <1>1, <1>6, <2>1, CountedQuiet
<1>18. CASE Finalize \/ LoopThrows
  <2>1. turn' = Close /\ UNCHANGED <<goal, crossed, sent>>
    BY <1>18 DEF Finalize, LoopThrows, store
  <2>2. QED BY <1>4, <1>5, <2>1, CountedQuiet
<1>19. CASE UseTool \/ Propose \/ Speak
  <2>1. turn.at = "works" /\ turn'.at = turn.at
    BY <1>1, <1>19 DEF UseTool, Propose, Speak, TurnStates
  <2>2. UNCHANGED <<goal, crossed, sent>>
    BY <1>19 DEF UseTool, Propose, Speak, store, history
  <2>3. QED BY <2>1, <2>2, CountedQuiet
<1>20. CASE UseGoalTool
  <2>1. PICK c \in ModelCalls : turn' = [Calls(c) EXCEPT !.used = @ \/ turn.alone]
    BY <1>20 DEF UseGoalTool
  <2>2. c \in LoopCalls /\ c.does \in {"patch", "clear"}
    BY <1>1, CallsAre
  <2>3. Calls(c).at = "calls" /\ Calls(c).call = c /\ Calls(c) \in TurnStates
    BY <1>1, <2>2, GoesFields, GoesOn DEF TurnReady
  <2>4. turn'.at = "calls" /\ turn'.call = c
    BY <2>1, <2>3 DEF TurnStates
  <2>5. QED BY <1>20, <2>2, <2>4, CountedQuiet DEF UseGoalTool, store, history
<1>21. CASE LeaveLoop
  BY <1>4, <1>21, CountedQuiet DEF LeaveLoop, store, history
<1>22. ASSUME NEW t \in Turns, HookLocates(t) \/ HookFails(t) PROVE Counted'
  BY <1>7, <1>22 DEF HookLocates, HookFails, store, history
<1>23. CASE Crash
  BY <1>4, <1>23, CountedQuiet DEF Crash, store
<1>24. CASE Boot
  <2>1. UNCHANGED <<turn, crossed, sent>>
    BY <1>24 DEF Boot, history
  <2>2. Exists(goal) => Interrupted(goal).rounds = goal.rounds
    BY <1>2, InterruptKeeps
  <2>3. Exists(goal') => Exists(goal) /\ goal'.rounds = goal.rounds
    BY <1>24, <2>2 DEF Boot
  <2>4. QED BY <1>1, <1>3, <2>1, <2>3, CountedAlone
<1>25. CASE Redrive
  <2>1. LET t == [NoTurn EXCEPT !.at = "opens", !.redriven = TRUE] IN t.at = "opens"
    BY DEF NoTurn
  <2>2. turn'.at \in {"idle", "opens"} /\ UNCHANGED <<goal, crossed, sent>>
    BY <1>4, <1>25, <2>1 DEF Redrive, store, history
  <2>3. QED BY <2>2, CountedQuiet
<1>26. CASE UNCHANGED vars
  BY <1>7, <1>26 DEF vars, store, history
<1>27. QED
  BY <1>8, <1>9, <1>10, <1>11, <1>12, <1>13, <1>14, <1>15, <1>16, <1>17, <1>18, <1>19, <1>20, <1>21, <1>22, <1>23,
     <1>24, <1>25, <1>26 DEF Next, Loop

(* While no write crosses another, the agent is sent back fewer than maxIterations times. *)
THEOREM Rounds == Spec => []RoundsBounded
<1>1. Init => Shape /\ Counted
  BY ShapeInit, CountedInit
<1>2. Shape /\ Counted /\ [Next]_vars => Shape' /\ Counted'
  BY ShapeStep, CountedStep
<1>3. Counted => RoundsBounded
  BY DEF Counted, RoundsBounded
<1>4. QED BY <1>1, <1>2, <1>3, PTL DEF Spec
=============================================================================
