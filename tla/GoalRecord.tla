----------------------------- MODULE GoalRecord -----------------------------
(***************************************************************************)
(* The goal a conversation carries, as ConversationGoalService stores it,  *)
(* and what one update does to it.  A goal is identified by the number of  *)
(* the request that made it; its rubric by a version number.  The progress *)
(* line, the obstacle's text and the step rubric are left out: no decision *)
(* reads them.  Spend is counted in units, one per turn and one per late   *)
(* sub-agent; the turn and deadline lines of a budget pause a goal the way *)
(* its dollar line does.                                                   *)
(***************************************************************************)
EXTENDS Naturals

CONSTANTS
    Budget,     \* the units a goal's budget allows; 0: a goal without budget
    MaxMade     \* bound: goals, proposals and rubrics ever made

Statuses == {"active", "blocked", "paused", "completed"}

Reasons == {"user", "user_message", "budget", "max_iterations", "empty_continuations", "failed", "restart"}

(* The document without a goal, and the goals it can hold (pause: why it is paused). *)
NoGoal == [id |-> 0]

GoalDocuments ==
    [id : Nat \ {0}, rubric : Nat \ {0}, status : Statuses, pause : Reasons \union {"none"}, judged : Nat, rounds : Nat,
     marked : BOOLEAN, spent : Nat]

Exists(g) == g.id # 0
Active(g) == Exists(g) /\ g.status = "active"

(* buildGoal: what the user, or a proposal the user approves, asks for. *)
NewGoal(id) == [id |-> id, rubric |-> id, status |-> "active", pause |-> "none", judged |-> 0,
                rounds |-> 0, marked |-> FALSE, spent |-> 0]

Patches ==
    [status : Statuses \union {"same"}, pause : Reasons \union {"none"}, rubric : Nat, obstacle : {"same", "set", "gone"}]

(* One field each of applyGoalPatch.  A patch names a status, a reason, a  *)
(* rubric or an obstacle ("set", "gone"), or leaves each as it is.         *)
Keep == [status |-> "same", pause |-> "none", rubric |-> 0, obstacle |-> "same"]
To(status) == [Keep EXCEPT !.status = status]
Pausing(reason) == [Keep EXCEPT !.status = "paused", !.pause = reason]

PatchedStatus(g, p) ==
    IF p.status # "same" THEN p.status
    ELSE IF p.obstacle = "set" /\ g.status = "active" THEN "blocked"
    ELSE IF p.obstacle = "gone" /\ g.status = "blocked" THEN "active"
    ELSE g.status

PatchedPause(g, p) ==
    IF PatchedStatus(g, p) # "paused" THEN "none"
    ELSE IF p.pause # "none" THEN p.pause
    ELSE IF g.status = "paused" THEN g.pause
    ELSE "user"

(* A goal that leaves its pause, and one whose rubric changed, start their rounds over. *)
Resumes(g, p) == g.status = "paused" /\ PatchedStatus(g, p) = "active"
Rewritten(g, p) == p.rubric \notin {0, g.rubric}

Patched(g, p) ==
    [g EXCEPT !.rubric = IF Rewritten(g, p) THEN p.rubric ELSE @,
              !.judged = IF Rewritten(g, p) THEN 0 ELSE @,
              !.rounds = IF Rewritten(g, p) \/ Resumes(g, p) THEN 0 ELSE @,
              !.status = PatchedStatus(g, p),
              !.pause = PatchedPause(g, p),
              !.marked = @ /\ PatchedStatus(g, p) = "active"]

(* describeBudgetExhaustion, for a goal and the spend not booked on it yet. *)
Exhausted(g, unbooked) == Budget > 0 /\ g.spent + unbooked >= Budget

(* recordTurn's write: one finished turn, and the pause of a spent budget. *)
Booked(g) ==
    LET paid == [g EXCEPT !.spent = @ + 1]
    IN  IF Exhausted(paid, 0) /\ g.status # "completed" /\ g.pause # "budget"
        THEN Patched(paid, Pausing("budget")) ELSE paid

(* recordVerification's write: the verdict about `rubric`, given in `round`. *)
Judged(g, verdict, reason, rubric, round) ==
    [Patched(g, IF verdict = "satisfied" THEN To("completed")
                ELSE IF reason # "none" THEN Pausing(reason) ELSE Keep)
        EXCEPT !.judged = rubric, !.rounds = round]

(* pauseInterruptedRuns' write for a goal the last process left marked. *)
Interrupted(g) == IF Active(g) THEN Patched(g, Pausing("restart")) ELSE [g EXCEPT !.marked = FALSE]
=============================================================================
