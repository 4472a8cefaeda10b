----------------------------- MODULE Background -----------------------------
(***************************************************************************)
(* The background work of one root conversation: its async tasks and a     *)
(* workspace task it monitors, reporting through the same deliveries, over *)
(* the user's turns, the turns they wake, crashes and boots.               *)
(***************************************************************************)
EXTENDS AsyncTasks, TaskWatch

CONSTANT MaxCrash   \* bound: process crashes

ASSUME BackgroundAssumption == MaxCrash \in Nat

VARIABLE crashes

vars == <<wakeVars, taskVars, watchVars, crashes>>

Init == WakesInit /\ TasksInit /\ WatchInit /\ crashes = 0

\* The wake pays the count back for the async tasks it hands over.
Wakes ==
    /\ \/ WakeLosesIt \/ WakeWaits \/ WakeTakesOver \/ WakeAppends \/ WakeRequests
    /\ UNCHANGED <<taskVars, watchVars, crashes>>

HandsOver ==
    /\ WakeHandsOver /\ PaysBack(wake.queue \cap Tasks)
    /\ UNCHANGED <<status, stamped, waiting, waits, marked, dispatched, delta, record, writes, due, claimed,
                   resume, asked, slips, lost, watchVars, crashes>>

WokenTurnEnds ==
    /\ WakeEnds /\ WokenPayBack(wake.woken \cap Tasks)
    /\ UNCHANGED <<status, stamped, waiting, waits, marked, dispatched, delta, record, writes, due, claimed,
                   resume, asked, slips, lost, watchVars, crashes>>

Turns == (UserStarts \/ TurnEnds) /\ UNCHANGED <<taskVars, watchVars, crashes>>

Calls ==
    /\ \/ \E t \in Tasks : Dispatch(t) \/ Cancel(t)
       \/ \E t \in Tasks : LeftToWaiter(t) \/ IntoMailbox(t) \/ WakesItsParent(t)
       \/ \E S \in SUBSET Tasks : WaitBegins(S)
    /\ UNCHANGED <<watchVars, crashes>>

TaskSteps ==
    /\ \/ \E t \in Tasks : Claims(t) \/ Reports(t)
       \/ \E t \in Tasks, op \in {"started", "settled", "delivered"} : WriteLands(t, op)
       \/ WaitEnds \/ TurnOpens \/ Seals \/ Counts \/ TurnFails \/ Redrives
    /\ UNCHANGED <<watchVars, crashes>>

Workspace ==
    /\ Watches \/ Emits \/ EndsItself \/ IsLost \/ Stops
    /\ UNCHANGED <<taskVars, crashes>>

WatchSteps ==
    /\ Recorded \/ Handles \/ HandsOn \/ Saves \/ StopLands
    /\ UNCHANGED <<taskVars, crashes>>

Crash ==
    /\ turn.at # "down" /\ crashes < MaxCrash /\ crashes' = crashes + 1
    /\ turn' = [at |-> "down", by |-> IF turn.at \in {"opening", "open"} THEN "cut" ELSE "nobody"]
    /\ wake' = NoWake /\ TasksCrash /\ WatchCrash
    /\ UNCHANGED <<turns, heard, failed, faults>>

\* A turn that was cut is driven again, or is past that (TurnRuns).
Boot ==
    /\ turn.at = "down" /\ turn' = NoTurn
    /\ \E again \in {FALSE, turn.by = "cut"} : TasksBoot(again)
    /\ WatchBoot
    /\ UNCHANGED <<turns, wake, heard, failed, faults, crashes>>

\* What people, models, tools and the workspace do: nothing says they ever will.
Outside == (UserStarts /\ UNCHANGED <<taskVars, watchVars, crashes>>) \/ Calls \/ Workspace \/ Crash

Next == Turns \/ Calls \/ TaskSteps \/ Workspace \/ WatchSteps \/ Wakes \/ HandsOver \/ WokenTurnEnds
            \/ Crash \/ Boot

System ==
    \/ Wakes \/ HandsOver \/ WokenTurnEnds \/ TaskSteps \/ WatchSteps \/ Boot
    \/ TurnEnds /\ UNCHANGED <<taskVars, watchVars, crashes>>

Spec == Init /\ [][Next]_vars

\* Timers and polls fire, calls return, a turn comes to its end.
FairSpec == Spec /\ WF_vars(System)

-----------------------------------------------------------------------------
TypeOK == WakesTypeOK /\ TasksTypeOK /\ WatchTypeOK

\* An outcome reaches its parent once, whatever is open when it comes. It may
\* come again only if its record missed a write (a failure, a crash before it
\* landed, two that crossed), or if the agent waited for a task that had
\* already settled while its delivery was on its way.
ToldOnce == \A t \in Tasks : heard[t] > 1 => t \in slips \cup asked

\* An outcome not told yet is always in somebody's hands:
\* the wake, the waiter, the record a boot will list, or its report. One whose
\* hand-over failed, or that died with a process, is the exception.
OutcomeKept ==
    \A t \in Tasks : status[t] \in {"done", "past"} /\ heard[t] = 0 =>
        \/ t \in wake.queue \cup waiting \cup claimed \cup failed \cup lost
        \/ wake.at = "appending" /\ t \in wake.woken
        \/ status[t] = "past" /\ t \in Undelivered

\* No frame the record counts as handled was skipped, and frames come in order;
\* the one end not announced is that of a task stopped for the agent.
FramesInOrder ==
    /\ \A k \in 1..saved : heard[k] > 0 \/ k \in failed \/ (k = events + 1 /\ end = "killed")
    /\ \A k \in Frames, j \in Frames : j < k /\ heard[k] > 0 => heard[j] > 0 \/ j \in failed
    /\ \A k \in Frames : heard[k] > 1 => k \in resaid

\* What the workspace reports of its task is told, across crashes, unless its
\* hand-over fails or the task never got on record.
Owed(k) == k <= events \/ (k = events + 1 /\ end \in {"own", "lost"})

FramesTold ==
    \A k \in Frames :
        Owed(k) ~> (heard[k] > 0 \/ k \in failed \/ ~Owed(k) \/ (watch = "over" /\ onFile = "none"))

\* A turn is never taken from the one that started it: it ends, or its process
\* dies, first.
TurnsAlone == [][turn'.by # turn.by => ~Runs \/ turn'.at \in {"none", "down"}]_turn

\* A task's outcome is told, unless its hand-over fails or its process dies.
OutcomeTold ==
    \A t \in Tasks : status[t] = "done" ~> (heard[t] > 0 \/ t \in failed \/ status[t] = "past")

\* ReActHarness, of the count of background work: whichever path delivers the
\* completion pays it back exactly once. So nothing is counted once every task
\* dispatched has been told and nothing is under way.
AllTold ==
    /\ turn.at = "none" /\ wake.at = "none" /\ failed = {}
    /\ \A t \in Tasks : status[t] = "none" \/ (status[t] = "done" /\ heard[t] > 0)

CountPaidBack == AllTold => pending = 0
=============================================================================
