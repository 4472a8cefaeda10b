----------------------------- MODULE TaskWatch -----------------------------
(***************************************************************************)
(* BackgroundTaskWatcher, one task of the workspace: a monitor of a root   *)
(* conversation. The watcher follows the task's event stream, hands each   *)
(* frame to the conversation and waits until it is handed over, then       *)
(* records how far it came; a restart follows on from there. The stream    *)
(* replays what comes after the seq it is given, so that a broken one is   *)
(* no step of its own.                                                     *)
(***************************************************************************)
EXTENDS TaskWakes

VARIABLES
    events,   \* events the task has emitted
    end,      \* its end: "no", its "own", "killed", or "lost" (404)
    watch,    \* the watcher: "none" before the task starts, "over" after its exit
    last,     \* lastSeq
    saved,    \* lastSeq in the record
    onFile,   \* the record
    stop,     \* a stop request: on its way to the workspace, or done
    muted,    \* stoppedBy
    resaid    \* history: frames handed over and not recorded before a crash or failure

watchVars == <<events, end, watch, last, saved, onFile, stop, muted, resaid>>

WatchInit ==
    /\ events = 0 /\ end = "no" /\ watch = "none" /\ last = 0 /\ saved = 0
    /\ onFile = "none" /\ stop = "none" /\ muted = FALSE /\ resaid = {}

Frame == last + 1
Exits == Frame = events + 1 /\ end # "no"     \* the next frame is the exit
Following == watch \in {"following", "handing", "saving"}

\* The workspace has started the task; the record comes first.
Watches ==
    /\ MaxSeq > 0 /\ Open /\ watch = "none" /\ watch' = "recording"
    /\ UNCHANGED <<wakeVars, events, end, last, saved, onFile, stop, muted, resaid>>

Recorded ==
    /\ watch = "recording" /\ watch' = "following"
    /\ \/ onFile' = "running" /\ UNCHANGED faults
       \/ Fault /\ UNCHANGED onFile
    /\ UNCHANGED <<turn, turns, wake, heard, failed, events, end, last, saved, stop, muted, resaid>>

\* (mutant: the end of a task somebody asked to stop is never announced)
SilentOnceAsked == Exits /\ muted

\* A stopped task's end is recorded, not announced.
Silent == Exits /\ end = "killed" /\ muted

\* handleFrame: to the conversation, by its open mailbox or a wake.
Handles ==
    /\ watch = "following" /\ (Frame <= events \/ Exits)
    /\ IF Silent THEN watch' = "saving" /\ UNCHANGED <<heard, wake>>
       ELSE IF Open THEN watch' = "saving" /\ Hears({Frame}) /\ UNCHANGED wake
       ELSE watch' = "handing" /\ WakesFor(Frame)
    /\ UNCHANGED <<turn, turns, failed, faults, events, end, last, saved, onFile, stop, muted, resaid>>

HandsOn ==
    /\ watch = "handing" /\ HandedOver(Frame) /\ watch' = "saving"
    /\ UNCHANGED <<wakeVars, events, end, last, saved, onFile, stop, muted, resaid>>

\* progressed, or workspaceTaskEnded. A write that fails is not tried again.
Saves ==
    /\ watch = "saving" /\ last' = Frame
    /\ watch' = IF Exits THEN "over" ELSE "following"
    /\ \/ /\ saved' = IF onFile = "none" THEN 0 ELSE Frame
          /\ onFile' = IF Exits /\ onFile = "running" THEN "delivered" ELSE onFile
          /\ UNCHANGED faults
       \/ Fault /\ UNCHANGED <<saved, onFile>>
    /\ UNCHANGED <<turn, turns, wake, heard, failed, events, end, stop, muted, resaid>>

-----------------------------------------------------------------------------
(* The workspace, and the stop *)

Emits ==
    /\ watch \notin {"none", "over"} /\ end = "no" /\ events < MaxSeq /\ events' = events + 1
    /\ UNCHANGED <<wakeVars, end, watch, last, saved, onFile, stop, muted, resaid>>

EndsItself ==
    /\ watch \notin {"none", "over"} /\ end = "no" /\ end' = "own"
    /\ UNCHANGED <<wakeVars, events, watch, last, saved, onFile, stop, muted, resaid>>

\* tools-service no longer knows the task: what it had not sent is gone, and the
\* watcher reports it lost.
IsLost ==
    /\ Following /\ end # "lost" /\ end' = "lost"
    /\ ~(Exits /\ watch # "following")
    /\ events' = IF watch = "following" THEN last ELSE Frame
    /\ UNCHANGED <<wakeVars, watch, last, saved, onFile, stop, muted, resaid>>

\* task_stop, the stop route.
Stops ==
    /\ Following \/ watch = "recording"
    /\ stop = "none" /\ stop' = "asked" /\ muted' = TRUE
    /\ UNCHANGED <<wakeVars, events, end, watch, last, saved, onFile, resaid>>

\* The workspace's answer: killed by this stop, or ended before, or no answer.
StopLands ==
    /\ stop = "asked" /\ turn.at # "down" /\ stop' = "done"
    /\ \/ /\ end' = IF end = "no" THEN "killed" ELSE end
          /\ muted' = (end = "no") /\ UNCHANGED faults
       \/ Fault /\ end' \in {end, IF end = "no" THEN "killed" ELSE end} /\ muted' = FALSE
    /\ UNCHANGED <<turn, turns, wake, heard, failed, events, watch, last, saved, onFile, resaid>>

-----------------------------------------------------------------------------
\* The task runs on. Who stopped it is not on its record.
WatchCrash ==
    /\ watch' = IF watch = "none" THEN "none" ELSE IF onFile = "running" THEN "left" ELSE "over"
    /\ last' = saved /\ muted' = FALSE
    /\ stop' = IF stop = "asked" THEN "done" ELSE stop
    /\ end' \in {end, IF stop = "asked" /\ end = "no" THEN "killed" ELSE end}
    /\ resaid' = resaid \cup {k \in Frames : k > saved /\ heard[k] > 0}
    /\ UNCHANGED <<events, saved, onFile>>

\* (mutant: a restart forgets the tasks it left)
LeftAlone == watch

\* reattach.
Reattached == IF watch = "left" THEN "following" ELSE watch

WatchBoot ==
    /\ watch' = Reattached
    /\ UNCHANGED <<events, end, last, saved, onFile, stop, muted, resaid>>

WatchTypeOK ==
    /\ events \in 0..MaxSeq /\ end \in {"no", "own", "killed", "lost"}
    /\ watch \in {"none", "recording", "following", "handing", "saving", "over", "left"}
    /\ last \in 0..(MaxSeq + 1) /\ saved \in 0..(MaxSeq + 1)
    /\ onFile \in {"none", "running", "delivered"}
    /\ stop \in {"none", "asked", "done"} /\ muted \in BOOLEAN /\ resaid \subseteq Frames
=============================================================================
