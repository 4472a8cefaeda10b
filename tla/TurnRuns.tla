------------------------------ MODULE TurnRuns ------------------------------
(***************************************************************************)
(* A turn that survives restarts: the ReAct loop of one conversation, the  *)
(* turn run it keeps on record (TurnRunStore, TurnRunRecorder), the        *)
(* checkpoint of its messages on the conversation document, and what a     *)
(* booting process makes of both (TurnResumeService, ResumedPass).         *)
(*                                                                         *)
(* One step runs from an await to the next. A model answer that asks for   *)
(* tools is a pass, numbered in the order of the answers; a call of it is  *)
(* <<pass, call>>; a message is <<"user", turn>> or <<"pass", pass>>.      *)
(* The cards of an ordinary call are the subject of Approvals: here the    *)
(* gate lets any of them run. A "run it again?" card is modelled in full.  *)
(***************************************************************************)
EXTENDS Naturals, FiniteSets

CONSTANTS
    Calls,         \* tool calls a pass may make
    Rerunnable,    \* those that may simply run again after a restart
    MaxAttempts,   \* TURN_RESUME.MAXIMUM_ATTEMPTS
    MaxTurn,       \* bound: turns the user starts
    MaxPass,       \* bound: passes
    MaxCrash,      \* bound: process crashes
    MaxFault,      \* bound: failed database calls
    MaxForeign     \* bound: messages others append while a turn runs

ASSUME TurnRunsAssumption ==
    /\ MaxAttempts \in Nat /\ MaxTurn \in Nat /\ MaxPass \in Nat
    /\ MaxCrash \in Nat /\ MaxFault \in Nat /\ MaxForeign \in Nat
    /\ Rerunnable \subseteq Calls /\ IsFiniteSet(Calls)

VARIABLES
    transcript,  \* how often each message is in the conversation's messages
    ckpt,        \* its turnCheckpoint
    run,         \* the turn_runs record of the loop
    card,        \* the "run it again?" card of each call
    pc,          \* where the process is: a turn, no turn, down or booting
    me,          \* the running turn, or the one being re-driven
    ran,         \* how often each call was executed
    turns, passes, drives, crashes, faults, foreign,
    done,        \* history: the passes whose batch was completed
    abandoned    \* history: passes given up with their turn

durable == <<transcript, ckpt, run, card>>
counts == <<turns, passes, drives, crashes, faults, foreign>>
vars == <<durable, pc, me, ran, counts, done, abandoned>>

Passes == 1..MaxPass
Recs == Passes \X Calls
Messages == ({"user"} \X (1..MaxTurn)) \cup ({"pass"} \X Passes)
Progress == {"out", "unstarted", "running", "finished", "omitted"}
Booting == {"down", "unmark", "recover", "lapse", "claim", "merge", "remark"}

Nobody == <<0, 0>>
NoneOf(x) == [c \in Calls |-> x]
NoCkpt == [on |-> FALSE, iter |-> 0, msgs |-> {}]
NoRun == [id |-> Nobody, attempts |-> 0, pass |-> 0, iter |-> 0,
          calls |-> NoneOf("out"), paused |-> 0]
NoTurn == [id |-> Nobody, begun |-> FALSE, resumed |-> FALSE, replay |-> FALSE,
           stopped |-> FALSE, iter |-> 0, pass |-> 0, stamp |-> NoneOf("out"),
           at |-> NoneOf("out"), msgs |-> {}]

Init ==
    /\ transcript = [m \in Messages |-> 0]
    /\ ckpt = NoCkpt /\ run = NoRun
    /\ card = [r \in Recs |-> "none"]
    /\ pc = "idle" /\ me = NoTurn
    /\ ran = [r \in Recs |-> 0]
    /\ turns = 0 /\ passes = 0 /\ drives = 0 /\ crashes = 0 /\ faults = 0 /\ foreign = 0
    /\ done = {} /\ abandoned = {}

\* A database call either succeeds or uses up one fault.
Call(ok) == IF ok THEN UNCHANGED faults
                  ELSE faults < MaxFault /\ faults' = faults + 1

\* Every write of the recorder is best effort, and lands only on its own turn.
Mine == run.id = me.id /\ me.id # Nobody
Record(new) == \E ok \in BOOLEAN :
    /\ Call(ok)
    /\ run' = IF ok /\ Mine THEN new ELSE run

\* appendMessages: the messages join the transcript and the checkpoint goes,
\* in one update.
Append(msgs) ==
    /\ transcript' = [m \in Messages |-> transcript[m] + IF m \in msgs THEN 1 ELSE 0]
    /\ ckpt' = NoCkpt

\* cancel() and retireOrphans(): a card nobody waits for lapses, as a no.
LapseCards == card' = [r \in Recs |-> IF card[r] = "pending" THEN "deny" ELSE card[r]]

-----------------------------------------------------------------------------
(* The turn: ReActHarness.run *)

StartTurn ==
    /\ pc = "idle" /\ turns < MaxTurn
    /\ turns' = turns + 1 /\ drives' = 0
    /\ LapseCards
    /\ me' = [NoTurn EXCEPT !.id = <<turns + 1, 0>>, !.iter = 1, !.msgs = {<<"user", turns + 1>>}]
    /\ pc' = "top"
    /\ UNCHANGED <<transcript, ckpt, run, ran, passes, crashes, faults, foreign, done, abandoned>>

\* checkpointTurnProgress: the messages first; a failure skips the record too.
SaveCheckpoint ==
    /\ pc = "top"
    /\ \/ /\ ckpt' = [on |-> TRUE, iter |-> me.iter, msgs |-> me.msgs]
          /\ pc' = "mark" /\ UNCHANGED faults
       \/ /\ Call(FALSE)
          /\ pc' = "model" /\ UNCHANGED ckpt
    /\ UNCHANGED <<transcript, run, card, me, ran, turns, passes, drives, crashes, foreign, done, abandoned>>

\* (mutant: a re-driven turn begins its record afresh)
AnewBegun == [NoRun EXCEPT !.id = me.id]

\* begin(): a fresh turn replaces the record, a re-driven one takes it over.
Begun == IF ~me.resumed THEN [NoRun EXCEPT !.id = me.id]
         ELSE IF run.id = Nobody THEN run ELSE [run EXCEPT !.id = me.id]

\* recordTurnCheckpoint: only the first of a turn writes what a resume reads.
BeginRun ==
    /\ pc = "mark" /\ pc' = "model"
    /\ IF me.begun THEN UNCHANGED <<run, faults>>
       ELSE \E ok \in BOOLEAN : Call(ok) /\ run' = IF ok THEN Begun ELSE run
    /\ me' = [me EXCEPT !.begun = TRUE]
    /\ UNCHANGED <<transcript, ckpt, card, ran, turns, passes, drives, crashes, foreign, done, abandoned>>

\* enforceCostBudget before the model call: the iteration is marked, then waits.
PauseAtCap ==
    /\ pc = "model" /\ ~me.replay /\ ~me.stopped
    /\ IF me.begun THEN Record([run EXCEPT !.paused = me.iter]) ELSE UNCHANGED <<run, faults>>
    /\ pc' = "paused"
    /\ UNCHANGED <<transcript, ckpt, card, me, ran, turns, passes, drives, crashes, foreign, done, abandoned>>

RaiseCap ==
    /\ pc = "paused" /\ ~me.stopped
    /\ pc' = "model"
    /\ UNCHANGED <<durable, me, ran, counts, done, abandoned>>

\* The model asks for tools, or the stored pass is played back.
Answer ==
    /\ pc = "model" /\ ~me.stopped
    /\ IF me.replay
       THEN me' = [me EXCEPT !.replay = FALSE] /\ UNCHANGED passes
       ELSE /\ passes < MaxPass
            /\ passes' = passes + 1
            /\ \E S \in SUBSET Calls \ {{}} :
                  me' = [me EXCEPT !.pass = passes + 1,
                            !.stamp = [c \in Calls |-> IF c \in S THEN "unstarted" ELSE "out"]]
    /\ pc' = "record"
    /\ UNCHANGED <<durable, ran, turns, drives, crashes, faults, foreign, done, abandoned>>

\* (mutant: a replayed pass is recorded without the progress of its calls)
StartsOver == [c \in Calls |-> IF me.stamp[c] = "out" THEN "out" ELSE "unstarted"]

\* recordPassInFlight: a replayed pass keeps the progress its calls had made.
KeptProgress == me.stamp

RecordPass ==
    /\ pc = "record" /\ pc' = "gate"
    /\ Record([run EXCEPT !.pass = me.pass, !.iter = me.iter, !.calls = KeptProgress])
    /\ UNCHANGED <<transcript, ckpt, card, me, ran, turns, passes, drives, crashes, foreign, done, abandoned>>

\* stampResumedCalls: what the restart left of each call.
CutOff == {c \in Calls : me.stamp[c] \in {"running", "omitted"}}

Interrupted == CutOff \ Rerunnable

\* (mutant: a finished call runs again with the rest)
AllOrdinary == {c \in Calls : me.stamp[c] # "out"} \ Interrupted

Ordinary == {c \in Calls : me.stamp[c] = "unstarted"} \cup (CutOff \cap Rerunnable)

\* The gate is through: E runs, the others of the pass have their result.
RunBatch(E) ==
    /\ me' = [me EXCEPT !.at = [c \in Calls |-> IF me.stamp[c] = "out" THEN "out"
                                                ELSE IF c \in E THEN "todo" ELSE "done"]]
    /\ pc' = "batch"

\* Nobody is asked: rules, mode and hooks decide, and a call cut off never runs.
GateUnasked ==
    /\ pc = "gate"
    /\ \E E \in SUBSET Ordinary : RunBatch(E)
    /\ UNCHANGED <<durable, ran, counts, done, abandoned>>

\* "Run it again?", of some of the calls cut off (a rule may deny the others):
\* a card that was decided before stays decided.
GateAsks ==
    /\ pc = "gate" /\ pc' = "waiting"
    /\ \E A \in SUBSET Interrupted \ {{}} :
          card' = [r \in Recs |-> IF r[1] = me.pass /\ r[2] \in A /\ card[r] = "none"
                                  THEN "pending" ELSE card[r]]
    /\ UNCHANGED <<transcript, ckpt, run, me, ran, counts, done, abandoned>>

UserAnswers == \E r \in Recs, verdict \in {"allow", "deny"} :
    /\ pc \notin Booting /\ card[r] = "pending"
    /\ card' = [card EXCEPT ![r] = verdict]
    /\ UNCHANGED <<transcript, ckpt, run, pc, me, ran, counts, done, abandoned>>

Allowed == {c \in Interrupted : card[<<me.pass, c>>] = "allow"}

GateDecided ==
    /\ pc = "waiting"
    /\ \A r \in Recs : card[r] # "pending"
    /\ \E E \in SUBSET (Ordinary \cup Allowed) : RunBatch(E)
    /\ UNCHANGED <<durable, ran, counts, done, abandoned>>

\* executeToolBatch, each call on its own: on record, then run, then recorded.
RecordCall(c, progress) ==
    IF run.iter = me.iter THEN Record([run EXCEPT !.calls[c] = progress])
    ELSE \E ok \in BOOLEAN : Call(ok) /\ UNCHANGED run

CallStarts(c) ==
    /\ pc = "batch" /\ me.at[c] = "todo"
    /\ RecordCall(c, "running")
    /\ me' = [me EXCEPT !.at[c] = "begun"]
    /\ UNCHANGED <<transcript, ckpt, card, pc, ran, turns, passes, drives, crashes, foreign, done, abandoned>>

CallRuns(c) ==
    /\ pc = "batch" /\ me.at[c] = "begun"
    /\ ran' = [ran EXCEPT ![<<me.pass, c>>] = @ + 1]
    /\ me' = [me EXCEPT !.at[c] = "ran"]
    /\ UNCHANGED <<durable, pc, counts, done, abandoned>>

\* "omitted": the result was too large to keep.
CallFinishes(c) ==
    /\ pc = "batch" /\ me.at[c] = "ran"
    /\ \E progress \in {"finished", "omitted"} : RecordCall(c, progress)
    /\ me' = [me EXCEPT !.at[c] = "done"]
    /\ UNCHANGED <<transcript, ckpt, card, pc, ran, turns, passes, drives, crashes, foreign, done, abandoned>>

\* The batch's calls and results join the turn's messages; the turn may end
\* with them (an exit tool, a hook).
EndBatch ==
    /\ pc = "batch"
    /\ \A c \in Calls : me.at[c] \in {"out", "done"}
    /\ me' = [me EXCEPT !.msgs = @ \cup {<<"pass", me.pass>>}, !.iter = @ + 1,
                        !.stamp = NoneOf("out"), !.at = NoneOf("out")]
    /\ pc' \in IF me.stopped THEN {"finalize"} ELSE {"top", "finalize"}
    /\ done' = done \cup {me.pass}
    /\ UNCHANGED <<durable, ran, counts, abandoned>>

\* POST /agent/stop: the abort signal; a waiting turn's cards lapse.
Stop ==
    /\ pc \in {"top", "mark", "model", "paused", "record", "gate", "waiting", "batch"}
    /\ ~me.stopped
    /\ me' = [me EXCEPT !.stopped = TRUE]
    /\ LapseCards
    /\ UNCHANGED <<transcript, ckpt, run, pc, ran, counts, done, abandoned>>

\* The loop is left: an answer without tools, a stop, a cap nobody raises, or
\* (before the gate) a cap the pass itself crossed: then the pass runs nothing.
LeaveLoop ==
    /\ \/ pc = "model" /\ (~me.replay \/ me.stopped)
       \/ pc = "paused"
       \/ pc = "gate"
    /\ pc' = "finalize"
    /\ abandoned' = IF pc = "gate" \/ me.replay THEN abandoned \cup {me.pass} ELSE abandoned
    /\ UNCHANGED <<durable, me, ran, counts, done>>

\* appendAndFinalize: a failed append is logged, and the turn is over.
Finalize ==
    /\ pc = "finalize" /\ pc' = "finish"
    /\ \/ Append(me.msgs) /\ UNCHANGED faults
       \/ Call(FALSE) /\ UNCHANGED <<transcript, ckpt>>
    /\ me' = [me EXCEPT !.msgs = {}]
    /\ UNCHANGED <<run, card, ran, turns, passes, drives, crashes, foreign, done, abandoned>>

\* endTurnRun: the record goes, if it is this turn's.
Finish ==
    /\ pc = "finish" /\ pc' = "idle"
    /\ Record(NoRun)
    /\ me' = NoTurn
    /\ UNCHANGED <<transcript, ckpt, card, ran, turns, passes, drives, crashes, foreign, done, abandoned>>

\* POST /conversations/:id/messages, which no running turn refuses. (Its own
\* message is nothing to the turn: only what appendMessages drops matters.)
ForeignAppend ==
    /\ pc \notin Booting /\ foreign < MaxForeign
    /\ foreign' = foreign + 1
    /\ Append({})
    /\ UNCHANGED <<run, card, pc, me, ran, turns, passes, drives, crashes, faults, done, abandoned>>

-----------------------------------------------------------------------------
(* Restart: TurnResumeService *)

Crash ==
    /\ crashes < MaxCrash /\ crashes' = crashes + 1
    /\ pc' = "down" /\ me' = NoTurn
    /\ UNCHANGED <<durable, ran, turns, passes, drives, faults, foreign, done, abandoned>>

\* (mutant: a pass is replayed whatever the checkpoint holds)
AnyPass == run.pass > 0

\* resumePoint: the pass whose batch was in progress, or a pause at the cap.
PassInProgress == run.pass > 0 /\ run.iter >= ckpt.iter
PausedHere == run.paused > 0 /\ run.paused >= ckpt.iter
Resumable ==
    /\ run.id # Nobody /\ ckpt.on
    /\ PassInProgress \/ PausedHere
    /\ run.attempts < MaxAttempts

\* What is lost with a record that is dropped: the pass it would have replayed.
InFlight == IF run.pass > 0 /\ ~(ckpt.on /\ run.iter < ckpt.iter)
               /\ transcript[<<"pass", run.pass>>] = 0
            THEN {run.pass} ELSE {}

\* prepare(): re-drive it, or drop its record (then its empty checkpoint).
Examine ==
    /\ pc = "down"
    /\ IF run.id = Nobody THEN pc' = "recover" /\ UNCHANGED <<run, faults, abandoned>>
       ELSE IF Resumable THEN pc' = "claim" /\ UNCHANGED <<run, faults, abandoned>>
       ELSE /\ pc' = "unmark" /\ abandoned' = abandoned \cup InFlight
            /\ \E ok \in BOOLEAN : Call(ok) /\ run' = IF ok THEN NoRun ELSE run
    /\ UNCHANGED <<transcript, ckpt, card, me, ran, turns, passes, drives, crashes, foreign, done>>

\* (mutants: the marker goes with the messages it holds; it stays)
AnyMark == TRUE
NoMark == FALSE

EmptyMark == ckpt.msgs = {}

Unmark ==
    /\ pc = "unmark" /\ pc' = "recover"
    /\ ckpt' = IF EmptyMark THEN NoCkpt ELSE ckpt
    /\ UNCHANGED <<transcript, run, card, me, ran, counts, done, abandoned>>

\* recoverOrphanedTurnCheckpoints
Recover ==
    /\ pc = "recover" /\ pc' = "lapse"
    /\ IF ckpt.msgs = {} THEN UNCHANGED <<transcript, ckpt, faults>>
       ELSE \/ Append(ckpt.msgs) /\ UNCHANGED faults
            \/ Call(FALSE) /\ UNCHANGED <<transcript, ckpt>>
    /\ UNCHANGED <<run, card, me, ran, turns, passes, drives, crashes, foreign, done, abandoned>>

\* lapseDecisionsOf a loop that will not run again
Lapse ==
    /\ pc = "lapse" /\ pc' = "idle"
    /\ LapseCards
    /\ UNCHANGED <<transcript, ckpt, run, me, ran, counts, done, abandoned>>

ResumeIter == IF PassInProgress THEN run.iter ELSE run.paused

\* start(): one more attempt is counted; a failed claim leaves everything as it is
\* (the count may have been written).
Claim ==
    /\ pc = "claim"
    /\ \/ /\ run' = [run EXCEPT !.attempts = @ + 1]
          /\ me' = [NoTurn EXCEPT !.resumed = TRUE, !.replay = PassInProgress,
                       !.iter = ResumeIter,
                       !.pass = IF PassInProgress THEN run.pass ELSE 0,
                       !.stamp = IF PassInProgress THEN run.calls ELSE NoneOf("out")]
          /\ pc' = "merge" /\ UNCHANGED faults
       \/ /\ Call(FALSE)
          /\ \E counted \in 0..1 : run' = [run EXCEPT !.attempts = @ + counted]
          /\ pc' = "idle" /\ UNCHANGED me
    /\ UNCHANGED <<transcript, ckpt, card, ran, turns, passes, drives, crashes, foreign, done, abandoned>>

\* The turn so far joins the transcript ...
Merge ==
    /\ pc = "merge"
    /\ \/ /\ IF ckpt.msgs = {} THEN UNCHANGED <<transcript, ckpt>> ELSE Append(ckpt.msgs)
          /\ pc' = "remark" /\ UNCHANGED <<me, faults>>
       \/ /\ Call(FALSE)
          /\ pc' = "idle" /\ me' = NoTurn /\ UNCHANGED <<transcript, ckpt>>
    /\ UNCHANGED <<run, card, ran, turns, passes, drives, crashes, foreign, done, abandoned>>

\* ... an empty checkpoint marks it unfinished, and it runs.
Drive ==
    /\ pc = "remark"
    /\ \/ /\ ckpt' = [on |-> TRUE, iter |-> me.iter, msgs |-> {}]
          /\ pc' = "top" /\ drives' = drives + 1
          /\ me' = [me EXCEPT !.id = <<turns, drives + 1>>]
          /\ UNCHANGED faults
       \/ /\ Call(FALSE)
          /\ pc' = "idle" /\ me' = NoTurn /\ UNCHANGED <<ckpt, drives>>
    /\ UNCHANGED <<transcript, run, card, ran, turns, passes, crashes, foreign, done, abandoned>>

-----------------------------------------------------------------------------
Loop == \/ SaveCheckpoint \/ BeginRun \/ PauseAtCap \/ RaiseCap \/ Answer \/ RecordPass
        \/ GateUnasked \/ GateAsks \/ GateDecided \/ EndBatch \/ LeaveLoop \/ Finalize \/ Finish
        \/ \E c \in Calls : CallStarts(c) \/ CallRuns(c) \/ CallFinishes(c)
Boot == Examine \/ Unmark \/ Recover \/ Lapse \/ Claim \/ Merge \/ Drive
Next == Loop \/ Boot \/ StartTurn \/ UserAnswers \/ Stop \/ ForeignAppend \/ Crash

Spec == Init /\ [][Next]_vars

\* The continuations of a booting process are run; the user promises nothing.
FairSpec == Spec /\ WF_vars(Boot)

-----------------------------------------------------------------------------
(* Properties *)

TurnIds == (0..MaxTurn) \X Nat
Iterations == 0..(MaxPass + 1)
Stamps == [Calls -> Progress]
Ckpts == [on : BOOLEAN, iter : Iterations, msgs : SUBSET Messages]
Runs == [id : TurnIds, attempts : 0..MaxAttempts, pass : 0..MaxPass,
         iter : Iterations, calls : Stamps, paused : Iterations]
Turns == [id : TurnIds, begun : BOOLEAN, resumed : BOOLEAN, replay : BOOLEAN,
          stopped : BOOLEAN, iter : Iterations, pass : 0..MaxPass, stamp : Stamps,
          at : [Calls -> {"out", "todo", "begun", "ran", "done"}], msgs : SUBSET Messages]

\* The shape of the state.
TypeOK ==
    /\ transcript \in [Messages -> Nat] /\ ckpt \in Ckpts /\ run \in Runs
    /\ card \in [Recs -> {"none", "pending", "allow", "deny"}]
    /\ pc \in Booting \cup {"idle", "top", "mark", "model", "paused", "record", "gate",
                            "waiting", "batch", "finalize", "finish"}
    /\ me \in Turns /\ ran \in [Recs -> Nat]
    /\ turns \in 0..MaxTurn /\ passes \in 0..MaxPass /\ drives \in Nat
    /\ crashes \in 0..MaxCrash /\ faults \in 0..MaxFault /\ foreign \in 0..MaxForeign
    /\ done \subseteq Passes /\ abandoned \subseteq Passes

Repeated(r) == ran[r] > 1 /\ r[2] \notin Rerunnable

\* A call that may have side effects never runs a second time because of a
\* restart unless its "run it again?" card was answered yes.
RepeatNeedsYes == \A r \in Recs : Repeated(r) => card[r] = "allow"

\* (checked to be false) and every further run takes a yes of its own: the
\* decision a call had before a restart is spent.
EachRepeatAsked == \A r \in Recs :
    Repeated(r) => ran[r] <= 1 + IF card[r] = "allow" THEN 1 ELSE 0

OnRecordFinished(r) == run.id # Nobody /\ run.pass = r[1] /\ run.calls[r[2]] = "finished"

\* A call whose result is on record never runs again, and the result stays on
\* record as long as its pass does, whatever crashes, failed writes and re-drives
\* follow.
FinishedStands == [][\A r \in Recs : OnRecordFinished(r) =>
    /\ ran'[r] = ran[r]
    /\ OnRecordFinished(r)' \/ run'.id = Nobody \/ run'.pass # r[1]]_vars

\* A turn is re-driven at most MaxAttempts times, over any number of crashes.
DrivesBounded == drives <= MaxAttempts

\* No message is in the transcript twice, nor in both the transcript and the
\* checkpoint that recovery appends: the crash may fall anywhere.
MessageOnce == \A m \in Messages :
    /\ transcript[m] <= 1
    /\ m \in ckpt.msgs => transcript[m] = 0

\* A message leaves the checkpoint only for the transcript.
CheckpointKept == [][\A m \in ckpt.msgs : m \in ckpt'.msgs \/ transcript'[m] > 0]_vars

\* The calls and results of a completed batch are never gone: they are in the
\* transcript, the checkpoint, the running turn or the record a restart will
\* replay, unless the turn was given up at a restart.
NothingLost == \A p \in done \ abandoned :
    \/ transcript[<<"pass", p>>] > 0
    \/ <<"pass", p>> \in ckpt.msgs \cup me.msgs
    \/ run.pass = p
    \/ me.pass = p /\ me.stamp # NoneOf("out")

\* A restart settles: unless a database call fails, the turn runs again, or
\* nothing of it is left behind, no record, no checkpoint (not even an empty
\* one), no card still asking.
BootSettles == pc = "down" ~>
    \/ faults > 0
    \/ pc = "top" /\ me.resumed
    \/ /\ pc = "idle" /\ run = NoRun /\ ckpt = NoCkpt
       /\ \A r \in Recs : card[r] # "pending"
=============================================================================
