--------------------------- MODULE TurnRuns_proofs ---------------------------
(***************************************************************************)
(* Proofs about TurnRuns, for every number of calls, turns, passes,        *)
(* crashes and attempts.  Inv holds whatever database calls fail; Exact    *)
(* and Safe hold while none does (MaxFault = 0), Safe while also nobody    *)
(* else writes the conversation (MaxForeign = 0).                          *)
(***************************************************************************)
EXTENDS TurnRuns, TLAPS

\* Where the loop stands: in a turn, at a recorded pass, or before its next pass.
Turning == {"top", "mark", "model", "paused", "record", "gate", "waiting", "batch",
            "finalize", "finish"}
AtPass == {"record", "gate", "waiting", "batch"}
Before == {"merge", "remark", "top", "mark", "model", "paused"}

\* Iterations never run ahead of the answers.
Paced ==
    /\ me.iter <= passes + 1 /\ run.iter <= passes /\ run.pass <= passes
    /\ run.paused <= passes + 1 /\ ckpt.iter <= passes + 1
    /\ me.replay \/ pc \in AtPass => me.iter <= passes
    /\ pc \in Turning \cup Before => me.iter >= 1
    /\ me.pass <= passes
    /\ pc \in AtPass \/ me.replay => me.pass >= 1
    /\ IF run.pass = 0 THEN run.iter = 0 ELSE run.iter >= 1
    /\ run.pass = 0 => run.calls = NoneOf("out")
    /\ run.id = Nobody => run = NoRun

\* Whose turn the record and the loop speak of, and when the loop is a re-driven one.
Identified ==
    /\ run.id[1] <= turns /\ me.id[1] <= turns
    /\ pc \in Turning => me.id # Nobody
    /\ pc \in {"merge", "remark"} => me.resumed /\ ~me.begun
    /\ me.replay => me.resumed
    /\ pc = "claim" => Resumable
    /\ pc \in (Booting \ {"merge", "remark"}) \cup {"idle"} => me = NoTurn

\* The record's attempts count at least the drives of its turn.
Counted ==
    /\ run.id # Nobody => drives <= run.attempts
    /\ pc \in {"merge", "remark"} => run.id # Nobody /\ drives < run.attempts
    /\ me.id # Nobody /\ ~me.resumed => drives = 0
    /\ drives <= MaxAttempts

\* The record is of the turn the loop drives.
Ours == run.id # Nobody /\ (run.id = me.id \/ (me.resumed /\ ~me.begun))

\* Where the recorded pass stands beside the loop's.
Ahead ==
    /\ Ours /\ pc \in Before /\ ~me.replay => run.iter < me.iter
    /\ Ours /\ me.replay => run.pass = me.pass /\ run.iter = me.iter
    /\ me.replay => pc \in Before \cup {"finalize", "finish"}
    /\ Ours /\ pc \in AtPass => run.iter <= me.iter /\ (run.iter = me.iter => run.pass = me.pass)

\* The stamps a batch runs by are those on record.
Faithful ==
    /\ (me.replay \/ pc \in {"record", "gate", "waiting"}) /\ run.pass = me.pass
          => run.calls = me.stamp
    /\ pc = "batch" /\ run.pass = me.pass =>
          \A c \in Calls : me.at[c] \in {"todo", "begun", "ran"} => run.calls[c] # "finished"

\* What holds whatever fails.
Inv == TypeOK /\ Paced /\ Identified /\ Counted /\ Ahead /\ Faithful


\* The record stands exactly while its turn may still need it.
OnRecord ==
    /\ pc \in {"idle", "unmark", "recover", "lapse"} => run.id = Nobody
    /\ pc \in {"claim", "merge", "remark"} => run.id # Nobody
    /\ pc \in {"top", "mark"} /\ ~me.begun => (me.resumed <=> run.id # Nobody)
    /\ pc \in Turning /\ (me.begun \/ pc \notin {"top", "mark"}) => me.begun /\ run.id = me.id
    /\ pc \in {"gate", "waiting", "batch"} => run.pass = me.pass /\ run.iter = me.iter

\* A call that may run a second time: harmless, or allowed by its card.
Again(r) == r[2] \in Rerunnable \/ card[r] = "allow"
\* A call on record as unstarted never ran, and one that may not run again ran at most once.
RanOnce ==
    /\ \A r \in Recs : r[1] > passes => ran[r] = 0
    /\ \A c \in Calls : run.calls[c] = "unstarted" => run.pass > 0 /\ ran[<<run.pass, c>>] = 0
    /\ pc = "record" => \A c \in Calls : me.stamp[c] = "unstarted" => ran[<<me.pass, c>>] = 0
    /\ pc = "batch" => \A c \in Calls :
          /\ me.at[c] \in {"todo", "begun"} => ran[<<me.pass, c>>] = 0 \/ Again(<<me.pass, c>>)
          /\ me.at[c] \in {"begun", "ran"} => run.calls[c] = "running"
    /\ \A r \in Recs : ran[r] > 1 => Again(r)

Pass(p) == <<"pass", p>>
\* A message nobody holds: not in the transcript, the checkpoint or the loop.
Nowhere(m) == transcript[m] = 0 /\ m \notin ckpt.msgs /\ m \notin me.msgs
\* Every message is in one place at most: the transcript, or the checkpoint and the loop.
Placed ==
    /\ \A m \in Messages :
          /\ transcript[m] <= 1
          /\ m \in ckpt.msgs \cup me.msgs => transcript[m] = 0
    /\ pc \in {"idle", "lapse", "remark", "finish"} => ckpt.msgs = {}
    /\ pc \in Turning => ckpt.msgs \subseteq me.msgs
    /\ \A p \in Passes : p > passes => Nowhere(Pass(p))
    /\ \A t \in 1..MaxTurn : t > turns => Nowhere(<<"user", t>>)
    /\ pc \in AtPass \/ (pc \in Before /\ me.replay) => Nowhere(Pass(me.pass))
    /\ ckpt.on /\ run.pass > 0 /\ run.iter >= ckpt.iter =>
           Pass(run.pass) \notin ckpt.msgs /\ transcript[Pass(run.pass)] = 0
    /\ pc \in {"merge", "remark", "finish"} => me.msgs = {}

\* The messages of a completed pass: stored, or still owed by the record.
Stored(p) == transcript[Pass(p)] > 0 \/ Pass(p) \in ckpt.msgs
Owed == run.pass \in done \ abandoned
\* No completed pass is in neither place.
Safe ==
    /\ pc \in {"mark", "model", "paused"} \cup AtPass => ckpt.iter <= me.iter
    /\ \A p \in done \ abandoned : Stored(p) \/ run.pass = p
    /\ Owed /\ run.iter < ckpt.iter => Stored(run.pass)
    /\ Owed /\ pc \in Before \cup {"record"} /\ run.iter < me.iter =>
          Stored(run.pass) \/ (pc = "top" /\ Pass(run.pass) \in me.msgs)
    /\ Owed /\ pc = "finalize" => Stored(run.pass) \/ Pass(run.pass) \in me.msgs
    /\ Owed /\ pc = "finish" => Stored(run.pass)

\* While no database call fails.
Exact == OnRecord /\ RanOnce /\ Placed

-----------------------------------------------------------------------------
(* The state keeps its shape *)

LEMMA Shapes ==
  ASSUME TurnRunsAssumption
  PROVE  /\ NoTurn \in Turns /\ NoRun \in Runs /\ NoCkpt \in Ckpts
         /\ NoneOf("out") \in Stamps
BY DEF TurnRunsAssumption, NoTurn, NoRun, NoCkpt, NoneOf, Nobody, Turns, Runs, Ckpts, Stamps,
     Progress, Iterations, TurnIds

LEMMA StartTurnMe ==
  ASSUME TypeOK, Paced, Identified, TurnRunsAssumption, StartTurn
  PROVE  me' \in Turns
<1>1. <<turns + 1, 0>> \in TurnIds /\ 1 \in Iterations /\ <<"user", turns + 1>> \in Messages
  BY DEF StartTurn, TypeOK, TurnIds, Iterations, Messages, TurnRunsAssumption
<1> QED BY <1>1, Shapes DEF StartTurn, Turns

LEMMA AnswerMe ==
  ASSUME TypeOK, Paced, Identified, TurnRunsAssumption, Answer
  PROVE  me' \in Turns
<1>1. CASE me.replay BY <1>1 DEF Answer, TypeOK, Turns
<1>2. CASE ~me.replay
  <2>0. passes < MaxPass BY <1>2 DEF Answer
  <2>1. passes + 1 \in 0..MaxPass BY <2>0 DEF TypeOK, TurnRunsAssumption
  <2>2. PICK S \in SUBSET Calls : me' = [me EXCEPT !.pass = passes + 1,
           !.stamp = [c \in Calls |-> IF c \in S THEN "unstarted" ELSE "out"]]
    BY <1>2 DEF Answer
  <2>3. [c \in Calls |-> IF c \in S THEN "unstarted" ELSE "out"] \in Stamps
    BY DEF Stamps, Progress
  <2> QED BY <2>1, <2>2, <2>3 DEF TypeOK, Turns
<1> QED BY <1>1, <1>2

LEMMA EndBatchMe ==
  ASSUME TypeOK, Paced, Identified, TurnRunsAssumption, EndBatch
  PROVE  me' \in Turns
<1>1. me.iter + 1 \in Iterations
  BY DEF EndBatch, Paced, AtPass, TypeOK, Turns, Iterations
<1>2. me.msgs \cup {<<"pass", me.pass>>} \in SUBSET Messages
  BY DEF EndBatch, Paced, AtPass, TypeOK, Turns, Messages, Passes
<1> QED BY <1>1, <1>2, Shapes DEF EndBatch, TypeOK, Turns, NoneOf

LEMMA ClaimMe ==
  ASSUME TypeOK, Paced, Identified, TurnRunsAssumption, Claim
  PROVE  me' \in Turns
<1>1. /\ ResumeIter \in Iterations /\ run.pass \in 0..MaxPass /\ run.calls \in Stamps
      /\ PassInProgress \in BOOLEAN
  BY DEF ResumeIter, TypeOK, Runs, PassInProgress, Iterations, TurnRunsAssumption
<1>2. 0 \in 0..MaxPass BY DEF TurnRunsAssumption
<1> QED BY <1>1, <1>2, Shapes DEF Claim, Turns, TypeOK

LEMMA DriveMe ==
  ASSUME TypeOK, Paced, Identified, TurnRunsAssumption, Drive
  PROVE  me' \in Turns
<1>1. <<turns, drives + 1>> \in TurnIds
  BY DEF TypeOK, TurnIds
<1> QED BY <1>1, Shapes DEF Drive, Turns, TypeOK

LEMMA MeTyped ==
  ASSUME TypeOK, Paced, Identified, TurnRunsAssumption, Next
  PROVE  me' \in Turns
<1>1. CASE StartTurn
  BY <1>1, StartTurnMe
<1>2. CASE SaveCheckpoint
  BY Shapes, <1>2 DEF SaveCheckpoint, Call, Booting, Turns, NoTurn, Stamps, Progress, Iterations,
       TurnIds, NoneOf, Nobody, TypeOK
<1>3. CASE BeginRun
  BY Shapes, <1>3 DEF BeginRun, Begun, Call, Booting, Turns, NoTurn, Stamps, Progress, Iterations,
       TurnIds, NoneOf, Nobody, TypeOK
<1>4. CASE PauseAtCap
  BY Shapes, <1>4 DEF PauseAtCap, Record, Mine, Call, Booting, Turns, NoTurn, Stamps, Progress,
       Iterations, TurnIds, NoneOf, Nobody, TypeOK
<1>5. CASE RaiseCap
  BY Shapes, <1>5 DEF RaiseCap, durable, counts, Booting, Turns, NoTurn, Stamps, Progress,
       Iterations, TurnIds, NoneOf, Nobody, TypeOK
<1>6. CASE Answer
  BY <1>6, AnswerMe
<1>7. CASE RecordPass
  BY Shapes, <1>7 DEF RecordPass, Record, Mine, Call, KeptProgress, Booting, Turns, NoTurn,
       Stamps, Progress, Iterations, TurnIds, NoneOf, Nobody, TypeOK
<1>8. CASE GateUnasked
  BY Shapes, <1>8 DEF GateUnasked, RunBatch, Ordinary, CutOff, durable, counts, Booting, Turns,
       NoTurn, Stamps, Progress, Iterations, TurnIds, NoneOf, Nobody, TypeOK
<1>9. CASE GateAsks
  BY Shapes, <1>9 DEF GateAsks, counts, Booting, Turns, NoTurn, Stamps, Progress, Iterations,
       TurnIds, NoneOf, Nobody, TypeOK
<1>10. CASE UserAnswers
  BY Shapes, <1>10 DEF UserAnswers, counts, Booting, Turns, NoTurn, Stamps, Progress, Iterations,
       TurnIds, NoneOf, Nobody, TypeOK
<1>11. CASE GateDecided
  BY Shapes, <1>11 DEF GateDecided, RunBatch, Ordinary, Allowed, Interrupted, CutOff, durable,
       counts, Booting, Turns, NoTurn, Stamps, Progress, Iterations, TurnIds, NoneOf, Nobody,
       TypeOK
<1>12. ASSUME NEW c \in Calls, CallStarts(c)
      PROVE  me' \in Turns
  BY Shapes, <1>12 DEF CallStarts, RecordCall, Record, Mine, Call, Booting, Turns, NoTurn, Stamps,
       Progress, Iterations, TurnIds, NoneOf, Nobody, TypeOK
<1>13. ASSUME NEW c \in Calls, CallRuns(c)
      PROVE  me' \in Turns
  BY Shapes, <1>13 DEF CallRuns, durable, counts, Booting, Turns, NoTurn, Stamps, Progress,
       Iterations, TurnIds, NoneOf, Nobody, TypeOK
<1>14. ASSUME NEW c \in Calls, CallFinishes(c)
      PROVE  me' \in Turns
  BY Shapes, <1>14 DEF CallFinishes, RecordCall, Record, Mine, Call, Booting, Turns, NoTurn,
       Stamps, Progress, Iterations, TurnIds, NoneOf, Nobody, TypeOK
<1>15. CASE EndBatch
  BY <1>15, EndBatchMe
<1>16. CASE Stop
  BY Shapes, <1>16 DEF Stop, LapseCards, counts, Booting, Turns, NoTurn, Stamps, Progress,
       Iterations, TurnIds, NoneOf, Nobody, TypeOK
<1>17. CASE LeaveLoop
  BY Shapes, <1>17 DEF LeaveLoop, durable, counts, Booting, Turns, NoTurn, Stamps, Progress,
       Iterations, TurnIds, NoneOf, Nobody, TypeOK
<1>18. CASE Finalize
  BY Shapes, <1>18 DEF Finalize, Append, Call, Booting, Turns, NoTurn, Stamps, Progress,
       Iterations, TurnIds, NoneOf, Nobody, TypeOK
<1>19. CASE Finish
  BY Shapes, <1>19 DEF Finish, Record, Mine, Call, Booting, Turns, NoTurn, Stamps, Progress,
       Iterations, TurnIds, NoneOf, Nobody, TypeOK
<1>20. CASE ForeignAppend
  BY Shapes, <1>20 DEF ForeignAppend, Append, Booting, Turns, NoTurn, Stamps, Progress,
       Iterations, TurnIds, NoneOf, Nobody, TypeOK
<1>21. CASE Crash
  BY Shapes, <1>21 DEF Crash, durable, Booting, Turns, NoTurn, Stamps, Progress, Iterations,
       TurnIds, NoneOf, Nobody, TypeOK
<1>22. CASE Examine
  BY Shapes, <1>22 DEF Examine, Call, Resumable, PassInProgress, PausedHere, Booting, Turns,
       NoTurn, Stamps, Progress, Iterations, TurnIds, NoneOf, Nobody, TypeOK
<1>23. CASE Unmark
  BY Shapes, <1>23 DEF Unmark, EmptyMark, counts, Booting, Turns, NoTurn, Stamps, Progress,
       Iterations, TurnIds, NoneOf, Nobody, TypeOK
<1>24. CASE Recover
  BY Shapes, <1>24 DEF Recover, Append, Call, Booting, Turns, NoTurn, Stamps, Progress,
       Iterations, TurnIds, NoneOf, Nobody, TypeOK
<1>25. CASE Lapse
  BY Shapes, <1>25 DEF Lapse, LapseCards, counts, Booting, Turns, NoTurn, Stamps, Progress,
       Iterations, TurnIds, NoneOf, Nobody, TypeOK
<1>26. CASE Claim
  BY <1>26, ClaimMe
<1>27. CASE Merge
  BY Shapes, <1>27 DEF Merge, Append, Call, Booting, Turns, NoTurn, Stamps, Progress, Iterations,
       TurnIds, NoneOf, Nobody, TypeOK
<1>28. CASE Drive
  BY <1>28, DriveMe
<1> QED BY <1>1, <1>2, <1>3, <1>4, <1>5, <1>6, <1>7, <1>8, <1>9, <1>10, <1>11, <1>12, <1>13,
     <1>14, <1>15, <1>16, <1>17, <1>18, <1>19, <1>20, <1>21, <1>22, <1>23, <1>24, <1>25, <1>26,
     <1>27, <1>28 DEF Next, Loop, Boot

LEMMA RecordPassRun ==
  ASSUME TypeOK, Paced, Identified, TurnRunsAssumption, RecordPass
  PROVE  run' \in Runs
<1>1. me.pass \in 0..MaxPass /\ me.iter \in Iterations /\ me.stamp \in Stamps
  BY DEF TypeOK, Turns
<1>2. [run EXCEPT !.pass = me.pass, !.iter = me.iter, !.calls = KeptProgress] \in Runs
  BY <1>1 DEF TypeOK, Runs, KeptProgress
<1> QED BY <1>2 DEF RecordPass, Record, TypeOK

LEMMA ClaimRun ==
  ASSUME TypeOK, Paced, Identified, TurnRunsAssumption, Claim
  PROVE  run' \in Runs
<1>1. run.attempts < MaxAttempts BY DEF Claim, Identified, Resumable
<1>2. run.attempts \in Nat /\ run.attempts + 1 \in 0..MaxAttempts
  BY <1>1 DEF TypeOK, Runs, TurnRunsAssumption
<1>0. \/ run' = [run EXCEPT !.attempts = run.attempts + 1]
      \/ \E counted \in 0..1 : run' = [run EXCEPT !.attempts = run.attempts + counted]
  BY DEF Claim
<1>3. PICK k \in 0..1 : run' = [run EXCEPT !.attempts = run.attempts + k]
  BY <1>0
<1>4. run.attempts + k \in 0..MaxAttempts BY <1>2, <1>3 DEF TypeOK, Runs
<1> QED BY <1>3, <1>4 DEF TypeOK, Runs

LEMMA RunTyped ==
  ASSUME TypeOK, Paced, Identified, TurnRunsAssumption, Next
  PROVE  run' \in Runs
<1>1. CASE StartTurn
  BY Shapes, <1>1 DEF StartTurn, LapseCards, Booting, Runs, Turns, NoRun, Stamps, Progress,
       Iterations, TurnIds, NoneOf, Nobody, TypeOK
<1>2. CASE SaveCheckpoint
  BY Shapes, <1>2 DEF SaveCheckpoint, Call, Booting, Runs, Turns, NoRun, Stamps, Progress,
       Iterations, TurnIds, NoneOf, Nobody, TypeOK
<1>3. CASE BeginRun
  BY Shapes, <1>3 DEF BeginRun, Begun, Call, Booting, Runs, Turns, NoRun, Stamps, Progress,
       Iterations, TurnIds, NoneOf, Nobody, TypeOK
<1>4. CASE PauseAtCap
  BY Shapes, <1>4 DEF PauseAtCap, Record, Mine, Call, Booting, Runs, Turns, NoRun, Stamps,
       Progress, Iterations, TurnIds, NoneOf, Nobody, TypeOK
<1>5. CASE RaiseCap
  BY Shapes, <1>5 DEF RaiseCap, durable, counts, Booting, Runs, Turns, NoRun, Stamps, Progress,
       Iterations, TurnIds, NoneOf, Nobody, TypeOK
<1>6. CASE Answer
  BY Shapes, <1>6 DEF Answer, durable, Booting, Runs, Turns, NoRun, Stamps, Progress, Iterations,
       TurnIds, NoneOf, Nobody, TypeOK
<1>7. CASE RecordPass
  BY <1>7, RecordPassRun
<1>8. CASE GateUnasked
  BY Shapes, <1>8 DEF GateUnasked, RunBatch, Ordinary, CutOff, durable, counts, Booting, Runs,
       Turns, NoRun, Stamps, Progress, Iterations, TurnIds, NoneOf, Nobody, TypeOK
<1>9. CASE GateAsks
  BY Shapes, <1>9 DEF GateAsks, counts, Booting, Runs, Turns, NoRun, Stamps, Progress, Iterations,
       TurnIds, NoneOf, Nobody, TypeOK
<1>10. CASE UserAnswers
  BY Shapes, <1>10 DEF UserAnswers, counts, Booting, Runs, Turns, NoRun, Stamps, Progress,
       Iterations, TurnIds, NoneOf, Nobody, TypeOK
<1>11. CASE GateDecided
  BY Shapes, <1>11 DEF GateDecided, RunBatch, Ordinary, Allowed, Interrupted, CutOff, durable,
       counts, Booting, Runs, Turns, NoRun, Stamps, Progress, Iterations, TurnIds, NoneOf, Nobody,
       TypeOK
<1>12. ASSUME NEW c \in Calls, CallStarts(c)
      PROVE  run' \in Runs
  BY Shapes, <1>12 DEF CallStarts, RecordCall, Record, Mine, Call, Booting, Runs, Turns, NoRun,
       Stamps, Progress, Iterations, TurnIds, NoneOf, Nobody, TypeOK
<1>13. ASSUME NEW c \in Calls, CallRuns(c)
      PROVE  run' \in Runs
  BY Shapes, <1>13 DEF CallRuns, durable, counts, Booting, Runs, Turns, NoRun, Stamps, Progress,
       Iterations, TurnIds, NoneOf, Nobody, TypeOK
<1>14. ASSUME NEW c \in Calls, CallFinishes(c)
      PROVE  run' \in Runs
  BY Shapes, <1>14 DEF CallFinishes, RecordCall, Record, Mine, Call, Booting, Runs, Turns, NoRun,
       Stamps, Progress, Iterations, TurnIds, NoneOf, Nobody, TypeOK
<1>15. CASE EndBatch
  BY Shapes, <1>15 DEF EndBatch, durable, counts, Booting, Runs, Turns, NoRun, Stamps, Progress,
       Iterations, TurnIds, NoneOf, Nobody, TypeOK
<1>16. CASE Stop
  BY Shapes, <1>16 DEF Stop, LapseCards, counts, Booting, Runs, Turns, NoRun, Stamps, Progress,
       Iterations, TurnIds, NoneOf, Nobody, TypeOK
<1>17. CASE LeaveLoop
  BY Shapes, <1>17 DEF LeaveLoop, durable, counts, Booting, Runs, Turns, NoRun, Stamps, Progress,
       Iterations, TurnIds, NoneOf, Nobody, TypeOK
<1>18. CASE Finalize
  BY Shapes, <1>18 DEF Finalize, Append, Call, Booting, Runs, Turns, NoRun, Stamps, Progress,
       Iterations, TurnIds, NoneOf, Nobody, TypeOK
<1>19. CASE Finish
  BY Shapes, <1>19 DEF Finish, Record, Mine, Call, Booting, Runs, Turns, NoRun, Stamps, Progress,
       Iterations, TurnIds, NoneOf, Nobody, TypeOK
<1>20. CASE ForeignAppend
  BY Shapes, <1>20 DEF ForeignAppend, Append, Booting, Runs, Turns, NoRun, Stamps, Progress,
       Iterations, TurnIds, NoneOf, Nobody, TypeOK
<1>21. CASE Crash
  BY Shapes, <1>21 DEF Crash, durable, Booting, Runs, Turns, NoRun, Stamps, Progress, Iterations,
       TurnIds, NoneOf, Nobody, TypeOK
<1>22. CASE Examine
  BY Shapes, <1>22 DEF Examine, Call, Resumable, PassInProgress, PausedHere, Booting, Runs, Turns,
       NoRun, Stamps, Progress, Iterations, TurnIds, NoneOf, Nobody, TypeOK
<1>23. CASE Unmark
  BY Shapes, <1>23 DEF Unmark, EmptyMark, counts, Booting, Runs, Turns, NoRun, Stamps, Progress,
       Iterations, TurnIds, NoneOf, Nobody, TypeOK
<1>24. CASE Recover
  BY Shapes, <1>24 DEF Recover, Append, Call, Booting, Runs, Turns, NoRun, Stamps, Progress,
       Iterations, TurnIds, NoneOf, Nobody, TypeOK
<1>25. CASE Lapse
  BY Shapes, <1>25 DEF Lapse, LapseCards, counts, Booting, Runs, Turns, NoRun, Stamps, Progress,
       Iterations, TurnIds, NoneOf, Nobody, TypeOK
<1>26. CASE Claim
  BY <1>26, ClaimRun
<1>27. CASE Merge
  BY Shapes, <1>27 DEF Merge, Append, Call, Booting, Runs, Turns, NoRun, Stamps, Progress,
       Iterations, TurnIds, NoneOf, Nobody, TypeOK
<1>28. CASE Drive
  BY Shapes, <1>28 DEF Drive, Call, Booting, Runs, Turns, NoRun, Stamps, Progress, Iterations,
       TurnIds, NoneOf, Nobody, TypeOK
<1> QED BY <1>1, <1>2, <1>3, <1>4, <1>5, <1>6, <1>7, <1>8, <1>9, <1>10, <1>11, <1>12, <1>13,
     <1>14, <1>15, <1>16, <1>17, <1>18, <1>19, <1>20, <1>21, <1>22, <1>23, <1>24, <1>25, <1>26,
     <1>27, <1>28 DEF Next, Loop, Boot

LEMMA SaveCheckpointCkpt ==
  ASSUME TypeOK, Paced, Identified, TurnRunsAssumption, SaveCheckpoint
  PROVE  ckpt' \in Ckpts
<1>1. me.iter \in Iterations /\ me.msgs \in SUBSET Messages
  BY DEF TypeOK, Turns
<1>2. [on |-> TRUE, iter |-> me.iter, msgs |-> me.msgs] \in Ckpts
  BY <1>1 DEF Ckpts
<1> QED BY <1>2 DEF SaveCheckpoint, TypeOK

LEMMA MergeCkpt ==
  ASSUME TypeOK, Paced, Identified, TurnRunsAssumption, Merge
  PROVE  ckpt' \in Ckpts
BY Shapes DEF Merge, Append, TypeOK

LEMMA DriveCkpt ==
  ASSUME TypeOK, Paced, Identified, TurnRunsAssumption, Drive
  PROVE  ckpt' \in Ckpts
<1>1. me.iter \in Iterations
  BY DEF TypeOK, Turns
<1>2. [on |-> TRUE, iter |-> me.iter, msgs |-> {}] \in Ckpts
  BY <1>1 DEF Ckpts
<1> QED BY <1>2 DEF Drive, TypeOK

LEMMA CkptTyped ==
  ASSUME TypeOK, Paced, Identified, TurnRunsAssumption, Next
  PROVE  ckpt' \in Ckpts
<1>1. CASE StartTurn
  BY Shapes, <1>1 DEF StartTurn, LapseCards, Booting, Ckpts, Turns, Stamps, Progress, Iterations,
       TurnIds, NoneOf, Nobody, TypeOK
<1>2. CASE SaveCheckpoint
  BY <1>2, SaveCheckpointCkpt
<1>3. CASE BeginRun
  BY Shapes, <1>3 DEF BeginRun, Begun, Call, Booting, Ckpts, Turns, Stamps, Progress, Iterations,
       TurnIds, NoneOf, Nobody, TypeOK
<1>4. CASE PauseAtCap
  BY Shapes, <1>4 DEF PauseAtCap, Record, Mine, Call, Booting, Ckpts, Turns, Stamps, Progress,
       Iterations, TurnIds, NoneOf, Nobody, TypeOK
<1>5. CASE RaiseCap
  BY Shapes, <1>5 DEF RaiseCap, durable, counts, Booting, Ckpts, Turns, Stamps, Progress,
       Iterations, TurnIds, NoneOf, Nobody, TypeOK
<1>6. CASE Answer
  BY Shapes, <1>6 DEF Answer, durable, Booting, Ckpts, Turns, Stamps, Progress, Iterations,
       TurnIds, NoneOf, Nobody, TypeOK
<1>7. CASE RecordPass
  BY Shapes, <1>7 DEF RecordPass, Record, Mine, Call, KeptProgress, Booting, Ckpts, Turns, Stamps,
       Progress, Iterations, TurnIds, NoneOf, Nobody, TypeOK
<1>8. CASE GateUnasked
  BY Shapes, <1>8 DEF GateUnasked, RunBatch, Ordinary, CutOff, durable, counts, Booting, Ckpts,
       Turns, Stamps, Progress, Iterations, TurnIds, NoneOf, Nobody, TypeOK
<1>9. CASE GateAsks
  BY Shapes, <1>9 DEF GateAsks, counts, Booting, Ckpts, Turns, Stamps, Progress, Iterations,
       TurnIds, NoneOf, Nobody, TypeOK
<1>10. CASE UserAnswers
  BY Shapes, <1>10 DEF UserAnswers, counts, Booting, Ckpts, Turns, Stamps, Progress, Iterations,
       TurnIds, NoneOf, Nobody, TypeOK
<1>11. CASE GateDecided
  BY Shapes, <1>11 DEF GateDecided, RunBatch, Ordinary, Allowed, Interrupted, CutOff, durable,
       counts, Booting, Ckpts, Turns, Stamps, Progress, Iterations, TurnIds, NoneOf, Nobody,
       TypeOK
<1>12. ASSUME NEW c \in Calls, CallStarts(c)
      PROVE  ckpt' \in Ckpts
  BY Shapes, <1>12 DEF CallStarts, RecordCall, Record, Mine, Call, Booting, Ckpts, Turns, Stamps,
       Progress, Iterations, TurnIds, NoneOf, Nobody, TypeOK
<1>13. ASSUME NEW c \in Calls, CallRuns(c)
      PROVE  ckpt' \in Ckpts
  BY Shapes, <1>13 DEF CallRuns, durable, counts, Booting, Ckpts, Turns, Stamps, Progress,
       Iterations, TurnIds, NoneOf, Nobody, TypeOK
<1>14. ASSUME NEW c \in Calls, CallFinishes(c)
      PROVE  ckpt' \in Ckpts
  BY Shapes, <1>14 DEF CallFinishes, RecordCall, Record, Mine, Call, Booting, Ckpts, Turns,
       Stamps, Progress, Iterations, TurnIds, NoneOf, Nobody, TypeOK
<1>15. CASE EndBatch
  BY Shapes, <1>15 DEF EndBatch, durable, counts, Booting, Ckpts, Turns, Stamps, Progress,
       Iterations, TurnIds, NoneOf, Nobody, TypeOK
<1>16. CASE Stop
  BY Shapes, <1>16 DEF Stop, LapseCards, counts, Booting, Ckpts, Turns, Stamps, Progress,
       Iterations, TurnIds, NoneOf, Nobody, TypeOK
<1>17. CASE LeaveLoop
  BY Shapes, <1>17 DEF LeaveLoop, durable, counts, Booting, Ckpts, Turns, Stamps, Progress,
       Iterations, TurnIds, NoneOf, Nobody, TypeOK
<1>18. CASE Finalize
  BY Shapes, <1>18 DEF Finalize, Append, Call, Booting, Ckpts, Turns, Stamps, Progress,
       Iterations, TurnIds, NoneOf, Nobody, TypeOK
<1>19. CASE Finish
  BY Shapes, <1>19 DEF Finish, Record, Mine, Call, Booting, Ckpts, Turns, Stamps, Progress,
       Iterations, TurnIds, NoneOf, Nobody, TypeOK
<1>20. CASE ForeignAppend
  BY Shapes, <1>20 DEF ForeignAppend, Append, Booting, Ckpts, Turns, Stamps, Progress, Iterations,
       TurnIds, NoneOf, Nobody, TypeOK
<1>21. CASE Crash
  BY Shapes, <1>21 DEF Crash, durable, Booting, Ckpts, Turns, Stamps, Progress, Iterations,
       TurnIds, NoneOf, Nobody, TypeOK
<1>22. CASE Examine
  BY Shapes, <1>22 DEF Examine, Call, Resumable, PassInProgress, PausedHere, Booting, Ckpts,
       Turns, Stamps, Progress, Iterations, TurnIds, NoneOf, Nobody, TypeOK
<1>23. CASE Unmark
  BY Shapes, <1>23 DEF Unmark, EmptyMark, counts, Booting, Ckpts, Turns, Stamps, Progress,
       Iterations, TurnIds, NoneOf, Nobody, TypeOK
<1>24. CASE Recover
  BY Shapes, <1>24 DEF Recover, Append, Call, Booting, Ckpts, Turns, Stamps, Progress, Iterations,
       TurnIds, NoneOf, Nobody, TypeOK
<1>25. CASE Lapse
  BY Shapes, <1>25 DEF Lapse, LapseCards, counts, Booting, Ckpts, Turns, Stamps, Progress,
       Iterations, TurnIds, NoneOf, Nobody, TypeOK
<1>26. CASE Claim
  BY Shapes, <1>26 DEF Claim, Call, Resumable, PassInProgress, PausedHere, ResumeIter, Booting,
       Ckpts, Turns, Stamps, Progress, Iterations, TurnIds, NoneOf, Nobody, TypeOK
<1>27. CASE Merge
  BY <1>27, MergeCkpt
<1>28. CASE Drive
  BY <1>28, DriveCkpt
<1> QED BY <1>1, <1>2, <1>3, <1>4, <1>5, <1>6, <1>7, <1>8, <1>9, <1>10, <1>11, <1>12, <1>13,
     <1>14, <1>15, <1>16, <1>17, <1>18, <1>19, <1>20, <1>21, <1>22, <1>23, <1>24, <1>25, <1>26,
     <1>27, <1>28 DEF Next, Loop, Boot

LEMMA LeaveLoopDone ==
  ASSUME TypeOK, Paced, Identified, TurnRunsAssumption, LeaveLoop
  PROVE  done' \subseteq Passes /\ abandoned' \subseteq Passes
<1>1. pc = "gate" \/ me.replay => me.pass \in Passes
  BY DEF Paced, AtPass, TypeOK, Turns, Passes
<1> QED BY <1>1 DEF LeaveLoop, TypeOK

LEMMA ExamineDone ==
  ASSUME TypeOK, Paced, Identified, TurnRunsAssumption, Examine
  PROVE  done' \subseteq Passes /\ abandoned' \subseteq Passes
<1>1. InFlight \subseteq Passes
  BY DEF InFlight, TypeOK, Runs, Passes
<1> QED BY <1>1 DEF Examine, TypeOK

LEMMA DoneTyped ==
  ASSUME TypeOK, Paced, Identified, TurnRunsAssumption, Next
  PROVE  done' \subseteq Passes /\ abandoned' \subseteq Passes
<1>1. CASE StartTurn
  BY <1>1 DEF StartTurn, LapseCards, Booting, Paced, AtPass, Turns, Passes, TypeOK
<1>2. CASE SaveCheckpoint
  BY <1>2 DEF SaveCheckpoint, Call, Booting, Paced, AtPass, Turns, Passes, TypeOK
<1>3. CASE BeginRun
  BY <1>3 DEF BeginRun, Begun, Call, Booting, Paced, AtPass, Turns, Passes, TypeOK
<1>4. CASE PauseAtCap
  BY <1>4 DEF PauseAtCap, Record, Mine, Call, Booting, Paced, AtPass, Turns, Passes, TypeOK
<1>5. CASE RaiseCap
  BY <1>5 DEF RaiseCap, durable, counts, Booting, Paced, AtPass, Turns, Passes, TypeOK
<1>6. CASE Answer
  BY <1>6 DEF Answer, durable, Booting, Paced, AtPass, Turns, Passes, TypeOK
<1>7. CASE RecordPass
  BY <1>7 DEF RecordPass, Record, Mine, Call, KeptProgress, Booting, Paced, AtPass, Turns, Passes,
       TypeOK
<1>8. CASE GateUnasked
  BY <1>8 DEF GateUnasked, RunBatch, Ordinary, CutOff, durable, counts, Booting, Paced, AtPass,
       Turns, Passes, TypeOK
<1>9. CASE GateAsks
  BY <1>9 DEF GateAsks, counts, Booting, Paced, AtPass, Turns, Passes, TypeOK
<1>10. CASE UserAnswers
  BY <1>10 DEF UserAnswers, counts, Booting, Paced, AtPass, Turns, Passes, TypeOK
<1>11. CASE GateDecided
  BY <1>11 DEF GateDecided, RunBatch, Ordinary, Allowed, Interrupted, CutOff, durable, counts,
       Booting, Paced, AtPass, Turns, Passes, TypeOK
<1>12. ASSUME NEW c \in Calls, CallStarts(c)
      PROVE  done' \subseteq Passes /\ abandoned' \subseteq Passes
  BY <1>12 DEF CallStarts, RecordCall, Record, Mine, Call, Booting, Paced, AtPass, Turns, Passes,
       TypeOK
<1>13. ASSUME NEW c \in Calls, CallRuns(c)
      PROVE  done' \subseteq Passes /\ abandoned' \subseteq Passes
  BY <1>13 DEF CallRuns, durable, counts, Booting, Paced, AtPass, Turns, Passes, TypeOK
<1>14. ASSUME NEW c \in Calls, CallFinishes(c)
      PROVE  done' \subseteq Passes /\ abandoned' \subseteq Passes
  BY <1>14 DEF CallFinishes, RecordCall, Record, Mine, Call, Booting, Paced, AtPass, Turns,
       Passes, TypeOK
<1>15. CASE EndBatch
  BY <1>15 DEF EndBatch, durable, counts, Booting, Paced, AtPass, Turns, Passes, TypeOK
<1>16. CASE Stop
  BY <1>16 DEF Stop, LapseCards, counts, Booting, Paced, AtPass, Turns, Passes, TypeOK
<1>17. CASE LeaveLoop
  BY <1>17, LeaveLoopDone
<1>18. CASE Finalize
  BY <1>18 DEF Finalize, Append, Call, Booting, Paced, AtPass, Turns, Passes, TypeOK
<1>19. CASE Finish
  BY <1>19 DEF Finish, Record, Mine, Call, Booting, Paced, AtPass, Turns, Passes, TypeOK
<1>20. CASE ForeignAppend
  BY <1>20 DEF ForeignAppend, Append, Booting, Paced, AtPass, Turns, Passes, TypeOK
<1>21. CASE Crash
  BY <1>21 DEF Crash, durable, Booting, Paced, AtPass, Turns, Passes, TypeOK
<1>22. CASE Examine
  BY <1>22, ExamineDone
<1>23. CASE Unmark
  BY <1>23 DEF Unmark, EmptyMark, counts, Booting, Paced, AtPass, Turns, Passes, TypeOK
<1>24. CASE Recover
  BY <1>24 DEF Recover, Append, Call, Booting, Paced, AtPass, Turns, Passes, TypeOK
<1>25. CASE Lapse
  BY <1>25 DEF Lapse, LapseCards, counts, Booting, Paced, AtPass, Turns, Passes, TypeOK
<1>26. CASE Claim
  BY <1>26 DEF Claim, Call, Resumable, PassInProgress, PausedHere, ResumeIter, Booting, Paced,
       AtPass, Turns, Passes, TypeOK
<1>27. CASE Merge
  BY <1>27 DEF Merge, Append, Call, Booting, Paced, AtPass, Turns, Passes, TypeOK
<1>28. CASE Drive
  BY <1>28 DEF Drive, Call, Booting, Paced, AtPass, Turns, Passes, TypeOK
<1> QED BY <1>1, <1>2, <1>3, <1>4, <1>5, <1>6, <1>7, <1>8, <1>9, <1>10, <1>11, <1>12, <1>13,
     <1>14, <1>15, <1>16, <1>17, <1>18, <1>19, <1>20, <1>21, <1>22, <1>23, <1>24, <1>25, <1>26,
     <1>27, <1>28 DEF Next, Loop, Boot

LEMMA CallRunsRan ==
  ASSUME TypeOK, Paced, Identified, TurnRunsAssumption, NEW c \in Calls, CallRuns(c)
  PROVE  card' \in [Recs -> {"none", "pending", "allow", "deny"}] /\ ran' \in [Recs -> Nat]
<1>1. \A r \in Recs : ran[r] \in Nat /\ ran[r] + 1 \in Nat BY DEF TypeOK
<1>2. ran' = [ran EXCEPT ![<<me.pass, c>>] = ran[<<me.pass, c>>] + 1]
  BY DEF CallRuns
<1>3. ran' \in [Recs -> Nat] BY <1>1, <1>2 DEF TypeOK
<1> QED BY <1>3 DEF CallRuns, durable, TypeOK

LEMMA RanTyped ==
  ASSUME TypeOK, Paced, Identified, TurnRunsAssumption, Next
  PROVE  card' \in [Recs -> {"none", "pending", "allow", "deny"}] /\ ran' \in [Recs -> Nat]
<1>1. CASE StartTurn
  BY <1>1 DEF StartTurn, LapseCards, Booting, Recs, TypeOK
<1>2. CASE SaveCheckpoint
  BY <1>2 DEF SaveCheckpoint, Call, Booting, Recs, TypeOK
<1>3. CASE BeginRun
  BY <1>3 DEF BeginRun, Begun, Call, Booting, Recs, TypeOK
<1>4. CASE PauseAtCap
  BY <1>4 DEF PauseAtCap, Record, Mine, Call, Booting, Recs, TypeOK
<1>5. CASE RaiseCap
  BY <1>5 DEF RaiseCap, durable, counts, Booting, Recs, TypeOK
<1>6. CASE Answer
  BY <1>6 DEF Answer, durable, Booting, Recs, TypeOK
<1>7. CASE RecordPass
  BY <1>7 DEF RecordPass, Record, Mine, Call, KeptProgress, Booting, Recs, TypeOK
<1>8. CASE GateUnasked
  BY <1>8 DEF GateUnasked, RunBatch, Ordinary, CutOff, durable, counts, Booting, Recs, TypeOK
<1>9. CASE GateAsks
  BY <1>9 DEF GateAsks, counts, Booting, Recs, TypeOK
<1>10. CASE UserAnswers
  BY <1>10 DEF UserAnswers, counts, Booting, Recs, TypeOK
<1>11. CASE GateDecided
  BY <1>11 DEF GateDecided, RunBatch, Ordinary, Allowed, Interrupted, CutOff, durable, counts,
       Booting, Recs, TypeOK
<1>12. ASSUME NEW c \in Calls, CallStarts(c)
      PROVE  card' \in [Recs -> {"none", "pending", "allow", "deny"}] /\ ran' \in [Recs -> Nat]
  BY <1>12 DEF CallStarts, RecordCall, Record, Mine, Call, Booting, Recs, TypeOK
<1>13. ASSUME NEW c \in Calls, CallRuns(c)
      PROVE  card' \in [Recs -> {"none", "pending", "allow", "deny"}] /\ ran' \in [Recs -> Nat]
  BY <1>13, CallRunsRan
<1>14. ASSUME NEW c \in Calls, CallFinishes(c)
      PROVE  card' \in [Recs -> {"none", "pending", "allow", "deny"}] /\ ran' \in [Recs -> Nat]
  BY <1>14 DEF CallFinishes, RecordCall, Record, Mine, Call, Booting, Recs, TypeOK
<1>15. CASE EndBatch
  BY <1>15 DEF EndBatch, durable, counts, Booting, Recs, TypeOK
<1>16. CASE Stop
  BY <1>16 DEF Stop, LapseCards, counts, Booting, Recs, TypeOK
<1>17. CASE LeaveLoop
  BY <1>17 DEF LeaveLoop, durable, counts, Booting, Recs, TypeOK
<1>18. CASE Finalize
  BY <1>18 DEF Finalize, Append, Call, Booting, Recs, TypeOK
<1>19. CASE Finish
  BY <1>19 DEF Finish, Record, Mine, Call, Booting, Recs, TypeOK
<1>20. CASE ForeignAppend
  BY <1>20 DEF ForeignAppend, Append, Booting, Recs, TypeOK
<1>21. CASE Crash
  BY <1>21 DEF Crash, durable, Booting, Recs, TypeOK
<1>22. CASE Examine
  BY <1>22 DEF Examine, Call, Resumable, PassInProgress, PausedHere, Booting, Recs, TypeOK
<1>23. CASE Unmark
  BY <1>23 DEF Unmark, EmptyMark, counts, Booting, Recs, TypeOK
<1>24. CASE Recover
  BY <1>24 DEF Recover, Append, Call, Booting, Recs, TypeOK
<1>25. CASE Lapse
  BY <1>25 DEF Lapse, LapseCards, counts, Booting, Recs, TypeOK
<1>26. CASE Claim
  BY <1>26 DEF Claim, Call, Resumable, PassInProgress, PausedHere, ResumeIter, Booting, Recs, TypeOK
<1>27. CASE Merge
  BY <1>27 DEF Merge, Append, Call, Booting, Recs, TypeOK
<1>28. CASE Drive
  BY <1>28 DEF Drive, Call, Booting, Recs, TypeOK
<1> QED BY <1>1, <1>2, <1>3, <1>4, <1>5, <1>6, <1>7, <1>8, <1>9, <1>10, <1>11, <1>12, <1>13,
     <1>14, <1>15, <1>16, <1>17, <1>18, <1>19, <1>20, <1>21, <1>22, <1>23, <1>24, <1>25, <1>26,
     <1>27, <1>28 DEF Next, Loop, Boot

LEMMA TranscriptTyped ==
  ASSUME TypeOK, Paced, Identified, TurnRunsAssumption, Next
  PROVE  transcript' \in [Messages -> Nat]
<1>1. CASE StartTurn
  BY <1>1 DEF StartTurn, LapseCards, Booting, TypeOK
<1>2. CASE SaveCheckpoint
  BY <1>2 DEF SaveCheckpoint, Call, Booting, TypeOK
<1>3. CASE BeginRun
  BY <1>3 DEF BeginRun, Begun, Call, Booting, TypeOK
<1>4. CASE PauseAtCap
  BY <1>4 DEF PauseAtCap, Record, Mine, Call, Booting, TypeOK
<1>5. CASE RaiseCap
  BY <1>5 DEF RaiseCap, durable, counts, Booting, TypeOK
<1>6. CASE Answer
  BY <1>6 DEF Answer, durable, Booting, TypeOK
<1>7. CASE RecordPass
  BY <1>7 DEF RecordPass, Record, Mine, Call, KeptProgress, Booting, TypeOK
<1>8. CASE GateUnasked
  BY <1>8 DEF GateUnasked, RunBatch, Ordinary, CutOff, durable, counts, Booting, TypeOK
<1>9. CASE GateAsks
  BY <1>9 DEF GateAsks, counts, Booting, TypeOK
<1>10. CASE UserAnswers
  BY <1>10 DEF UserAnswers, counts, Booting, TypeOK
<1>11. CASE GateDecided
  BY <1>11 DEF GateDecided, RunBatch, Ordinary, Allowed, Interrupted, CutOff, durable, counts,
       Booting, TypeOK
<1>12. ASSUME NEW c \in Calls, CallStarts(c)
      PROVE  transcript' \in [Messages -> Nat]
  BY <1>12 DEF CallStarts, RecordCall, Record, Mine, Call, Booting, TypeOK
<1>13. ASSUME NEW c \in Calls, CallRuns(c)
      PROVE  transcript' \in [Messages -> Nat]
  BY <1>13 DEF CallRuns, durable, counts, Booting, TypeOK
<1>14. ASSUME NEW c \in Calls, CallFinishes(c)
      PROVE  transcript' \in [Messages -> Nat]
  BY <1>14 DEF CallFinishes, RecordCall, Record, Mine, Call, Booting, TypeOK
<1>15. CASE EndBatch
  BY <1>15 DEF EndBatch, durable, counts, Booting, TypeOK
<1>16. CASE Stop
  BY <1>16 DEF Stop, LapseCards, counts, Booting, TypeOK
<1>17. CASE LeaveLoop
  BY <1>17 DEF LeaveLoop, durable, counts, Booting, TypeOK
<1>18. CASE Finalize
  BY <1>18 DEF Finalize, Append, Call, Booting, TypeOK
<1>19. CASE Finish
  BY <1>19 DEF Finish, Record, Mine, Call, Booting, TypeOK
<1>20. CASE ForeignAppend
  BY <1>20 DEF ForeignAppend, Append, Booting, TypeOK
<1>21. CASE Crash
  BY <1>21 DEF Crash, durable, Booting, TypeOK
<1>22. CASE Examine
  BY <1>22 DEF Examine, Call, Resumable, PassInProgress, PausedHere, Booting, TypeOK
<1>23. CASE Unmark
  BY <1>23 DEF Unmark, EmptyMark, counts, Booting, TypeOK
<1>24. CASE Recover
  BY <1>24 DEF Recover, Append, Call, Booting, TypeOK
<1>25. CASE Lapse
  BY <1>25 DEF Lapse, LapseCards, counts, Booting, TypeOK
<1>26. CASE Claim
  BY <1>26 DEF Claim, Call, Resumable, PassInProgress, PausedHere, ResumeIter, Booting, TypeOK
<1>27. CASE Merge
  BY <1>27 DEF Merge, Append, Call, Booting, TypeOK
<1>28. CASE Drive
  BY <1>28 DEF Drive, Call, Booting, TypeOK
<1> QED BY <1>1, <1>2, <1>3, <1>4, <1>5, <1>6, <1>7, <1>8, <1>9, <1>10, <1>11, <1>12, <1>13,
     <1>14, <1>15, <1>16, <1>17, <1>18, <1>19, <1>20, <1>21, <1>22, <1>23, <1>24, <1>25, <1>26,
     <1>27, <1>28 DEF Next, Loop, Boot

LEMMA AnswerCounts ==
  ASSUME TypeOK, Paced, Identified, TurnRunsAssumption, Answer
  PROVE  /\ turns' \in 0..MaxTurn /\ passes' \in 0..MaxPass /\ drives' \in Nat
         /\ crashes' \in 0..MaxCrash /\ faults' \in 0..MaxFault /\ foreign' \in 0..MaxForeign
<1>0. passes' = passes \/ (passes < MaxPass /\ passes' = passes + 1) BY DEF Answer
<1>1. passes' \in 0..MaxPass BY <1>0 DEF TypeOK, TurnRunsAssumption
<1> QED BY <1>1 DEF Answer, TypeOK, counts

LEMMA CountsTyped ==
  ASSUME TypeOK, Paced, Identified, TurnRunsAssumption, Next
  PROVE  /\ turns' \in 0..MaxTurn /\ passes' \in 0..MaxPass /\ drives' \in Nat
         /\ crashes' \in 0..MaxCrash /\ faults' \in 0..MaxFault /\ foreign' \in 0..MaxForeign
<1>1. CASE StartTurn
  BY <1>1 DEF StartTurn, LapseCards, Booting, TurnRunsAssumption, TypeOK
<1>2. CASE SaveCheckpoint
  BY <1>2 DEF SaveCheckpoint, Call, Booting, TurnRunsAssumption, TypeOK
<1>3. CASE BeginRun
  BY <1>3 DEF BeginRun, Begun, Call, Booting, TurnRunsAssumption, TypeOK
<1>4. CASE PauseAtCap
  BY <1>4 DEF PauseAtCap, Record, Mine, Call, Booting, TurnRunsAssumption, TypeOK
<1>5. CASE RaiseCap
  BY <1>5 DEF RaiseCap, durable, counts, Booting, TurnRunsAssumption, TypeOK
<1>6. CASE Answer
  BY <1>6, AnswerCounts
<1>7. CASE RecordPass
  BY <1>7 DEF RecordPass, Record, Mine, Call, KeptProgress, Booting, TurnRunsAssumption, TypeOK
<1>8. CASE GateUnasked
  BY <1>8 DEF GateUnasked, RunBatch, Ordinary, CutOff, durable, counts, Booting,
       TurnRunsAssumption, TypeOK
<1>9. CASE GateAsks
  BY <1>9 DEF GateAsks, counts, Booting, TurnRunsAssumption, TypeOK
<1>10. CASE UserAnswers
  BY <1>10 DEF UserAnswers, counts, Booting, TurnRunsAssumption, TypeOK
<1>11. CASE GateDecided
  BY <1>11 DEF GateDecided, RunBatch, Ordinary, Allowed, Interrupted, CutOff, durable, counts,
       Booting, TurnRunsAssumption, TypeOK
<1>12. ASSUME NEW c \in Calls, CallStarts(c)
      PROVE  /\ turns' \in 0..MaxTurn /\ passes' \in 0..MaxPass /\ drives' \in Nat
             /\ crashes' \in 0..MaxCrash /\ faults' \in 0..MaxFault /\ foreign' \in 0..MaxForeign
  BY <1>12 DEF CallStarts, RecordCall, Record, Mine, Call, Booting, TurnRunsAssumption, TypeOK
<1>13. ASSUME NEW c \in Calls, CallRuns(c)
      PROVE  /\ turns' \in 0..MaxTurn /\ passes' \in 0..MaxPass /\ drives' \in Nat
             /\ crashes' \in 0..MaxCrash /\ faults' \in 0..MaxFault /\ foreign' \in 0..MaxForeign
  BY <1>13 DEF CallRuns, durable, counts, Booting, TurnRunsAssumption, TypeOK
<1>14. ASSUME NEW c \in Calls, CallFinishes(c)
      PROVE  /\ turns' \in 0..MaxTurn /\ passes' \in 0..MaxPass /\ drives' \in Nat
             /\ crashes' \in 0..MaxCrash /\ faults' \in 0..MaxFault /\ foreign' \in 0..MaxForeign
  BY <1>14 DEF CallFinishes, RecordCall, Record, Mine, Call, Booting, TurnRunsAssumption, TypeOK
<1>15. CASE EndBatch
  BY <1>15 DEF EndBatch, durable, counts, Booting, TurnRunsAssumption, TypeOK
<1>16. CASE Stop
  BY <1>16 DEF Stop, LapseCards, counts, Booting, TurnRunsAssumption, TypeOK
<1>17. CASE LeaveLoop
  BY <1>17 DEF LeaveLoop, durable, counts, Booting, TurnRunsAssumption, TypeOK
<1>18. CASE Finalize
  BY <1>18 DEF Finalize, Append, Call, Booting, TurnRunsAssumption, TypeOK
<1>19. CASE Finish
  BY <1>19 DEF Finish, Record, Mine, Call, Booting, TurnRunsAssumption, TypeOK
<1>20. CASE ForeignAppend
  BY <1>20 DEF ForeignAppend, Append, Booting, TurnRunsAssumption, TypeOK
<1>21. CASE Crash
  BY <1>21 DEF Crash, durable, Booting, TurnRunsAssumption, TypeOK
<1>22. CASE Examine
  BY <1>22 DEF Examine, Call, Resumable, PassInProgress, PausedHere, Booting, TurnRunsAssumption,
       TypeOK
<1>23. CASE Unmark
  BY <1>23 DEF Unmark, EmptyMark, counts, Booting, TurnRunsAssumption, TypeOK
<1>24. CASE Recover
  BY <1>24 DEF Recover, Append, Call, Booting, TurnRunsAssumption, TypeOK
<1>25. CASE Lapse
  BY <1>25 DEF Lapse, LapseCards, counts, Booting, TurnRunsAssumption, TypeOK
<1>26. CASE Claim
  BY <1>26 DEF Claim, Call, Resumable, PassInProgress, PausedHere, ResumeIter, Booting,
       TurnRunsAssumption, TypeOK
<1>27. CASE Merge
  BY <1>27 DEF Merge, Append, Call, Booting, TurnRunsAssumption, TypeOK
<1>28. CASE Drive
  BY <1>28 DEF Drive, Call, Booting, TurnRunsAssumption, TypeOK
<1> QED BY <1>1, <1>2, <1>3, <1>4, <1>5, <1>6, <1>7, <1>8, <1>9, <1>10, <1>11, <1>12, <1>13,
     <1>14, <1>15, <1>16, <1>17, <1>18, <1>19, <1>20, <1>21, <1>22, <1>23, <1>24, <1>25, <1>26,
     <1>27, <1>28 DEF Next, Loop, Boot

LEMMA PcTyped ==
  ASSUME TypeOK, Paced, Identified, TurnRunsAssumption, Next
  PROVE  pc' \in Booting \cup {"idle", "top", "mark", "model", "paused", "record", "gate",
                        "waiting", "batch", "finalize", "finish"}
<1>1. CASE StartTurn
  BY <1>1 DEF StartTurn, LapseCards, Booting, TypeOK
<1>2. CASE SaveCheckpoint
  BY <1>2 DEF SaveCheckpoint, Call, Booting, TypeOK
<1>3. CASE BeginRun
  BY <1>3 DEF BeginRun, Begun, Call, Booting, TypeOK
<1>4. CASE PauseAtCap
  BY <1>4 DEF PauseAtCap, Record, Mine, Call, Booting, TypeOK
<1>5. CASE RaiseCap
  BY <1>5 DEF RaiseCap, durable, counts, Booting, TypeOK
<1>6. CASE Answer
  BY <1>6 DEF Answer, durable, Booting, TypeOK
<1>7. CASE RecordPass
  BY <1>7 DEF RecordPass, Record, Mine, Call, KeptProgress, Booting, TypeOK
<1>8. CASE GateUnasked
  BY <1>8 DEF GateUnasked, RunBatch, Ordinary, CutOff, durable, counts, Booting, TypeOK
<1>9. CASE GateAsks
  BY <1>9 DEF GateAsks, counts, Booting, TypeOK
<1>10. CASE UserAnswers
  BY <1>10 DEF UserAnswers, counts, Booting, TypeOK
<1>11. CASE GateDecided
  BY <1>11 DEF GateDecided, RunBatch, Ordinary, Allowed, Interrupted, CutOff, durable, counts,
       Booting, TypeOK
<1>12. ASSUME NEW c \in Calls, CallStarts(c)
      PROVE  pc' \in Booting \cup {"idle", "top", "mark", "model", "paused", "record", "gate",
                        "waiting", "batch", "finalize", "finish"}
  BY <1>12 DEF CallStarts, RecordCall, Record, Mine, Call, Booting, TypeOK
<1>13. ASSUME NEW c \in Calls, CallRuns(c)
      PROVE  pc' \in Booting \cup {"idle", "top", "mark", "model", "paused", "record", "gate",
                        "waiting", "batch", "finalize", "finish"}
  BY <1>13 DEF CallRuns, durable, counts, Booting, TypeOK
<1>14. ASSUME NEW c \in Calls, CallFinishes(c)
      PROVE  pc' \in Booting \cup {"idle", "top", "mark", "model", "paused", "record", "gate",
                        "waiting", "batch", "finalize", "finish"}
  BY <1>14 DEF CallFinishes, RecordCall, Record, Mine, Call, Booting, TypeOK
<1>15. CASE EndBatch
  BY <1>15 DEF EndBatch, durable, counts, Booting, TypeOK
<1>16. CASE Stop
  BY <1>16 DEF Stop, LapseCards, counts, Booting, TypeOK
<1>17. CASE LeaveLoop
  BY <1>17 DEF LeaveLoop, durable, counts, Booting, TypeOK
<1>18. CASE Finalize
  BY <1>18 DEF Finalize, Append, Call, Booting, TypeOK
<1>19. CASE Finish
  BY <1>19 DEF Finish, Record, Mine, Call, Booting, TypeOK
<1>20. CASE ForeignAppend
  BY <1>20 DEF ForeignAppend, Append, Booting, TypeOK
<1>21. CASE Crash
  BY <1>21 DEF Crash, durable, Booting, TypeOK
<1>22. CASE Examine
  BY <1>22 DEF Examine, Call, Resumable, PassInProgress, PausedHere, Booting, TypeOK
<1>23. CASE Unmark
  BY <1>23 DEF Unmark, EmptyMark, counts, Booting, TypeOK
<1>24. CASE Recover
  BY <1>24 DEF Recover, Append, Call, Booting, TypeOK
<1>25. CASE Lapse
  BY <1>25 DEF Lapse, LapseCards, counts, Booting, TypeOK
<1>26. CASE Claim
  BY <1>26 DEF Claim, Call, Resumable, PassInProgress, PausedHere, ResumeIter, Booting, TypeOK
<1>27. CASE Merge
  BY <1>27 DEF Merge, Append, Call, Booting, TypeOK
<1>28. CASE Drive
  BY <1>28 DEF Drive, Call, Booting, TypeOK
<1> QED BY <1>1, <1>2, <1>3, <1>4, <1>5, <1>6, <1>7, <1>8, <1>9, <1>10, <1>11, <1>12, <1>13,
     <1>14, <1>15, <1>16, <1>17, <1>18, <1>19, <1>20, <1>21, <1>22, <1>23, <1>24, <1>25, <1>26,
     <1>27, <1>28 DEF Next, Loop, Boot

LEMMA TypeStep ==
  ASSUME TypeOK, Paced, Identified, TurnRunsAssumption, Next
  PROVE  TypeOK'
BY MeTyped, RunTyped, CkptTyped, DoneTyped, RanTyped, TranscriptTyped, CountsTyped, PcTyped
   DEF TypeOK

-----------------------------------------------------------------------------
(* One lemma per part and, under it, one step per action *)

LEMMA ClaimStep ==
  ASSUME TypeOK, TurnRunsAssumption, Claim
  PROVE  /\ run'.id = run.id /\ run'.pass = run.pass /\ run'.iter = run.iter
         /\ run'.calls = run.calls /\ run'.paused = run.paused
         /\ \/ /\ pc' = "idle" /\ me' = me
               /\ run'.attempts \in {run.attempts, run.attempts + 1}
            \/ /\ pc' = "merge" /\ run'.attempts = run.attempts + 1
               /\ me'.resumed /\ ~me'.begun /\ me'.id = Nobody /\ me'.msgs = {}
               /\ me'.replay = PassInProgress /\ me'.iter = ResumeIter
               /\ PassInProgress => me'.pass = run.pass /\ me'.stamp = run.calls
               /\ ~PassInProgress => me'.pass = 0
<1>1. \/ /\ run' = [run EXCEPT !.attempts = @ + 1] /\ pc' = "merge"
         /\ me' = [NoTurn EXCEPT !.resumed = TRUE, !.replay = PassInProgress,
                       !.iter = ResumeIter,
                       !.pass = IF PassInProgress THEN run.pass ELSE 0,
                       !.stamp = IF PassInProgress THEN run.calls ELSE NoneOf("out")]
      \/ /\ \E counted \in 0..1 : run' = [run EXCEPT !.attempts = @ + counted]
         /\ pc' = "idle" /\ me' = me
  BY DEF Claim
<1>2. CASE pc' = "merge"
  <2>1. /\ run' = [run EXCEPT !.attempts = @ + 1]
        /\ me' = [NoTurn EXCEPT !.resumed = TRUE, !.replay = PassInProgress,
                       !.iter = ResumeIter,
                       !.pass = IF PassInProgress THEN run.pass ELSE 0,
                       !.stamp = IF PassInProgress THEN run.calls ELSE NoneOf("out")]
    BY <1>1, <1>2
  <2>2. /\ me'.resumed /\ ~me'.begun /\ me'.id = Nobody /\ me'.msgs = {}
        /\ me'.replay = PassInProgress /\ me'.iter = ResumeIter
    BY <2>1 DEF NoTurn
  <2>3. /\ me'.pass = IF PassInProgress THEN run.pass ELSE 0
        /\ me'.stamp = IF PassInProgress THEN run.calls ELSE NoneOf("out")
    BY <2>1 DEF NoTurn
  <2> QED BY <1>2, <2>1, <2>2, <2>3 DEF TypeOK, Runs
<1>3. CASE pc' # "merge"
  BY <1>1, <1>3 DEF TypeOK, Runs
<1> QED BY <1>2, <1>3

LEMMA AnswerStep ==
  ASSUME TypeOK, TurnRunsAssumption, Answer
  PROVE  /\ pc = "model" /\ pc' = "record" /\ UNCHANGED <<transcript, ckpt, run, card, ran>>
         /\ UNCHANGED <<turns, drives, crashes, faults, foreign, done, abandoned>>
         /\ me'.replay = FALSE /\ me'.iter = me.iter /\ me'.id = me.id /\ me'.msgs = me.msgs
         /\ me'.begun = me.begun /\ me'.resumed = me.resumed /\ me'.stopped = me.stopped
         /\ \/ /\ me.replay /\ passes' = passes
               /\ me'.pass = me.pass /\ me'.stamp = me.stamp
            \/ /\ ~me.replay /\ passes' = passes + 1 /\ me'.pass = passes + 1
               /\ passes + 1 \in Passes
               /\ \A c \in Calls : me'.stamp[c] \in {"unstarted", "out"}
<1>1. /\ pc = "model" /\ pc' = "record" /\ UNCHANGED <<transcript, ckpt, run, card, ran>>
      /\ UNCHANGED <<turns, drives, crashes, faults, foreign, done, abandoned>>
  BY DEF Answer, durable
<1>2. CASE me.replay
  <2>1. me' = [me EXCEPT !.replay = FALSE] /\ passes' = passes BY <1>2 DEF Answer
  <2> QED BY <1>1, <1>2, <2>1 DEF TypeOK, Turns
<1>3. CASE ~me.replay
  <2>1. passes < MaxPass /\ passes' = passes + 1 BY <1>3 DEF Answer
  <2>2. PICK S \in SUBSET Calls : me' = [me EXCEPT !.pass = passes + 1,
           !.stamp = [c \in Calls |-> IF c \in S THEN "unstarted" ELSE "out"]]
    BY <1>3 DEF Answer
  <2>3. passes + 1 \in Passes BY <2>1 DEF TypeOK, Passes, TurnRunsAssumption
  <2>4. me'.stamp = [c \in Calls |-> IF c \in S THEN "unstarted" ELSE "out"]
    BY <2>2 DEF TypeOK, Turns
  <2>5. \A c \in Calls : me'.stamp[c] \in {"unstarted", "out"} BY <2>4
  <2>6. /\ me'.replay = FALSE /\ me'.iter = me.iter /\ me'.id = me.id /\ me'.msgs = me.msgs
        /\ me'.begun = me.begun /\ me'.resumed = me.resumed /\ me'.stopped = me.stopped
        /\ me'.pass = passes + 1
    BY <1>3, <2>2 DEF TypeOK, Turns
  <2> QED BY <1>1, <1>3, <2>1, <2>3, <2>5, <2>6
<1> QED BY <1>2, <1>3

LEMMA ClaimPaced ==
  ASSUME Inv, TypeOK', TurnRunsAssumption, Claim
  PROVE  Paced'
<1>1. pc = "claim" /\ UNCHANGED <<passes, ckpt>> BY DEF Claim
<1>2. PassInProgress \/ run.paused > 0
  BY <1>1 DEF Inv, Identified, Resumable, PausedHere
<1>3. /\ run.iter \in Nat /\ run.pass \in Nat /\ run.paused \in Nat /\ passes \in Nat
  BY DEF Inv, TypeOK, Runs, Iterations
<1>4. me = NoTurn /\ run.id # Nobody BY <1>1 DEF Inv, Identified, Booting, Resumable
<1>5. CASE pc' = "idle"
  BY <1>1, <1>3, <1>4, <1>5, ClaimStep DEF Inv, Paced, AtPass, Turning, Before, NoTurn
<1>6. CASE pc' # "idle"
  <2>1. /\ pc' = "merge" /\ me'.replay = PassInProgress /\ me'.iter = ResumeIter
        /\ run'.iter = run.iter /\ run'.pass = run.pass /\ run'.id = run.id
        /\ run'.paused = run.paused /\ run'.calls = run.calls
        /\ me'.pass = IF PassInProgress THEN run.pass ELSE 0
    BY <1>6, ClaimStep DEF Inv
  <2>2. /\ run.iter <= passes /\ run.pass <= passes /\ run.paused <= passes + 1
        /\ (IF run.pass = 0 THEN run.iter = 0 ELSE run.iter >= 1) /\ (run.pass = 0 => run.calls = NoneOf("out"))
        /\ ckpt.iter <= passes + 1
    BY DEF Inv, Paced
  <2>3. PassInProgress => run.pass > 0 BY DEF PassInProgress
  <2>4. CASE PassInProgress
    <3>1. run.iter >= 1 BY <2>3, <2>4 DEF Inv, Paced
    <3> QED BY <1>1, <1>3, <1>4, <2>1, <2>2, <2>3, <2>4, <3>1 DEF Paced, ResumeIter, AtPass
  <2>5. CASE ~PassInProgress
    <3>1. me'.iter = run.paused /\ me'.pass = 0 /\ ~me'.replay /\ run.paused > 0
      BY <1>2, <2>1, <2>5 DEF ResumeIter
    <3>2. me'.iter <= passes + 1 /\ me'.iter >= 1 /\ me'.pass <= passes
      BY <1>3, <2>2, <3>1
    <3>3. pc' \notin AtPass BY <2>1 DEF AtPass
    <3>4. run'.id # Nobody BY <1>4, <2>1
    <3> QED BY <1>1, <2>1, <2>2, <3>1, <3>2, <3>3, <3>4 DEF Paced
  <2> QED BY <2>4, <2>5
<1> QED BY <1>5, <1>6

LEMMA AnswerPaced ==
  ASSUME Inv, TypeOK', TurnRunsAssumption, Answer
  PROVE  Paced'
<1>1. /\ pc = "model" /\ pc' = "record" /\ ~me'.replay /\ me'.iter = me.iter
      /\ run' = run /\ ckpt' = ckpt
      /\ \/ me.replay /\ passes' = passes /\ me'.pass = me.pass
         \/ passes' = passes + 1 /\ me'.pass = passes + 1
  BY AnswerStep DEF Inv
<1>2. /\ me.iter \in Nat /\ me.pass \in Nat /\ run.iter \in Nat /\ run.pass \in Nat
      /\ run.paused \in Nat /\ ckpt.iter \in Nat /\ passes \in Nat
  BY DEF Inv, TypeOK, Runs, Turns, Ckpts, Iterations
<1>3. me.iter >= 1 /\ (me.replay => me.iter <= passes /\ me.pass >= 1)
  BY <1>1 DEF Inv, Paced, Turning
<1> QED BY <1>1, <1>2, <1>3 DEF Inv, Paced

LEMMA PacedStep ==
  ASSUME Inv, TypeOK', TurnRunsAssumption, Next
  PROVE  Paced'
<1>1. CASE StartTurn
  BY <1>1 DEF StartTurn, LapseCards, Paced, Before, Turning, AtPass, Booting, NoTurn, NoRun,
       NoCkpt, NoneOf, Nobody, TypeOK, Turns, Runs, Ckpts, Iterations, Inv
<1>2. CASE SaveCheckpoint
  BY <1>2 DEF SaveCheckpoint, Call, Paced, Before, Turning, AtPass, Booting, Inv
<1>3. CASE BeginRun
  BY <1>3 DEF BeginRun, Begun, Call, Paced, Before, Turning, AtPass, Booting, NoTurn, NoRun,
       NoCkpt, NoneOf, Nobody, TypeOK, Turns, Runs, Ckpts, Iterations, Identified, Ahead, Inv
<1>4. CASE PauseAtCap
  BY <1>4 DEF PauseAtCap, Record, Mine, Call, Paced, Before, Turning, AtPass, Booting, TypeOK,
       Turns, Runs, Ckpts, Iterations, Inv
<1>5. CASE RaiseCap
  BY <1>5 DEF RaiseCap, durable, counts, Paced, Before, Turning, AtPass, Booting, Inv
<1>6. CASE Answer
  BY <1>6, AnswerPaced
<1>7. CASE RecordPass
  BY <1>7 DEF RecordPass, Record, Mine, Call, KeptProgress, Paced, Before, Turning, AtPass,
       Booting, Inv
<1>8. CASE GateUnasked
  BY <1>8 DEF GateUnasked, RunBatch, Ordinary, CutOff, durable, counts, Paced, Before, Turning,
       AtPass, Booting, Inv
<1>9. CASE GateAsks
  BY <1>9 DEF GateAsks, counts, Paced, Before, Turning, AtPass, Booting, Inv
<1>10. CASE UserAnswers
  BY <1>10 DEF UserAnswers, counts, Paced, Inv
<1>11. CASE GateDecided
  BY <1>11 DEF GateDecided, RunBatch, Ordinary, Allowed, Interrupted, CutOff, durable, counts,
       Paced, Before, Turning, AtPass, Booting, Inv
<1>12. ASSUME NEW c \in Calls, CallStarts(c)  PROVE Paced'
  BY <1>12 DEF CallStarts, RecordCall, Record, Mine, Call, Paced, Before, Turning, AtPass,
       Booting, TypeOK, Turns, Runs, Ckpts, Iterations, Inv
<1>13. ASSUME NEW c \in Calls, CallRuns(c)  PROVE Paced'
  BY <1>13 DEF CallRuns, durable, counts, Paced, Inv
<1>14. ASSUME NEW c \in Calls, CallFinishes(c)  PROVE Paced'
  BY <1>14 DEF CallFinishes, RecordCall, Record, Mine, Call, Paced, Before, Turning, AtPass,
       Booting, TypeOK, Turns, Runs, Ckpts, Iterations, Inv
<1>15. CASE EndBatch
  BY <1>15 DEF EndBatch, durable, counts, Paced, Before, Turning, AtPass, Booting, NoTurn, NoRun,
       NoCkpt, NoneOf, Nobody, TypeOK, Turns, Runs, Ckpts, Iterations, Identified, Ahead, Inv
<1>16. CASE Stop
  BY <1>16 DEF Stop, LapseCards, counts, Paced, Inv
<1>17. CASE LeaveLoop
  BY <1>17 DEF LeaveLoop, durable, counts, Paced, Before, Turning, AtPass, Booting, Inv
<1>18. CASE Finalize
  BY <1>18 DEF Finalize, Append, Call, Paced, Before, Turning, AtPass, Booting, NoTurn, NoRun,
       NoCkpt, NoneOf, Nobody, TypeOK, Turns, Runs, Ckpts, Iterations, Inv
<1>19. CASE Finish
  BY <1>19 DEF Finish, Record, Mine, Call, Paced, Before, Turning, AtPass, Booting, NoTurn, NoRun,
       NoCkpt, NoneOf, Nobody, TypeOK, Turns, Runs, Ckpts, Iterations, Inv
<1>20. CASE ForeignAppend
  BY <1>20 DEF ForeignAppend, Append, Paced, Before, Turning, AtPass, Booting, NoTurn, NoRun,
       NoCkpt, NoneOf, Nobody, TypeOK, Turns, Runs, Ckpts, Iterations, Inv
<1>21. CASE Crash
  BY <1>21 DEF Crash, durable, Paced, Before, Turning, AtPass, Booting, NoTurn, NoRun, NoCkpt,
       NoneOf, Nobody, TypeOK, Turns, Runs, Ckpts, Iterations, Inv
<1>22. CASE Examine
  BY <1>22 DEF Examine, Call, Resumable, PassInProgress, PausedHere, Paced, Before, Turning,
       AtPass, Booting, NoTurn, NoRun, NoCkpt, NoneOf, Nobody, Identified, Ahead, Inv
<1>23. CASE Unmark
  BY <1>23 DEF Unmark, EmptyMark, counts, Paced, Before, Turning, AtPass, Booting, NoTurn, NoRun,
       NoCkpt, NoneOf, Nobody, Identified, Ahead, Inv
<1>24. CASE Recover
  BY <1>24 DEF Recover, Append, Call, Paced, Before, Turning, AtPass, Booting, NoTurn, NoRun,
       NoCkpt, NoneOf, Nobody, Identified, Ahead, Inv
<1>25. CASE Lapse
  BY <1>25 DEF Lapse, LapseCards, counts, Paced, Before, Turning, AtPass, Booting, Inv
<1>26. CASE Claim
  BY <1>26, ClaimPaced
<1>27. CASE Merge
  BY <1>27 DEF Merge, Append, Call, Paced, Before, Turning, AtPass, Booting, NoTurn, NoRun,
       NoCkpt, NoneOf, Nobody, TypeOK, Turns, Runs, Ckpts, Iterations, Inv
<1>28. CASE Drive
  BY <1>28 DEF Drive, Call, Paced, Before, Turning, AtPass, Booting, NoTurn, NoRun, NoCkpt,
       NoneOf, Nobody, TypeOK, Turns, Runs, Ckpts, Iterations, Inv
<1> QED BY <1>1, <1>2, <1>3, <1>4, <1>5, <1>6, <1>7, <1>8, <1>9, <1>10, <1>11, <1>12, <1>13,
     <1>14, <1>15, <1>16, <1>17, <1>18, <1>19, <1>20, <1>21, <1>22, <1>23, <1>24, <1>25, <1>26,
     <1>27, <1>28 DEF Next, Loop, Boot

LEMMA ClaimIdentified ==
  ASSUME Inv, TypeOK', TurnRunsAssumption, Claim
  PROVE  Identified'
<1>1. pc = "claim" /\ UNCHANGED turns BY DEF Claim
<1> QED BY <1>1, ClaimStep DEF Inv, Identified, TypeOK, Runs, Turning, Booting, NoTurn, Nobody

LEMMA AnswerIdentified ==
  ASSUME Inv, TypeOK', TurnRunsAssumption, Answer
  PROVE  Identified'
BY AnswerStep DEF Inv, Identified, Turning, Booting

LEMMA IdentifiedStep ==
  ASSUME Inv, TypeOK', TurnRunsAssumption, Next
  PROVE  Identified'
<1>1. CASE StartTurn
  BY <1>1 DEF StartTurn, LapseCards, TypeOK, TurnIds, Turns, Runs, Ckpts, Iterations, Turning,
       AtPass, Before, NoTurn, NoRun, NoCkpt, NoneOf, Nobody, Booting, Inv, Identified, Resumable,
       PassInProgress, PausedHere
<1>2. CASE SaveCheckpoint
  BY <1>2 DEF SaveCheckpoint, Call, Identified, Before, Turning, AtPass, Booting, Inv
<1>3. CASE BeginRun
  BY <1>3 DEF BeginRun, Begun, Call, Identified, Before, Turning, AtPass, Booting, TypeOK, Turns,
       Runs, Ckpts, Iterations, Inv
<1>4. CASE PauseAtCap
  BY <1>4 DEF PauseAtCap, Record, Mine, Call, Identified, Before, Turning, AtPass, Booting,
       TypeOK, Turns, Runs, Ckpts, Iterations, Inv
<1>5. CASE RaiseCap
  BY <1>5 DEF RaiseCap, durable, counts, Identified, Before, Turning, AtPass, Booting, Inv
<1>6. CASE Answer
  BY <1>6, AnswerIdentified
<1>7. CASE RecordPass
  BY <1>7 DEF RecordPass, Record, Mine, Call, KeptProgress, Identified, Before, Turning, AtPass,
       Booting, Inv
<1>8. CASE GateUnasked
  BY <1>8 DEF GateUnasked, RunBatch, Ordinary, CutOff, durable, counts, Identified, Before,
       Turning, AtPass, Booting, Inv
<1>9. CASE GateAsks
  BY <1>9 DEF GateAsks, counts, Identified, Before, Turning, AtPass, Booting, Inv
<1>10. CASE UserAnswers
  BY <1>10 DEF UserAnswers, counts, Identified, Before, Turning, AtPass, Booting, Inv
<1>11. CASE GateDecided
  BY <1>11 DEF GateDecided, RunBatch, Ordinary, Allowed, Interrupted, CutOff, durable, counts,
       Identified, Before, Turning, AtPass, Booting, Inv
<1>12. ASSUME NEW c \in Calls, CallStarts(c)  PROVE Identified'
  BY <1>12 DEF CallStarts, RecordCall, Record, Mine, Call, Identified, Before, Turning, AtPass,
       Booting, TypeOK, Turns, Runs, Ckpts, Iterations, Inv
<1>13. ASSUME NEW c \in Calls, CallRuns(c)  PROVE Identified'
  BY <1>13 DEF CallRuns, durable, counts, Identified, Before, Turning, AtPass, Booting, Inv
<1>14. ASSUME NEW c \in Calls, CallFinishes(c)  PROVE Identified'
  BY <1>14 DEF CallFinishes, RecordCall, Record, Mine, Call, Identified, Before, Turning, AtPass,
       Booting, TypeOK, Turns, Runs, Ckpts, Iterations, Inv
<1>15. CASE EndBatch
  BY <1>15 DEF EndBatch, durable, counts, Identified, Before, Turning, AtPass, Booting, Inv
<1>16. CASE Stop
  BY <1>16 DEF Stop, LapseCards, counts, Identified, Before, Turning, AtPass, Booting, Inv
<1>17. CASE LeaveLoop
  BY <1>17 DEF LeaveLoop, durable, counts, Identified, Before, Turning, AtPass, Booting, Inv
<1>18. CASE Finalize
  BY <1>18 DEF Finalize, Append, Call, Identified, Before, Turning, AtPass, Booting, Inv
<1>19. CASE Finish
  BY <1>19 DEF Finish, Record, Mine, Call, Identified, Before, Turning, AtPass, Booting, NoTurn,
       NoRun, NoCkpt, NoneOf, Nobody, TypeOK, Turns, Runs, Ckpts, Iterations, Inv
<1>20. CASE ForeignAppend
  BY <1>20 DEF ForeignAppend, Append, Identified, Before, Turning, AtPass, Booting, Inv
<1>21. CASE Crash
  BY <1>21 DEF Crash, durable, Identified, Before, Turning, AtPass, Booting, NoTurn, NoRun,
       NoCkpt, NoneOf, Nobody, TypeOK, Turns, Runs, Ckpts, Iterations, Inv
<1>22. CASE Examine
  BY <1>22 DEF Examine, Call, Resumable, PassInProgress, PausedHere, Identified, Before, Turning,
       AtPass, Booting, NoTurn, NoRun, NoCkpt, NoneOf, Nobody, Inv
<1>23. CASE Unmark
  BY <1>23 DEF Unmark, EmptyMark, counts, Identified, Before, Turning, AtPass, Booting, Inv
<1>24. CASE Recover
  BY <1>24 DEF Recover, Append, Call, Identified, Before, Turning, AtPass, Booting, Inv
<1>25. CASE Lapse
  BY <1>25 DEF Lapse, LapseCards, counts, Identified, Before, Turning, AtPass, Booting, Inv
<1>26. CASE Claim
  BY <1>26, ClaimIdentified
<1>27. CASE Merge
  BY <1>27 DEF Merge, Append, Call, Identified, Before, Turning, AtPass, Booting, NoTurn, NoRun,
       NoCkpt, NoneOf, Nobody, TypeOK, Turns, Runs, Ckpts, Iterations, Inv
<1>28. CASE Drive
  BY <1>28 DEF Drive, Call, Identified, Before, Turning, AtPass, Booting, NoTurn, NoRun, NoCkpt,
       NoneOf, Nobody, TypeOK, Turns, Runs, Ckpts, Iterations, Inv
<1> QED BY <1>1, <1>2, <1>3, <1>4, <1>5, <1>6, <1>7, <1>8, <1>9, <1>10, <1>11, <1>12, <1>13,
     <1>14, <1>15, <1>16, <1>17, <1>18, <1>19, <1>20, <1>21, <1>22, <1>23, <1>24, <1>25, <1>26,
     <1>27, <1>28 DEF Next, Loop, Boot

LEMMA ClaimCounted ==
  ASSUME Inv, TypeOK', TurnRunsAssumption, Claim
  PROVE  Counted'
<1>1. pc = "claim" /\ UNCHANGED drives BY DEF Claim
<1> QED BY <1>1, ClaimStep DEF Inv, Identified, Counted, Resumable, TypeOK, Runs, Booting,
     NoTurn, Nobody

LEMMA AnswerCounted ==
  ASSUME Inv, TypeOK', TurnRunsAssumption, Answer
  PROVE  Counted'
BY AnswerStep DEF Inv, Counted

LEMMA CountedStep ==
  ASSUME Inv, TypeOK', TurnRunsAssumption, Next
  PROVE  Counted'
<1>1. CASE StartTurn
  BY <1>1 DEF StartTurn, LapseCards, Counted, TypeOK, Turns, Runs, Ckpts, Iterations, Inv
<1>2. CASE SaveCheckpoint
  BY <1>2 DEF SaveCheckpoint, Call, Counted, Inv
<1>3. CASE BeginRun
  BY <1>3 DEF BeginRun, Begun, Call, Counted, TypeOK, Turns, Runs, Ckpts, Iterations, Inv
<1>4. CASE PauseAtCap
  BY <1>4 DEF PauseAtCap, Record, Mine, Call, Counted, TypeOK, Turns, Runs, Ckpts, Iterations, Inv
<1>5. CASE RaiseCap
  BY <1>5 DEF RaiseCap, durable, counts, Counted, Inv
<1>6. CASE Answer
  BY <1>6, AnswerCounted
<1>7. CASE RecordPass
  BY <1>7 DEF RecordPass, Record, Mine, Call, KeptProgress, Counted, Inv
<1>8. CASE GateUnasked
  BY <1>8 DEF GateUnasked, RunBatch, Ordinary, CutOff, durable, counts, Counted, Inv
<1>9. CASE GateAsks
  BY <1>9 DEF GateAsks, counts, Counted, Inv
<1>10. CASE UserAnswers
  BY <1>10 DEF UserAnswers, counts, Counted, Inv
<1>11. CASE GateDecided
  BY <1>11 DEF GateDecided, RunBatch, Ordinary, Allowed, Interrupted, CutOff, durable, counts,
       Counted, Inv
<1>12. ASSUME NEW c \in Calls, CallStarts(c)  PROVE Counted'
  BY <1>12 DEF CallStarts, RecordCall, Record, Mine, Call, Counted, TypeOK, Turns, Runs, Ckpts,
       Iterations, Inv
<1>13. ASSUME NEW c \in Calls, CallRuns(c)  PROVE Counted'
  BY <1>13 DEF CallRuns, durable, counts, Counted, Inv
<1>14. ASSUME NEW c \in Calls, CallFinishes(c)  PROVE Counted'
  BY <1>14 DEF CallFinishes, RecordCall, Record, Mine, Call, Counted, TypeOK, Turns, Runs, Ckpts,
       Iterations, Inv
<1>15. CASE EndBatch
  BY <1>15 DEF EndBatch, durable, counts, Counted, Inv
<1>16. CASE Stop
  BY <1>16 DEF Stop, LapseCards, counts, Counted, Inv
<1>17. CASE LeaveLoop
  BY <1>17 DEF LeaveLoop, durable, counts, Counted, Inv
<1>18. CASE Finalize
  BY <1>18 DEF Finalize, Append, Call, Counted, Inv
<1>19. CASE Finish
  BY <1>19 DEF Finish, Record, Mine, Call, Counted, Before, Turning, AtPass, Booting, NoTurn,
       NoRun, NoCkpt, NoneOf, Nobody, Inv
<1>20. CASE ForeignAppend
  BY <1>20 DEF ForeignAppend, Append, Counted, Inv
<1>21. CASE Crash
  BY <1>21 DEF Crash, durable, Counted, Before, Turning, AtPass, Booting, NoTurn, NoRun, NoCkpt,
       NoneOf, Nobody, Inv
<1>22. CASE Examine
  BY <1>22 DEF Examine, Call, Resumable, PassInProgress, PausedHere, Counted, Before, Turning,
       AtPass, Booting, NoTurn, NoRun, NoCkpt, NoneOf, Nobody, Inv
<1>23. CASE Unmark
  BY <1>23 DEF Unmark, EmptyMark, counts, Counted, Inv
<1>24. CASE Recover
  BY <1>24 DEF Recover, Append, Call, Counted, Inv
<1>25. CASE Lapse
  BY <1>25 DEF Lapse, LapseCards, counts, Counted, Inv
<1>26. CASE Claim
  BY <1>26, ClaimCounted
<1>27. CASE Merge
  BY <1>27 DEF Merge, Append, Call, Counted, Before, Turning, AtPass, Booting, NoTurn, NoRun,
       NoCkpt, NoneOf, Nobody, Inv
<1>28. CASE Drive
  BY <1>28 DEF Drive, Call, Counted, Before, Turning, AtPass, Booting, NoTurn, NoRun, NoCkpt,
       NoneOf, Nobody, TypeOK, Turns, Runs, Ckpts, Iterations, Identified, Inv
<1> QED BY <1>1, <1>2, <1>3, <1>4, <1>5, <1>6, <1>7, <1>8, <1>9, <1>10, <1>11, <1>12, <1>13,
     <1>14, <1>15, <1>16, <1>17, <1>18, <1>19, <1>20, <1>21, <1>22, <1>23, <1>24, <1>25, <1>26,
     <1>27, <1>28 DEF Next, Loop, Boot

LEMMA ClaimAhead ==
  ASSUME Inv, TypeOK', TurnRunsAssumption, Claim
  PROVE  Ahead'
<1>1. pc = "claim" /\ UNCHANGED ckpt BY DEF Claim
<1>2. PassInProgress \/ (PausedHere /\ run.paused > run.iter)
  BY <1>1 DEF Inv, Paced, Identified, Resumable, PassInProgress, PausedHere, TypeOK, Runs, Ckpts,
       Iterations
<1>3. run.id # Nobody /\ me = NoTurn BY <1>1 DEF Inv, Identified, Resumable, Booting
<1>4. CASE pc' = "idle" BY <1>3, <1>4, ClaimStep DEF Inv, Ahead, Ours, NoTurn, Before, AtPass
<1>5. CASE pc' # "idle"
  <2>1. /\ pc' = "merge" /\ me'.replay = PassInProgress /\ me'.iter = ResumeIter
        /\ run'.iter = run.iter /\ run'.pass = run.pass
        /\ PassInProgress => me'.pass = run.pass
    BY <1>5, ClaimStep DEF Inv
  <2> QED BY <1>2, <2>1 DEF Ahead, Ours, ResumeIter, Before, AtPass
<1> QED BY <1>4, <1>5

LEMMA AnswerAhead ==
  ASSUME Inv, TypeOK', TurnRunsAssumption, Answer
  PROVE  Ahead'
<1>1. /\ pc = "model" /\ pc' = "record" /\ ~me'.replay /\ me'.id = me.id /\ me'.iter = me.iter
      /\ me'.begun = me.begun /\ me'.resumed = me.resumed /\ run' = run
  BY AnswerStep DEF Inv
<1>2. Ours' => Ours BY <1>1 DEF Ours
<1>3. CASE me.replay
  <2>1. me'.pass = me.pass BY <1>3, AnswerStep DEF Inv
  <2>2. Ours => run.pass = me.pass /\ run.iter = me.iter BY <1>3 DEF Inv, Ahead
  <2> QED BY <1>1, <1>2, <2>1, <2>2 DEF Ahead, Before, AtPass, TypeOK, Turns, Iterations, Inv
<1>4. CASE ~me.replay
  <2>1. Ours => run.iter < me.iter BY <1>1, <1>4 DEF Inv, Ahead, Before
  <2>2. run.iter \in Nat /\ me.iter \in Nat BY DEF Inv, TypeOK, Runs, Turns, Iterations
  <2>3. Ours => run.iter <= me.iter /\ run.iter # me.iter BY <2>1, <2>2
  <2> QED BY <1>1, <1>2, <2>3 DEF Ahead, Before
<1> QED BY <1>3, <1>4

LEMMA AheadStep ==
  ASSUME Inv, TypeOK', TurnRunsAssumption, Next
  PROVE  Ahead'
<1>1. CASE StartTurn
  BY <1>1 DEF StartTurn, LapseCards, Ahead, Ours, Before, Turning, AtPass, Booting, NoTurn, NoRun,
       NoCkpt, NoneOf, Nobody, TypeOK, Turns, Runs, Ckpts, Iterations, Identified, Paced, Inv
<1>2. CASE SaveCheckpoint
  BY <1>2 DEF SaveCheckpoint, Call, Ahead, Ours, Before, Turning, AtPass, Booting, Inv
<1>3. CASE BeginRun
  BY <1>3 DEF BeginRun, Begun, Call, Ahead, Ours, Before, Turning, AtPass, Booting, NoTurn, NoRun,
       NoCkpt, NoneOf, Nobody, TypeOK, Turns, Runs, Ckpts, Iterations, Identified, Paced, Inv
<1>4. CASE PauseAtCap
  BY <1>4 DEF PauseAtCap, Record, Mine, Call, Ahead, Ours, Before, Turning, AtPass, Booting,
       TypeOK, Turns, Runs, Ckpts, Iterations, Inv
<1>5. CASE RaiseCap
  BY <1>5 DEF RaiseCap, durable, counts, Ahead, Ours, Before, Turning, AtPass, Booting, Inv
<1>6. CASE Answer
  BY <1>6, AnswerAhead
<1>7. CASE RecordPass
  BY <1>7 DEF RecordPass, Record, Mine, Call, KeptProgress, Ahead, Ours, Before, Turning, AtPass,
       Booting, TypeOK, Turns, Runs, Ckpts, Iterations, Inv
<1>8. CASE GateUnasked
  BY <1>8 DEF GateUnasked, RunBatch, Ordinary, CutOff, durable, counts, Ahead, Ours, Before,
       Turning, AtPass, Booting, Inv
<1>9. CASE GateAsks
  BY <1>9 DEF GateAsks, counts, Ahead, Ours, Before, Turning, AtPass, Booting, Inv
<1>10. CASE UserAnswers
  BY <1>10 DEF UserAnswers, counts, Ahead, Ours, Inv
<1>11. CASE GateDecided
  BY <1>11 DEF GateDecided, RunBatch, Ordinary, Allowed, Interrupted, CutOff, durable, counts,
       Ahead, Ours, Before, Turning, AtPass, Booting, Inv
<1>12. ASSUME NEW c \in Calls, CallStarts(c)  PROVE Ahead'
  BY <1>12 DEF CallStarts, RecordCall, Record, Mine, Call, Ahead, Ours, TypeOK, Turns, Runs,
       Ckpts, Iterations, Inv
<1>13. ASSUME NEW c \in Calls, CallRuns(c)  PROVE Ahead'
  BY <1>13 DEF CallRuns, durable, counts, Ahead, Ours, Inv
<1>14. ASSUME NEW c \in Calls, CallFinishes(c)  PROVE Ahead'
  BY <1>14 DEF CallFinishes, RecordCall, Record, Mine, Call, Ahead, Ours, TypeOK, Turns, Runs,
       Ckpts, Iterations, Inv
<1>15. CASE EndBatch
  BY <1>15 DEF EndBatch, durable, counts, Ahead, Ours, Before, Turning, AtPass, Booting, TypeOK,
       Turns, Runs, Ckpts, Iterations, Inv
<1>16. CASE Stop
  BY <1>16 DEF Stop, LapseCards, counts, Ahead, Ours, Inv
<1>17. CASE LeaveLoop
  BY <1>17 DEF LeaveLoop, durable, counts, Ahead, Ours, Before, Turning, AtPass, Booting, Inv
<1>18. CASE Finalize
  BY <1>18 DEF Finalize, Append, Call, Ahead, Ours, Before, Turning, AtPass, Booting, Inv
<1>19. CASE Finish
  BY <1>19 DEF Finish, Record, Mine, Call, Ahead, Ours, Before, Turning, AtPass, Booting, NoTurn,
       NoRun, NoCkpt, NoneOf, Nobody, Inv
<1>20. CASE ForeignAppend
  BY <1>20 DEF ForeignAppend, Append, Ahead, Ours, Inv
<1>21. CASE Crash
  BY <1>21 DEF Crash, durable, Ahead, Ours, Before, Turning, AtPass, Booting, NoTurn, NoRun,
       NoCkpt, NoneOf, Nobody, Inv
<1>22. CASE Examine
  BY <1>22 DEF Examine, Call, Resumable, PassInProgress, PausedHere, Ahead, Ours, Before, Turning,
       AtPass, Booting, Inv
<1>23. CASE Unmark
  BY <1>23 DEF Unmark, EmptyMark, counts, Ahead, Ours, Before, Turning, AtPass, Booting, Inv
<1>24. CASE Recover
  BY <1>24 DEF Recover, Append, Call, Ahead, Ours, Before, Turning, AtPass, Booting, Inv
<1>25. CASE Lapse
  BY <1>25 DEF Lapse, LapseCards, counts, Ahead, Ours, Before, Turning, AtPass, Booting, Inv
<1>26. CASE Claim
  BY <1>26, ClaimAhead
<1>27. CASE Merge
  BY <1>27 DEF Merge, Append, Call, Ahead, Ours, Before, Turning, AtPass, Booting, NoTurn, NoRun,
       NoCkpt, NoneOf, Nobody, Inv
<1>28. CASE Drive
  BY <1>28 DEF Drive, Call, Ahead, Ours, Before, Turning, AtPass, Booting, NoTurn, NoRun, NoCkpt,
       NoneOf, Nobody, TypeOK, Turns, Runs, Ckpts, Iterations, Identified, Paced, Inv
<1> QED BY <1>1, <1>2, <1>3, <1>4, <1>5, <1>6, <1>7, <1>8, <1>9, <1>10, <1>11, <1>12, <1>13,
     <1>14, <1>15, <1>16, <1>17, <1>18, <1>19, <1>20, <1>21, <1>22, <1>23, <1>24, <1>25, <1>26,
     <1>27, <1>28 DEF Next, Loop, Boot

LEMMA ClaimFaithful ==
  ASSUME Inv, TypeOK', TurnRunsAssumption, Claim
  PROVE  Faithful'
<1>1. pc = "claim" BY DEF Claim
<1> QED BY <1>1, ClaimStep DEF Inv, Identified, Faithful, Booting, NoTurn

LEMMA AnswerFaithful ==
  ASSUME Inv, TypeOK', TurnRunsAssumption, Answer
  PROVE  Faithful'
<1>1. CASE me.replay BY <1>1, AnswerStep DEF Inv, Faithful
<1>2. CASE ~me.replay
  <2>1. me'.pass = passes + 1 /\ run' = run /\ pc' = "record" BY <1>2, AnswerStep DEF Inv
  <2>2. run'.pass # me'.pass BY <2>1 DEF Inv, Paced, TypeOK, Runs
  <2> QED BY <2>1, <2>2 DEF Faithful
<1> QED BY <1>1, <1>2

LEMMA GateDecidedFaithful ==
  ASSUME Inv, TypeOK', TurnRunsAssumption, GateDecided
  PROVE  Faithful'
<1>1. PICK E \in SUBSET (Ordinary \cup Allowed) :
         me' = [me EXCEPT !.at = [c \in Calls |-> IF me.stamp[c] = "out" THEN "out"
                                                  ELSE IF c \in E THEN "todo" ELSE "done"]]
  BY DEF GateDecided, RunBatch
<1>2. /\ pc = "waiting" /\ pc' = "batch" /\ UNCHANGED run
  BY DEF GateDecided, RunBatch, durable
<1>3. me'.pass = me.pass /\ me'.replay = me.replay
      /\ \A c \in Calls : me'.at[c] = IF me.stamp[c] = "out" THEN "out"
                                      ELSE IF c \in E THEN "todo" ELSE "done"
  BY <1>1 DEF TypeOK, Turns
<1>4. \A c \in E : me.stamp[c] # "finished"
  BY DEF Ordinary, Allowed, Interrupted, CutOff
<1> QED BY <1>2, <1>3, <1>4 DEF Inv, Faithful, Ahead, Before

LEMMA FaithfulStep ==
  ASSUME Inv, TypeOK', TurnRunsAssumption, Next
  PROVE  Faithful'
<1>1. CASE StartTurn
  BY <1>1 DEF StartTurn, LapseCards, Faithful, Before, Turning, AtPass, Booting, NoTurn, NoRun,
       NoCkpt, NoneOf, Nobody, Inv
<1>2. CASE SaveCheckpoint
  BY <1>2 DEF SaveCheckpoint, Call, Faithful, Inv
<1>3. CASE BeginRun
  BY <1>3 DEF BeginRun, Begun, Call, Faithful, Before, Turning, AtPass, Booting, NoTurn, NoRun,
       NoCkpt, NoneOf, Nobody, TypeOK, Turns, Runs, Ckpts, Iterations, Ahead, Paced, Inv
<1>4. CASE PauseAtCap
  BY <1>4 DEF PauseAtCap, Record, Mine, Call, Faithful, Inv
<1>5. CASE RaiseCap
  BY <1>5 DEF RaiseCap, durable, counts, Faithful, Inv
<1>6. CASE Answer
  BY <1>6, AnswerFaithful
<1>7. CASE RecordPass
  BY <1>7 DEF RecordPass, Record, Mine, Call, KeptProgress, Faithful, Inv
<1>8. CASE GateUnasked
  BY <1>8 DEF GateUnasked, RunBatch, Ordinary, CutOff, durable, counts, Faithful, Inv
<1>9. CASE GateAsks
  BY <1>9 DEF GateAsks, counts, Faithful, Inv
<1>10. CASE UserAnswers
  BY <1>10 DEF UserAnswers, counts, Faithful, Inv
<1>11. CASE GateDecided
  BY <1>11, GateDecidedFaithful
<1>12. ASSUME NEW c \in Calls, CallStarts(c)  PROVE Faithful'
  BY <1>12 DEF CallStarts, RecordCall, Record, Mine, Call, TypeOK, TurnIds, Turns, Runs, Ckpts,
       Iterations, Turning, AtPass, Before, NoTurn, NoRun, NoCkpt, NoneOf, Nobody, Booting, Inv,
       Ours, Identified, Paced, Ahead, Faithful, Interrupted, CutOff, Stamps
<1>13. ASSUME NEW c \in Calls, CallRuns(c)  PROVE Faithful'
  BY <1>13 DEF CallRuns, durable, counts, Faithful, Inv
<1>14. ASSUME NEW c \in Calls, CallFinishes(c)  PROVE Faithful'
  BY <1>14 DEF CallFinishes, RecordCall, Record, Mine, Call, TypeOK, TurnIds, Turns, Runs, Ckpts,
       Iterations, Turning, AtPass, Before, NoTurn, NoRun, NoCkpt, NoneOf, Nobody, Booting, Inv,
       Ours, Identified, Paced, Ahead, Faithful, Interrupted, CutOff, Stamps
<1>15. CASE EndBatch
  BY <1>15 DEF EndBatch, durable, counts, Faithful, Before, Turning, AtPass, Booting, Ahead,
       Paced, Inv
<1>16. CASE Stop
  BY <1>16 DEF Stop, LapseCards, counts, Faithful, Inv
<1>17. CASE LeaveLoop
  BY <1>17 DEF LeaveLoop, durable, counts, Faithful, Inv
<1>18. CASE Finalize
  BY <1>18 DEF Finalize, Append, Call, Faithful, Inv
<1>19. CASE Finish
  BY <1>19 DEF Finish, Record, Mine, Call, Faithful, Before, Turning, AtPass, Booting, NoTurn,
       NoRun, NoCkpt, NoneOf, Nobody, Inv
<1>20. CASE ForeignAppend
  BY <1>20 DEF ForeignAppend, Append, Faithful, Inv
<1>21. CASE Crash
  BY <1>21 DEF Crash, durable, Faithful, Before, Turning, AtPass, Booting, NoTurn, NoRun, NoCkpt,
       NoneOf, Nobody, Inv
<1>22. CASE Examine
  BY <1>22 DEF Examine, Call, Resumable, PassInProgress, PausedHere, Faithful, Before, Turning,
       AtPass, Booting, Ahead, Paced, Inv
<1>23. CASE Unmark
  BY <1>23 DEF Unmark, EmptyMark, counts, Faithful, Inv
<1>24. CASE Recover
  BY <1>24 DEF Recover, Append, Call, Faithful, Inv
<1>25. CASE Lapse
  BY <1>25 DEF Lapse, LapseCards, counts, Faithful, Inv
<1>26. CASE Claim
  BY <1>26, ClaimFaithful
<1>27. CASE Merge
  BY <1>27 DEF Merge, Append, Call, Faithful, Before, Turning, AtPass, Booting, NoTurn, NoRun,
       NoCkpt, NoneOf, Nobody, Inv
<1>28. CASE Drive
  BY <1>28 DEF Drive, Call, Faithful, Before, Turning, AtPass, Booting, NoTurn, NoRun, NoCkpt,
       NoneOf, Nobody, TypeOK, Turns, Runs, Ckpts, Iterations, Inv
<1> QED BY <1>1, <1>2, <1>3, <1>4, <1>5, <1>6, <1>7, <1>8, <1>9, <1>10, <1>11, <1>12, <1>13,
     <1>14, <1>15, <1>16, <1>17, <1>18, <1>19, <1>20, <1>21, <1>22, <1>23, <1>24, <1>25, <1>26,
     <1>27, <1>28 DEF Next, Loop, Boot

LEMMA AnswerOnRecord ==
  ASSUME Inv, Inv', MaxFault = 0, OnRecord, TurnRunsAssumption, Answer
  PROVE  OnRecord'
BY AnswerStep DEF Inv, OnRecord, Turning

LEMMA OnRecordStep ==
  ASSUME Inv, Inv', MaxFault = 0, OnRecord, TurnRunsAssumption, Next
  PROVE  OnRecord'
<1>1. CASE StartTurn
  BY <1>1 DEF StartTurn, LapseCards, OnRecord, Before, Turning, AtPass, Booting, NoTurn, NoRun,
       NoCkpt, NoneOf, Nobody, Inv
<1>2. CASE SaveCheckpoint
  BY <1>2 DEF SaveCheckpoint, Call, OnRecord, Before, Turning, AtPass, Booting, TypeOK, Turns,
       Runs, Ckpts, Iterations, Inv
<1>3. CASE BeginRun
  BY <1>3 DEF BeginRun, Begun, Call, OnRecord, Before, Turning, AtPass, Booting, TypeOK, Turns,
       Runs, Ckpts, Iterations, Inv
<1>4. CASE PauseAtCap
  BY <1>4 DEF PauseAtCap, Record, Mine, Call, OnRecord, Before, Turning, AtPass, Booting, TypeOK,
       Turns, Runs, Ckpts, Iterations, Inv
<1>5. CASE RaiseCap
  BY <1>5 DEF RaiseCap, durable, counts, OnRecord, Before, Turning, AtPass, Booting, Inv
<1>6. CASE Answer
  BY <1>6, AnswerOnRecord
<1>7. CASE RecordPass
  BY <1>7 DEF RecordPass, Record, Mine, Call, KeptProgress, OnRecord, Before, Turning, AtPass,
       Booting, NoTurn, NoRun, NoCkpt, NoneOf, Nobody, TypeOK, Turns, Runs, Ckpts, Iterations,
       Identified, Inv
<1>8. CASE GateUnasked
  BY <1>8 DEF GateUnasked, RunBatch, Ordinary, CutOff, durable, counts, OnRecord, Before, Turning,
       AtPass, Booting, Inv
<1>9. CASE GateAsks
  BY <1>9 DEF GateAsks, counts, OnRecord, Before, Turning, AtPass, Booting, Inv
<1>10. CASE UserAnswers
  BY <1>10 DEF UserAnswers, counts, OnRecord, Inv
<1>11. CASE GateDecided
  BY <1>11 DEF GateDecided, RunBatch, Ordinary, Allowed, Interrupted, CutOff, durable, counts,
       OnRecord, Before, Turning, AtPass, Booting, Inv
<1>12. ASSUME NEW c \in Calls, CallStarts(c)  PROVE OnRecord'
  BY <1>12 DEF CallStarts, RecordCall, Record, Mine, Call, OnRecord, TypeOK, Turns, Runs, Ckpts,
       Iterations, Inv
<1>13. ASSUME NEW c \in Calls, CallRuns(c)  PROVE OnRecord'
  BY <1>13 DEF CallRuns, durable, counts, OnRecord, Inv
<1>14. ASSUME NEW c \in Calls, CallFinishes(c)  PROVE OnRecord'
  BY <1>14 DEF CallFinishes, RecordCall, Record, Mine, Call, OnRecord, TypeOK, Turns, Runs, Ckpts,
       Iterations, Inv
<1>15. CASE EndBatch
  BY <1>15 DEF EndBatch, durable, counts, OnRecord, Before, Turning, AtPass, Booting, Inv
<1>16. CASE Stop
  BY <1>16 DEF Stop, LapseCards, counts, OnRecord, Inv
<1>17. CASE LeaveLoop
  BY <1>17 DEF LeaveLoop, durable, counts, OnRecord, Before, Turning, AtPass, Booting, Inv
<1>18. CASE Finalize
  BY <1>18 DEF Finalize, Append, Call, OnRecord, Before, Turning, AtPass, Booting, Inv
<1>19. CASE Finish
  BY <1>19 DEF Finish, Record, Mine, Call, OnRecord, Before, Turning, AtPass, Booting, NoTurn,
       NoRun, NoCkpt, NoneOf, Nobody, TypeOK, Turns, Runs, Ckpts, Iterations, Inv
<1>20. CASE ForeignAppend
  BY <1>20 DEF ForeignAppend, Append, OnRecord, Inv
<1>21. CASE Crash
  BY <1>21 DEF Crash, durable, OnRecord, Before, Turning, AtPass, Booting, Inv
<1>22. CASE Examine
  BY <1>22 DEF Examine, Call, Resumable, PassInProgress, PausedHere, OnRecord, Before, Turning,
       AtPass, Booting, NoTurn, NoRun, NoCkpt, NoneOf, Nobody, TypeOK, Turns, Runs, Ckpts,
       Iterations, Inv
<1>23. CASE Unmark
  BY <1>23 DEF Unmark, EmptyMark, counts, OnRecord, Before, Turning, AtPass, Booting, Inv
<1>24. CASE Recover
  BY <1>24 DEF Recover, Append, Call, OnRecord, Before, Turning, AtPass, Booting, Inv
<1>25. CASE Lapse
  BY <1>25 DEF Lapse, LapseCards, counts, OnRecord, Before, Turning, AtPass, Booting, Inv
<1>26. CASE Claim
  BY <1>26 DEF Claim, Call, Resumable, PassInProgress, PausedHere, ResumeIter, OnRecord, Before,
       Turning, AtPass, Booting, TypeOK, Turns, Runs, Ckpts, Iterations, Inv
<1>27. CASE Merge
  BY <1>27 DEF Merge, Append, Call, OnRecord, Before, Turning, AtPass, Booting, TypeOK, Turns,
       Runs, Ckpts, Iterations, Inv
<1>28. CASE Drive
  BY <1>28 DEF Drive, Call, OnRecord, Before, Turning, AtPass, Booting, NoTurn, NoRun, NoCkpt,
       NoneOf, Nobody, TypeOK, Turns, Runs, Ckpts, Iterations, Identified, Inv
<1> QED BY <1>1, <1>2, <1>3, <1>4, <1>5, <1>6, <1>7, <1>8, <1>9, <1>10, <1>11, <1>12, <1>13,
     <1>14, <1>15, <1>16, <1>17, <1>18, <1>19, <1>20, <1>21, <1>22, <1>23, <1>24, <1>25, <1>26,
     <1>27, <1>28 DEF Next, Loop, Boot

LEMMA AnswerRanOnce ==
  ASSUME Inv, Inv', MaxFault = 0, OnRecord, RanOnce, TurnRunsAssumption, Answer
  PROVE  RanOnce'
<1>1. /\ pc = "model" /\ pc' = "record" /\ run' = run /\ ran' = ran /\ card' = card
      /\ \/ me.replay /\ passes' = passes /\ me'.pass = me.pass /\ me'.stamp = me.stamp
         \/ passes' = passes + 1 /\ me'.pass = passes + 1 /\ passes + 1 \in Passes
  BY AnswerStep DEF Inv
<1>2. \A r \in Recs : r[1] > passes' => ran'[r] = 0
  BY <1>1 DEF RanOnce, Recs, Passes, Inv, TypeOK
<1>3. \A c \in Calls : me'.stamp[c] = "unstarted" => ran'[<<me'.pass, c>>] = 0
  <2>1. CASE me.replay /\ me'.pass = me.pass /\ me'.stamp = me.stamp
    <3>1. run.pass = me.pass /\ run.id # Nobody
      BY <1>1, <2>1 DEF Inv, Identified, OnRecord, Ahead, Ours, Turning
    <3>2. run.calls = me.stamp
      BY <2>1, <3>1 DEF Inv, Faithful
    <3> QED BY <1>1, <2>1, <3>1, <3>2 DEF RanOnce
  <2>2. CASE me'.pass = passes + 1 /\ passes + 1 \in Passes
    <3>1. \A c \in Calls : <<passes + 1, c>> \in Recs /\ passes + 1 > passes
      BY <2>2 DEF Recs, Inv, TypeOK
    <3>2. \A c \in Calls : ran[<<passes + 1, c>>] = 0
      BY <3>1 DEF RanOnce
    <3> QED BY <1>1, <2>2, <3>2
  <2> QED BY <1>1, <2>1, <2>2
<1> QED BY <1>1, <1>2, <1>3 DEF RanOnce, Again

LEMMA UserAnswersRanOnce ==
  ASSUME Inv, Inv', MaxFault = 0, OnRecord, RanOnce, TurnRunsAssumption, UserAnswers
  PROVE  RanOnce'
<1>1. PICK s \in Recs, verdict \in {"allow", "deny"} :
         card[s] = "pending" /\ card' = [card EXCEPT ![s] = verdict]
  BY DEF UserAnswers
<1>2. UNCHANGED <<run, pc, me, ran, passes>> BY DEF UserAnswers, counts
<1>3. \A r \in Recs : card[r] = "allow" => card'[r] = "allow"
  BY <1>1 DEF Inv, TypeOK
<1>4. \A c \in Calls : pc = "batch" => <<me.pass, c>> \in Recs
  BY DEF Inv, Paced, AtPass, TypeOK, Turns, Recs, Passes
<1>5. \A r \in Recs : Again(r) => Again(r)' BY <1>3 DEF Again
<1> QED BY <1>2, <1>4, <1>5 DEF RanOnce

LEMMA CallRunsRanOnce ==
  ASSUME Inv, Inv', MaxFault = 0, OnRecord, RanOnce, TurnRunsAssumption, NEW c \in Calls, CallRuns(c)
  PROVE  RanOnce'
<1> DEFINE s == <<me.pass, c>>
<1>1. /\ pc = "batch" /\ pc' = pc /\ me.at[c] = "begun" /\ UNCHANGED <<card, run, passes>>
      /\ ran' = [ran EXCEPT ![s] = ran[s] + 1]
      /\ me' = [me EXCEPT !.at[c] = "ran"]
  BY DEF CallRuns, durable, counts
<1>2. s \in Recs /\ me.pass <= passes
  BY <1>1 DEF Inv, Paced, AtPass, TypeOK, Turns, Recs, Passes
<1>3. \A r \in Recs : ran'[r] = IF r = s THEN ran[s] + 1 ELSE ran[r]
  BY <1>1, <1>2 DEF Inv, TypeOK
<1>4. /\ me'.pass = me.pass /\ me'.stamp = me.stamp
      /\ \A d \in Calls : me'.at[d] = IF d = c THEN "ran" ELSE me.at[d]
  BY <1>1 DEF Inv, TypeOK, Turns
<1>5. /\ run.pass = me.pass /\ run.calls[c] = "running"
      /\ ran[s] = 0 \/ Again(s)
  BY <1>1 DEF OnRecord, RanOnce
<1>6. \A r \in Recs : r[1] > passes' => ran'[r] = 0
  BY <1>1, <1>2, <1>3 DEF RanOnce, Recs, Inv, TypeOK, Turns
<1>7. \A d \in Calls : run'.calls[d] = "unstarted" => run'.pass > 0 /\ ran'[<<run'.pass, d>>] = 0
  <2> SUFFICES ASSUME NEW d \in Calls, run.calls[d] = "unstarted"
               PROVE  run.pass > 0 /\ ran'[<<run.pass, d>>] = 0
    BY <1>1
  <2>1. <<run.pass, d>> # s /\ <<run.pass, d>> \in Recs
    BY <1>2, <1>5 DEF Recs
  <2> QED BY <1>3, <2>1 DEF RanOnce
<1>8. \A d \in Calls :
        /\ me'.at[d] \in {"todo", "begun"} => (ran[<<me.pass, d>>] = 0 \/ Again(<<me.pass, d>>))'
        /\ me'.at[d] \in {"begun", "ran"} => run'.calls[d] = "running"
  <2> SUFFICES ASSUME NEW d \in Calls
               PROVE  /\ me'.at[d] \in {"todo", "begun"} =>
                            (ran[<<me.pass, d>>] = 0 \/ Again(<<me.pass, d>>))'
                      /\ me'.at[d] \in {"begun", "ran"} => run'.calls[d] = "running"
    OBVIOUS
  <2>1. CASE d = c BY <1>1, <1>4, <1>5, <2>1
  <2>2. CASE d # c
    <3>1. <<me.pass, d>> # s /\ <<me.pass, d>> \in Recs BY <1>2, <2>2 DEF Recs
    <3>2. ran'[<<me.pass, d>>] = ran[<<me.pass, d>>] /\ me'.at[d] = me.at[d]
      BY <1>3, <1>4, <2>2, <3>1
    <3> QED BY <1>1, <1>4, <3>2 DEF RanOnce, Again
  <2> QED BY <2>1, <2>2
<1>9. \A r \in Recs : ran'[r] > 1 => Again(r)'
  <2>1. ran[s] \in Nat BY <1>2 DEF Inv, TypeOK
  <2> QED BY <1>1, <1>3, <1>5, <2>1 DEF RanOnce, Again
<1> QED BY <1>1, <1>6, <1>7, <1>8, <1>9 DEF RanOnce

LEMMA RanOnceStep ==
  ASSUME Inv, Inv', MaxFault = 0, OnRecord, RanOnce, TurnRunsAssumption, Next
  PROVE  RanOnce'
<1>1. CASE StartTurn
  BY <1>1 DEF StartTurn, LapseCards, RanOnce, Again, Inv
<1>2. CASE SaveCheckpoint
  BY <1>2 DEF SaveCheckpoint, Call, RanOnce, Again, Inv
<1>3. CASE BeginRun
  BY <1>3 DEF BeginRun, Begun, Call, RanOnce, Again, Before, Turning, AtPass, Booting, NoTurn,
       NoRun, NoCkpt, NoneOf, Nobody, TypeOK, Turns, Runs, Ckpts, Iterations, Inv
<1>4. CASE PauseAtCap
  BY <1>4 DEF PauseAtCap, Record, Mine, Call, RanOnce, Again, TypeOK, Turns, Runs, Ckpts,
       Iterations, Inv
<1>5. CASE RaiseCap
  BY <1>5 DEF RaiseCap, durable, counts, RanOnce, Again, Inv
<1>6. CASE Answer
  BY <1>6, AnswerRanOnce
<1>7. CASE RecordPass
  BY <1>7 DEF RecordPass, Record, Mine, Call, KeptProgress, TypeOK, TurnIds, Turns, Runs, Ckpts,
       Iterations, Turning, AtPass, Before, NoTurn, NoRun, NoCkpt, NoneOf, Nobody, Booting, Inv,
       Ours, Identified, Paced, Ahead, Faithful, OnRecord, RanOnce, Again, Recs, Passes, Stamps,
       Interrupted, CutOff
<1>8. CASE GateUnasked
  BY <1>8 DEF GateUnasked, RunBatch, Ordinary, durable, counts, TypeOK, TurnIds, Turns, Runs,
       Ckpts, Iterations, Turning, AtPass, Before, NoTurn, NoRun, NoCkpt, NoneOf, Nobody, Booting,
       Inv, Ours, Identified, Paced, Ahead, Faithful, OnRecord, RanOnce, Again, Recs, Passes,
       Stamps, Interrupted, CutOff
<1>9. CASE GateAsks
  BY <1>9 DEF GateAsks, counts, RanOnce, Again, Inv
<1>10. CASE UserAnswers
  BY <1>10, UserAnswersRanOnce
<1>11. CASE GateDecided
  BY <1>11 DEF GateDecided, RunBatch, Ordinary, Allowed, durable, counts, TypeOK, TurnIds, Turns,
       Runs, Ckpts, Iterations, Turning, AtPass, Before, NoTurn, NoRun, NoCkpt, NoneOf, Nobody,
       Booting, Inv, Ours, Identified, Paced, Ahead, Faithful, OnRecord, RanOnce, Again, Recs,
       Passes, Stamps, Interrupted, CutOff
<1>12. ASSUME NEW c \in Calls, CallStarts(c)  PROVE RanOnce'
  BY <1>12 DEF CallStarts, RecordCall, Record, Mine, Call, TypeOK, TurnIds, Turns, Runs, Ckpts,
       Iterations, Turning, AtPass, Before, NoTurn, NoRun, NoCkpt, NoneOf, Nobody, Booting, Inv,
       Ours, Identified, Paced, Ahead, Faithful, OnRecord, RanOnce, Again, Recs, Passes, Stamps,
       Interrupted, CutOff
<1>13. ASSUME NEW c \in Calls, CallRuns(c)  PROVE RanOnce'
  BY <1>13, CallRunsRanOnce
<1>14. ASSUME NEW c \in Calls, CallFinishes(c)  PROVE RanOnce'
  BY <1>14 DEF CallFinishes, RecordCall, Record, Mine, Call, TypeOK, TurnIds, Turns, Runs, Ckpts,
       Iterations, Turning, AtPass, Before, NoTurn, NoRun, NoCkpt, NoneOf, Nobody, Booting, Inv,
       Ours, Identified, Paced, Ahead, Faithful, OnRecord, RanOnce, Again, Recs, Passes, Stamps,
       Interrupted, CutOff
<1>15. CASE EndBatch
  BY <1>15 DEF EndBatch, durable, counts, RanOnce, Again, Inv
<1>16. CASE Stop
  BY <1>16 DEF Stop, LapseCards, counts, TypeOK, TurnIds, Turns, Runs, Ckpts, Iterations, Turning,
       AtPass, Before, NoTurn, NoRun, NoCkpt, NoneOf, Nobody, Booting, Inv, Ours, Identified,
       Paced, Ahead, Faithful, OnRecord, RanOnce, Again, Recs, Passes, Stamps, Interrupted, CutOff
<1>17. CASE LeaveLoop
  BY <1>17 DEF LeaveLoop, durable, counts, RanOnce, Again, Inv
<1>18. CASE Finalize
  BY <1>18 DEF Finalize, Append, Call, RanOnce, Again, Inv
<1>19. CASE Finish
  BY <1>19 DEF Finish, Record, Mine, Call, RanOnce, Again, Before, Turning, AtPass, Booting,
       NoTurn, NoRun, NoCkpt, NoneOf, Nobody, Inv
<1>20. CASE ForeignAppend
  BY <1>20 DEF ForeignAppend, Append, RanOnce, Again, Inv
<1>21. CASE Crash
  BY <1>21 DEF Crash, durable, RanOnce, Again, Inv
<1>22. CASE Examine
  BY <1>22 DEF Examine, Call, Resumable, PassInProgress, PausedHere, RanOnce, Again, Before,
       Turning, AtPass, Booting, NoTurn, NoRun, NoCkpt, NoneOf, Nobody, Inv
<1>23. CASE Unmark
  BY <1>23 DEF Unmark, EmptyMark, counts, RanOnce, Again, Inv
<1>24. CASE Recover
  BY <1>24 DEF Recover, Append, Call, RanOnce, Again, Inv
<1>25. CASE Lapse
  BY <1>25 DEF Lapse, LapseCards, counts, RanOnce, Again, Inv
<1>26. CASE Claim
  BY <1>26 DEF Claim, Call, Resumable, PassInProgress, PausedHere, ResumeIter, RanOnce, Again,
       TypeOK, Turns, Runs, Ckpts, Iterations, Inv
<1>27. CASE Merge
  BY <1>27 DEF Merge, Append, Call, RanOnce, Again, Inv
<1>28. CASE Drive
  BY <1>28 DEF Drive, Call, RanOnce, Again, Inv
<1> QED BY <1>1, <1>2, <1>3, <1>4, <1>5, <1>6, <1>7, <1>8, <1>9, <1>10, <1>11, <1>12, <1>13,
     <1>14, <1>15, <1>16, <1>17, <1>18, <1>19, <1>20, <1>21, <1>22, <1>23, <1>24, <1>25, <1>26,
     <1>27, <1>28 DEF Next, Loop, Boot

LEMMA AnswerPlaced ==
  ASSUME Inv, Inv', MaxFault = 0, OnRecord, OnRecord', Placed, TurnRunsAssumption, Answer
  PROVE  Placed'
<1>1. /\ pc = "model" /\ pc' = "record" /\ UNCHANGED <<transcript, ckpt, run, turns>>
      /\ me'.msgs = me.msgs /\ ~me'.replay
      /\ \/ me.replay /\ passes' = passes /\ me'.pass = me.pass
         \/ passes' = passes + 1 /\ me'.pass = passes + 1 /\ passes + 1 \in Passes
  BY AnswerStep DEF Inv
<1>2. passes \in Nat /\ passes' >= passes BY <1>1 DEF Inv, TypeOK
<1>3. Nowhere(Pass(me'.pass))
  <2>1. CASE me.replay /\ me'.pass = me.pass
    BY <1>1, <2>1 DEF Placed, Before
  <2>2. CASE me'.pass = passes + 1 /\ passes + 1 \in Passes
    BY <1>2, <2>2 DEF Placed
  <2> QED BY <1>1, <2>1, <2>2
<1>4. \A m : Nowhere(m)' <=> Nowhere(m) BY <1>1 DEF Nowhere
<1>5. \A p \in Passes : p > passes' => p > passes BY <1>2, <1>1 DEF Passes
<1> QED BY <1>1, <1>3, <1>4, <1>5 DEF Placed, Turning, Pass

LEMMA ClaimPlaced ==
  ASSUME Inv, Inv', MaxFault = 0, OnRecord, OnRecord', Placed, TurnRunsAssumption, Claim
  PROVE  Placed'
<1>1. pc = "claim" /\ UNCHANGED <<transcript, ckpt, passes, turns>> BY DEF Claim
<1>2. /\ run'.pass = run.pass /\ run'.iter = run.iter
      /\ \/ pc' = "idle" /\ me' = me
         \/ /\ pc' = "merge" /\ me'.msgs = {} /\ me'.replay = PassInProgress
            /\ PassInProgress => me'.pass = run.pass
  BY ClaimStep DEF Inv
<1>3. ckpt.on /\ me = NoTurn BY <1>1 DEF Inv, Identified, Resumable, Booting
<1>4. me'.msgs = {} /\ me.msgs = {} BY <1>2, <1>3 DEF NoTurn
<1>5. \A m : Nowhere(m)' <=> Nowhere(m) BY <1>1, <1>4 DEF Nowhere
<1>6. CASE pc' = "merge"
  <2>1. me'.replay => Nowhere(Pass(me'.pass))
    BY <1>2, <1>3, <1>4, <1>6 DEF PassInProgress, Placed, Nowhere
  <2> QED BY <1>1, <1>2, <1>4, <1>5, <1>6, <2>1 DEF Placed, Turning, AtPass
<1>7. CASE pc' = "idle"
  BY <1>7 DEF Claim, Call, Inv, TypeOK
<1> QED BY <1>2, <1>6, <1>7

LEMMA PlacedStep ==
  ASSUME Inv, Inv', MaxFault = 0, OnRecord, OnRecord', Placed, TurnRunsAssumption, Next
  PROVE  Placed'
<1>1. CASE StartTurn
  BY <1>1 DEF StartTurn, LapseCards, TypeOK, TurnIds, Turns, Runs, Ckpts, Iterations, Turning,
       AtPass, Before, NoTurn, NoRun, NoCkpt, NoneOf, Nobody, Booting, Inv, Ours, Identified,
       Paced, Ahead, OnRecord, Placed, Nowhere, Pass, Messages, Passes
<1>2. CASE SaveCheckpoint
  BY <1>2 DEF SaveCheckpoint, Call, TypeOK, TurnIds, Turns, Runs, Ckpts, Iterations, Turning,
       AtPass, Before, NoTurn, NoRun, NoCkpt, NoneOf, Nobody, Booting, Inv, Ours, Identified,
       Paced, Ahead, OnRecord, Placed, Nowhere, Pass, Messages, Passes
<1>3. CASE BeginRun
  BY <1>3 DEF BeginRun, Begun, Call, Placed, Nowhere, Before, Turning, AtPass, Booting, NoTurn,
       NoRun, NoCkpt, NoneOf, Nobody, TypeOK, Turns, Runs, Ckpts, Iterations, Inv
<1>4. CASE PauseAtCap
  BY <1>4 DEF PauseAtCap, Record, Mine, Call, Placed, Nowhere, Before, Turning, AtPass, Booting,
       TypeOK, Turns, Runs, Ckpts, Iterations, Inv
<1>5. CASE RaiseCap
  BY <1>5 DEF RaiseCap, durable, counts, Placed, Nowhere, Before, Turning, AtPass, Booting, Inv
<1>6. CASE Answer
  BY <1>6, AnswerPlaced
<1>7. CASE RecordPass
  BY <1>7 DEF RecordPass, Record, Mine, Call, KeptProgress, Placed, Nowhere, Before, Turning,
       AtPass, Booting, Inv
<1>8. CASE GateUnasked
  BY <1>8 DEF GateUnasked, RunBatch, Ordinary, CutOff, durable, counts, Placed, Nowhere, Before,
       Turning, AtPass, Booting, Inv
<1>9. CASE GateAsks
  BY <1>9 DEF GateAsks, counts, Placed, Nowhere, Before, Turning, AtPass, Booting, Inv
<1>10. CASE UserAnswers
  BY <1>10 DEF UserAnswers, counts, Placed, Nowhere, Inv
<1>11. CASE GateDecided
  BY <1>11 DEF GateDecided, RunBatch, Ordinary, Allowed, Interrupted, CutOff, durable, counts,
       Placed, Nowhere, Before, Turning, AtPass, Booting, Inv
<1>12. ASSUME NEW c \in Calls, CallStarts(c)  PROVE Placed'
  BY <1>12 DEF CallStarts, RecordCall, Record, Mine, Call, Placed, Nowhere, TypeOK, Turns, Runs,
       Ckpts, Iterations, Inv
<1>13. ASSUME NEW c \in Calls, CallRuns(c)  PROVE Placed'
  BY <1>13 DEF CallRuns, durable, counts, Placed, Nowhere, Inv
<1>14. ASSUME NEW c \in Calls, CallFinishes(c)  PROVE Placed'
  BY <1>14 DEF CallFinishes, RecordCall, Record, Mine, Call, Placed, Nowhere, TypeOK, Turns, Runs,
       Ckpts, Iterations, Inv
<1>15. CASE EndBatch
  BY <1>15 DEF EndBatch, durable, counts, TypeOK, TurnIds, Turns, Runs, Ckpts, Iterations,
       Turning, AtPass, Before, NoTurn, NoRun, NoCkpt, NoneOf, Nobody, Booting, Inv, Ours,
       Identified, Paced, Ahead, OnRecord, Placed, Nowhere, Pass, Messages, Passes
<1>16. CASE Stop
  BY <1>16 DEF Stop, LapseCards, counts, Placed, Nowhere, Inv
<1>17. CASE LeaveLoop
  BY <1>17 DEF LeaveLoop, durable, counts, Placed, Nowhere, Before, Turning, AtPass, Booting, Inv
<1>18. CASE Finalize
  BY <1>18 DEF Finalize, Append, Call, TypeOK, TurnIds, Turns, Runs, Ckpts, Iterations, Turning,
       AtPass, Before, NoTurn, NoRun, NoCkpt, NoneOf, Nobody, Booting, Inv, Ours, Identified,
       Paced, Ahead, OnRecord, Placed, Nowhere, Pass, Messages, Passes
<1>19. CASE Finish
  BY <1>19 DEF Finish, Record, Mine, Call, Placed, Nowhere, Before, Turning, AtPass, Booting,
       NoTurn, NoRun, NoCkpt, NoneOf, Nobody, Inv
<1>20. CASE ForeignAppend
  BY <1>20 DEF ForeignAppend, Append, Placed, Nowhere, Before, Turning, AtPass, Booting, NoTurn,
       NoRun, NoCkpt, NoneOf, Nobody, TypeOK, Turns, Runs, Ckpts, Iterations, Inv
<1>21. CASE Crash
  BY <1>21 DEF Crash, durable, Placed, Nowhere, Before, Turning, AtPass, Booting, NoTurn, NoRun,
       NoCkpt, NoneOf, Nobody, Inv
<1>22. CASE Examine
  BY <1>22 DEF Examine, Call, Resumable, PassInProgress, PausedHere, Placed, Nowhere, Before,
       Turning, AtPass, Booting, NoTurn, NoRun, NoCkpt, NoneOf, Nobody, Inv
<1>23. CASE Unmark
  BY <1>23 DEF Unmark, EmptyMark, counts, Placed, Nowhere, Before, Turning, AtPass, Booting,
       NoTurn, NoRun, NoCkpt, NoneOf, Nobody, Inv
<1>24. CASE Recover
  BY <1>24 DEF Recover, Append, Call, TypeOK, TurnIds, Turns, Runs, Ckpts, Iterations, Turning,
       AtPass, Before, NoTurn, NoRun, NoCkpt, NoneOf, Nobody, Booting, Inv, Ours, Identified,
       Paced, Ahead, OnRecord, Placed, Nowhere, Pass, Messages, Passes
<1>25. CASE Lapse
  BY <1>25 DEF Lapse, LapseCards, counts, Placed, Nowhere, Before, Turning, AtPass, Booting, Inv
<1>26. CASE Claim
  BY <1>26, ClaimPlaced
<1>27. CASE Merge
  BY <1>27 DEF Merge, Append, Call, TypeOK, TurnIds, Turns, Runs, Ckpts, Iterations, Turning,
       AtPass, Before, NoTurn, NoRun, NoCkpt, NoneOf, Nobody, Booting, Inv, Ours, Identified,
       Paced, Ahead, OnRecord, Placed, Nowhere, Pass, Messages, Passes
<1>28. CASE Drive
  BY <1>28 DEF Drive, Call, TypeOK, TurnIds, Turns, Runs, Ckpts, Iterations, Turning, AtPass,
       Before, NoTurn, NoRun, NoCkpt, NoneOf, Nobody, Booting, Inv, Ours, Identified, Paced,
       Ahead, OnRecord, Placed, Nowhere, Pass, Messages, Passes
<1> QED BY <1>1, <1>2, <1>3, <1>4, <1>5, <1>6, <1>7, <1>8, <1>9, <1>10, <1>11, <1>12, <1>13,
     <1>14, <1>15, <1>16, <1>17, <1>18, <1>19, <1>20, <1>21, <1>22, <1>23, <1>24, <1>25, <1>26,
     <1>27, <1>28 DEF Next, Loop, Boot

LEMMA AnswerSafe ==
  ASSUME Inv, Inv', MaxFault = 0, MaxForeign = 0, OnRecord, OnRecord', Placed, Placed', Safe, TurnRunsAssumption, Answer
  PROVE  Safe'
<1>1. /\ pc = "model" /\ pc' = "record" /\ me'.iter = me.iter
      /\ UNCHANGED <<transcript, ckpt, run, done, abandoned>>
  BY AnswerStep DEF Inv
<1>2. (Owed' <=> Owed) /\ \A p : Stored(p)' <=> Stored(p)
  BY <1>1 DEF Owed, Stored
<1> QED BY <1>1, <1>2 DEF Safe, Before, AtPass

LEMMA ClaimSafe ==
  ASSUME Inv, Inv', MaxFault = 0, MaxForeign = 0, OnRecord, OnRecord', Placed, Placed', Safe, TurnRunsAssumption, Claim
  PROVE  Safe'
<1>1. pc = "claim" /\ UNCHANGED <<transcript, ckpt, done, abandoned>> BY DEF Claim
<1>2. pc' # "idle" BY DEF Claim, Call, Inv, TypeOK
<1>3. /\ run'.pass = run.pass /\ run'.iter = run.iter /\ pc' = "merge"
      /\ me'.iter = ResumeIter
  BY <1>2, ClaimStep DEF Inv
<1>4. (Owed' <=> Owed) /\ \A p : Stored(p)' <=> Stored(p)
  BY <1>1, <1>3 DEF Owed, Stored
<1>5. Owed /\ run.iter < me'.iter => Stored(run.pass)
  <2> SUFFICES ASSUME Owed, run.iter < me'.iter PROVE Stored(run.pass)
    OBVIOUS
  <2>0. run.pass \in 1..MaxPass BY DEF Owed, Inv, TypeOK, Passes
  <2>1. run.pass > 0 BY <2>0
  <2>2. run.iter \in Nat /\ ckpt.iter \in Nat BY DEF Inv, TypeOK, Runs, Ckpts, Iterations
  <2>3. ~PassInProgress BY <1>3, <2>2 DEF ResumeIter
  <2>4. run.iter < ckpt.iter BY <2>1, <2>2, <2>3 DEF PassInProgress
  <2> QED BY <2>4 DEF Safe
<1> QED BY <1>1, <1>3, <1>4, <1>5 DEF Safe, AtPass

LEMMA EndBatchSafe ==
  ASSUME Inv, Inv', MaxFault = 0, MaxForeign = 0, OnRecord, OnRecord', Placed, Placed', Safe, TurnRunsAssumption, EndBatch
  PROVE  Safe'
<1>1. /\ pc = "batch" /\ pc' \in {"top", "finalize"} /\ done' = done \cup {me.pass}
      /\ UNCHANGED <<transcript, ckpt, run, abandoned>>
  BY DEF EndBatch, durable
<1>2. Pass(me.pass) \in me'.msgs
  BY DEF EndBatch, Pass, Inv, TypeOK, Turns
<1>3. run.pass = me.pass /\ run.iter = me.iter BY <1>1 DEF OnRecord
<1>4. ckpt.iter <= run.iter BY <1>1, <1>3 DEF Safe, AtPass
<1>5. ~(run.iter < ckpt.iter) BY <1>4 DEF Inv, TypeOK, Runs, Ckpts, Iterations
<1>6. \A p : Stored(p)' <=> Stored(p) BY <1>1 DEF Stored
<1>7. \A p \in done' \ abandoned' : Stored(p)' \/ run'.pass = p
  BY <1>1, <1>3, <1>6 DEF Safe
<1> QED BY <1>1, <1>2, <1>3, <1>5, <1>7 DEF Safe, AtPass, Before, Stored

LEMMA RecordPassSafe ==
  ASSUME Inv, Inv', MaxFault = 0, MaxForeign = 0, OnRecord, OnRecord', Placed, Placed', Safe, TurnRunsAssumption, RecordPass
  PROVE  Safe'
<1>1. /\ pc = "record" /\ pc' = "gate" /\ me' = me
      /\ UNCHANGED <<transcript, ckpt, done, abandoned>>
  BY DEF RecordPass
<1>2. run'.pass = me.pass /\ run'.iter = me.iter BY <1>1 DEF OnRecord
<1>3. Ours BY <1>1 DEF Ours, OnRecord, Turning, Inv, Identified
<1>4. run.iter <= me.iter /\ (run.iter = me.iter => run.pass = me.pass)
  BY <1>1, <1>3 DEF Inv, Ahead, AtPass
<1>5. run.iter \in Nat /\ me.iter \in Nat /\ ckpt.iter \in Nat
  BY DEF Inv, TypeOK, Runs, Turns, Ckpts, Iterations
<1>6. Owed /\ run.pass # me.pass => Stored(run.pass)
  BY <1>1, <1>4, <1>5 DEF Safe
<1>7. \A p : Stored(p)' <=> Stored(p) BY <1>1 DEF Stored
<1>8. \A p \in done' \ abandoned' : Stored(p)' \/ run'.pass = p
  BY <1>1, <1>2, <1>6, <1>7 DEF Safe, Owed
<1>9. ckpt'.iter <= me'.iter /\ ~(run'.iter < ckpt'.iter)
  BY <1>1, <1>2, <1>5 DEF Safe, AtPass
<1> QED BY <1>1, <1>8, <1>9 DEF Safe, Before

LEMMA ExamineSafe ==
  ASSUME Inv, Inv', MaxFault = 0, MaxForeign = 0, OnRecord, OnRecord', Placed, Placed', Safe, TurnRunsAssumption, Examine
  PROVE  Safe'
<1>1. /\ pc' \in {"recover", "claim", "unmark"} /\ UNCHANGED <<transcript, ckpt, me, done>>
      /\ \/ run' = run /\ abandoned' = abandoned
         \/ run' \in {run, NoRun} /\ abandoned' = abandoned \cup InFlight
  BY DEF Examine
<1>2. \A p : Stored(p)' <=> Stored(p) BY <1>1 DEF Stored
<1>3. done \subseteq Passes /\ 0 \notin Passes BY DEF Inv, TypeOK, Passes
<1>4. \A p \in done' \ abandoned' : Stored(p)' \/ run'.pass = p
  <2> SUFFICES ASSUME NEW p \in done \ abandoned, run.pass = p, run' = NoRun, p \notin InFlight
               PROVE  Stored(p)
    BY <1>1, <1>2 DEF Safe
  <2>1. p \in 1..MaxPass BY <1>3 DEF Passes
  <2>2. \/ ckpt.on /\ run.iter < ckpt.iter
        \/ transcript[Pass(p)] # 0
    BY <2>1 DEF InFlight, Pass
  <2>3. transcript[Pass(p)] \in Nat BY <1>3 DEF Inv, TypeOK, Messages, Pass
  <2> QED BY <2>2, <2>3 DEF Safe, Owed, Stored
<1>5. Owed' => run' = run /\ Owed
  BY <1>1, <1>3 DEF Owed, NoRun
<1>6. pc' \notin {"mark", "model", "paused", "record", "finalize", "finish"} \cup Before \cup AtPass
  BY <1>1 DEF Before, AtPass
<1> QED BY <1>1, <1>2, <1>4, <1>5, <1>6 DEF Safe

LEMMA SafeStep ==
  ASSUME Inv, Inv', MaxFault = 0, MaxForeign = 0, OnRecord, OnRecord', Placed, Placed', Safe, TurnRunsAssumption, Next
  PROVE  Safe'
<1>1. CASE StartTurn
  BY <1>1 DEF StartTurn, LapseCards, TypeOK, TurnIds, Turns, Runs, Ckpts, Iterations, Turning,
       AtPass, Before, NoTurn, NoRun, NoCkpt, NoneOf, Nobody, Booting, Inv, Ours, Identified,
       Paced, Ahead, OnRecord, Placed, Nowhere, Pass, Messages, Passes, Safe, Stored, Owed,
       InFlight
<1>2. CASE SaveCheckpoint
  BY <1>2 DEF SaveCheckpoint, Call, Safe, Stored, Owed, Before, Turning, AtPass, Booting, NoTurn,
       NoRun, NoCkpt, NoneOf, Nobody, TypeOK, Turns, Runs, Ckpts, Iterations, OnRecord, Placed,
       Inv
<1>3. CASE BeginRun
  BY <1>3 DEF BeginRun, Begun, Call, TypeOK, TurnIds, Turns, Runs, Ckpts, Iterations, Turning,
       AtPass, Before, NoTurn, NoRun, NoCkpt, NoneOf, Nobody, Booting, Inv, Ours, Identified,
       Paced, Ahead, OnRecord, Placed, Nowhere, Pass, Messages, Passes, Safe, Stored, Owed,
       InFlight
<1>4. CASE PauseAtCap
  BY <1>4 DEF PauseAtCap, Record, Mine, Call, Safe, Stored, Owed, Before, Turning, AtPass,
       Booting, TypeOK, Turns, Runs, Ckpts, Iterations, Inv
<1>5. CASE RaiseCap
  BY <1>5 DEF RaiseCap, durable, counts, Safe, Stored, Owed, Before, Turning, AtPass, Booting, Inv
<1>6. CASE Answer
  BY <1>6, AnswerSafe
<1>7. CASE RecordPass
  BY <1>7, RecordPassSafe
<1>8. CASE GateUnasked
  BY <1>8 DEF GateUnasked, RunBatch, Ordinary, CutOff, durable, counts, Safe, Stored, Owed,
       Before, Turning, AtPass, Booting, Inv
<1>9. CASE GateAsks
  BY <1>9 DEF GateAsks, counts, Safe, Stored, Owed, Before, Turning, AtPass, Booting, Inv
<1>10. CASE UserAnswers
  BY <1>10 DEF UserAnswers, counts, Safe, Stored, Owed, Inv
<1>11. CASE GateDecided
  BY <1>11 DEF GateDecided, RunBatch, Ordinary, Allowed, Interrupted, CutOff, durable, counts,
       Safe, Stored, Owed, Before, Turning, AtPass, Booting, Inv
<1>12. ASSUME NEW c \in Calls, CallStarts(c)  PROVE Safe'
  BY <1>12 DEF CallStarts, RecordCall, Record, Mine, Call, Safe, Stored, Owed, TypeOK, Turns,
       Runs, Ckpts, Iterations, Inv
<1>13. ASSUME NEW c \in Calls, CallRuns(c)  PROVE Safe'
  BY <1>13 DEF CallRuns, durable, counts, Safe, Stored, Owed, Inv
<1>14. ASSUME NEW c \in Calls, CallFinishes(c)  PROVE Safe'
  BY <1>14 DEF CallFinishes, RecordCall, Record, Mine, Call, Safe, Stored, Owed, TypeOK, Turns,
       Runs, Ckpts, Iterations, Inv
<1>15. CASE EndBatch
  BY <1>15, EndBatchSafe
<1>16. CASE Stop
  BY <1>16 DEF Stop, LapseCards, counts, Safe, Stored, Owed, Inv
<1>17. CASE LeaveLoop
  BY <1>17 DEF LeaveLoop, durable, counts, TypeOK, TurnIds, Turns, Runs, Ckpts, Iterations,
       Turning, AtPass, Before, NoTurn, NoRun, NoCkpt, NoneOf, Nobody, Booting, Inv, Ours,
       Identified, Paced, Ahead, OnRecord, Placed, Nowhere, Pass, Messages, Passes, Safe, Stored,
       Owed, InFlight
<1>18. CASE Finalize
  BY <1>18 DEF Finalize, Append, Call, TypeOK, TurnIds, Turns, Runs, Ckpts, Iterations, Turning,
       AtPass, Before, NoTurn, NoRun, NoCkpt, NoneOf, Nobody, Booting, Inv, Ours, Identified,
       Paced, Ahead, OnRecord, Placed, Nowhere, Pass, Messages, Passes, Safe, Stored, Owed,
       InFlight
<1>19. CASE Finish
  BY <1>19 DEF Finish, Record, Mine, Call, Safe, Stored, Owed, Before, Turning, AtPass, Booting, Inv
<1>20. CASE ForeignAppend
  BY <1>20 DEF ForeignAppend, Append, Safe, Stored, Owed, TypeOK, Turns, Runs, Ckpts, Iterations,
       Inv
<1>21. CASE Crash
  BY <1>21 DEF Crash, durable, Safe, Stored, Owed, Before, Turning, AtPass, Booting, Inv
<1>22. CASE Examine
  BY <1>22, ExamineSafe
<1>23. CASE Unmark
  BY <1>23 DEF Unmark, EmptyMark, counts, Safe, Stored, Owed, Before, Turning, AtPass, Booting,
       NoTurn, NoRun, NoCkpt, NoneOf, Nobody, TypeOK, Turns, Runs, Ckpts, Iterations, Inv
<1>24. CASE Recover
  BY <1>24 DEF Recover, Append, Call, TypeOK, TurnIds, Turns, Runs, Ckpts, Iterations, Turning,
       AtPass, Before, NoTurn, NoRun, NoCkpt, NoneOf, Nobody, Booting, Inv, Ours, Identified,
       Paced, Ahead, OnRecord, Placed, Nowhere, Pass, Messages, Passes, Safe, Stored, Owed,
       InFlight
<1>25. CASE Lapse
  BY <1>25 DEF Lapse, LapseCards, counts, Safe, Stored, Owed, Before, Turning, AtPass, Booting, Inv
<1>26. CASE Claim
  BY <1>26, ClaimSafe
<1>27. CASE Merge
  BY <1>27 DEF Merge, Append, Call, TypeOK, TurnIds, Turns, Runs, Ckpts, Iterations, Turning,
       AtPass, Before, NoTurn, NoRun, NoCkpt, NoneOf, Nobody, Booting, Inv, Ours, Identified,
       Paced, Ahead, OnRecord, Placed, Nowhere, Pass, Messages, Passes, Safe, Stored, Owed,
       InFlight
<1>28. CASE Drive
  BY <1>28 DEF Drive, Call, Safe, Stored, Owed, Before, Turning, AtPass, Booting, NoTurn, NoRun,
       NoCkpt, NoneOf, Nobody, TypeOK, Turns, Runs, Ckpts, Iterations, OnRecord, Placed, Inv
<1> QED BY <1>1, <1>2, <1>3, <1>4, <1>5, <1>6, <1>7, <1>8, <1>9, <1>10, <1>11, <1>12, <1>13,
     <1>14, <1>15, <1>16, <1>17, <1>18, <1>19, <1>20, <1>21, <1>22, <1>23, <1>24, <1>25, <1>26,
     <1>27, <1>28 DEF Next, Loop, Boot

LEMMA CallStartsFinished ==
  ASSUME Inv, NEW c \in Calls, CallStarts(c), NEW r \in Recs, OnRecordFinished(r)
  PROVE  /\ ran'[r] = ran[r]
         /\ OnRecordFinished(r)' \/ run'.id = Nobody \/ run'.pass # r[1]
<1>1. ran' = ran /\ pc = "batch" /\ me.at[c] \in {"todo", "ran"}
  BY DEF CallStarts
<1>2. \/ run' = run
      \/ /\ run.id = me.id /\ me.id # Nobody /\ run.iter = me.iter
         /\ \E w \in {"running"} : run' = [run EXCEPT !.calls[c] = w]
  BY DEF CallStarts, RecordCall, Record, Mine
<1>3. CASE run' = run
  BY <1>1, <1>3 DEF OnRecordFinished
<1>4. CASE run' # run
  <2>1. run.pass = me.pass
    BY <1>1, <1>2, <1>4 DEF Inv, Ahead, Ours, AtPass
  <2>2. run.calls[c] # "finished"
    BY <1>1, <2>1 DEF Inv, Faithful
  <2>3. c # r[2] /\ r[2] \in Calls
    BY <2>2 DEF OnRecordFinished, Recs
  <2>4. run'.id = run.id /\ run'.pass = run.pass /\ run'.calls[r[2]] = run.calls[r[2]]
    BY <1>2, <1>4, <2>3 DEF Inv, TypeOK, Runs, Stamps
  <2> QED BY <1>1, <2>4 DEF OnRecordFinished
<1> QED BY <1>3, <1>4

LEMMA CallFinishesFinished ==
  ASSUME Inv, NEW c \in Calls, CallFinishes(c), NEW r \in Recs, OnRecordFinished(r)
  PROVE  /\ ran'[r] = ran[r]
         /\ OnRecordFinished(r)' \/ run'.id = Nobody \/ run'.pass # r[1]
<1>1. ran' = ran /\ pc = "batch" /\ me.at[c] \in {"todo", "ran"}
  BY DEF CallFinishes
<1>2. \/ run' = run
      \/ /\ run.id = me.id /\ me.id # Nobody /\ run.iter = me.iter
         /\ \E w \in {"finished", "omitted"} : run' = [run EXCEPT !.calls[c] = w]
  BY DEF CallFinishes, RecordCall, Record, Mine
<1>3. CASE run' = run
  BY <1>1, <1>3 DEF OnRecordFinished
<1>4. CASE run' # run
  <2>1. run.pass = me.pass
    BY <1>1, <1>2, <1>4 DEF Inv, Ahead, Ours, AtPass
  <2>2. run.calls[c] # "finished"
    BY <1>1, <2>1 DEF Inv, Faithful
  <2>3. c # r[2] /\ r[2] \in Calls
    BY <2>2 DEF OnRecordFinished, Recs
  <2>4. run'.id = run.id /\ run'.pass = run.pass /\ run'.calls[r[2]] = run.calls[r[2]]
    BY <1>2, <1>4, <2>3 DEF Inv, TypeOK, Runs, Stamps
  <2> QED BY <1>1, <2>4 DEF OnRecordFinished
<1> QED BY <1>3, <1>4

LEMMA FinishedStep ==
  ASSUME Inv, TypeOK', TurnRunsAssumption, Next, NEW r \in Recs, OnRecordFinished(r)
  PROVE  /\ ran'[r] = ran[r]
         /\ OnRecordFinished(r)' \/ run'.id = Nobody \/ run'.pass # r[1]
<1>1. CASE StartTurn
  BY <1>1 DEF StartTurn, OnRecordFinished
<1>2. CASE SaveCheckpoint
  BY <1>2 DEF SaveCheckpoint, OnRecordFinished
<1>3. CASE BeginRun
  BY <1>3 DEF BeginRun, Begun, Call, Booting, OnRecordFinished, Inv, TypeOK, Runs, Turns, Recs,
       Passes, Paced, Identified, Ahead, Ours, Faithful, AtPass, NoRun, NoneOf, Nobody
<1>4. CASE PauseAtCap
  BY <1>4 DEF PauseAtCap, Record, Mine, Call, Booting, OnRecordFinished, Inv, TypeOK, Runs, Turns,
       Recs, Passes, Paced, Identified, Ahead, Ours, Faithful, AtPass, NoRun, NoneOf, Nobody
<1>5. CASE RaiseCap
  BY <1>5 DEF RaiseCap, durable, OnRecordFinished
<1>6. CASE Answer
  BY <1>6, AnswerStep DEF Answer, durable, OnRecordFinished, Inv
<1>7. CASE RecordPass
  BY <1>7 DEF RecordPass, Record, Mine, Call, KeptProgress, Booting, OnRecordFinished, Inv,
       TypeOK, Runs, Turns, Recs, Passes, Paced, Identified, Ahead, Ours, Faithful, AtPass, NoRun,
       NoneOf, Nobody
<1>8. CASE GateUnasked
  BY <1>8 DEF GateUnasked, durable, OnRecordFinished
<1>9. CASE GateAsks
  BY <1>9 DEF GateAsks, OnRecordFinished
<1>10. CASE UserAnswers
  BY <1>10 DEF UserAnswers, OnRecordFinished
<1>11. CASE GateDecided
  BY <1>11 DEF GateDecided, durable, OnRecordFinished
<1>12. ASSUME NEW c \in Calls, CallStarts(c)
      PROVE  /\ ran'[r] = ran[r]
             /\ OnRecordFinished(r)' \/ run'.id = Nobody \/ run'.pass # r[1]
  BY <1>12, CallStartsFinished
<1>13. ASSUME NEW c \in Calls, CallRuns(c)
      PROVE  /\ ran'[r] = ran[r]
             /\ OnRecordFinished(r)' \/ run'.id = Nobody \/ run'.pass # r[1]
  BY <1>13 DEF CallRuns, durable, counts, Booting, OnRecordFinished, Inv, TypeOK, Runs, Turns,
       Recs, Passes, Paced, Identified, Ahead, Ours, Faithful, AtPass, NoRun, NoneOf, Nobody
<1>14. ASSUME NEW c \in Calls, CallFinishes(c)
      PROVE  /\ ran'[r] = ran[r]
             /\ OnRecordFinished(r)' \/ run'.id = Nobody \/ run'.pass # r[1]
  BY <1>14, CallFinishesFinished
<1>15. CASE EndBatch
  BY <1>15 DEF EndBatch, durable, OnRecordFinished
<1>16. CASE Stop
  BY <1>16 DEF Stop, OnRecordFinished
<1>17. CASE LeaveLoop
  BY <1>17 DEF LeaveLoop, durable, OnRecordFinished
<1>18. CASE Finalize
  BY <1>18 DEF Finalize, OnRecordFinished
<1>19. CASE Finish
  BY <1>19 DEF Finish, Record, Mine, Call, Booting, OnRecordFinished, Inv, TypeOK, Runs, Turns,
       Recs, Passes, Paced, Identified, Ahead, Ours, Faithful, AtPass, NoRun, NoneOf, Nobody
<1>20. CASE ForeignAppend
  BY <1>20 DEF ForeignAppend, OnRecordFinished
<1>21. CASE Crash
  BY <1>21 DEF Crash, durable, OnRecordFinished
<1>22. CASE Examine
  BY <1>22 DEF Examine, Call, Resumable, PassInProgress, PausedHere, Booting, OnRecordFinished,
       Inv, TypeOK, Runs, Turns, Recs, Passes, Paced, Identified, Ahead, Ours, Faithful, AtPass,
       NoRun, NoneOf, Nobody
<1>23. CASE Unmark
  BY <1>23 DEF Unmark, OnRecordFinished
<1>24. CASE Recover
  BY <1>24 DEF Recover, OnRecordFinished
<1>25. CASE Lapse
  BY <1>25 DEF Lapse, OnRecordFinished
<1>26. CASE Claim
  BY <1>26, ClaimStep DEF Claim, Inv, OnRecordFinished
<1>27. CASE Merge
  BY <1>27 DEF Merge, OnRecordFinished
<1>28. CASE Drive
  BY <1>28 DEF Drive, OnRecordFinished
<1> QED BY <1>1, <1>2, <1>3, <1>4, <1>5, <1>6, <1>7, <1>8, <1>9, <1>10, <1>11, <1>12, <1>13,
     <1>14, <1>15, <1>16, <1>17, <1>18, <1>19, <1>20, <1>21, <1>22, <1>23, <1>24, <1>25, <1>26,
     <1>27, <1>28 DEF Next, Loop, Boot

-----------------------------------------------------------------------------
(* The invariants *)

LEMMA InitInv == ASSUME TurnRunsAssumption, Init PROVE Inv
<1> USE DEF Init, NoTurn, NoRun, NoCkpt, NoneOf, Nobody
<1>1. TypeOK
  BY Shapes DEF TypeOK, TurnRunsAssumption, Booting
<1>2. Paced /\ Identified
  BY DEF Paced, Identified, Turning, Before, AtPass, Booting
<1>3. Counted /\ Ahead /\ Faithful
  BY DEF Counted, Ahead, Faithful, Ours, Before, AtPass, TurnRunsAssumption
<1> QED BY <1>1, <1>2, <1>3 DEF Inv

LEMMA Step == ASSUME TurnRunsAssumption, Inv, [Next]_vars PROVE Inv'
<1>1. CASE Next
  <2>1. TypeOK' BY <1>1, TypeStep DEF Inv
  <2> QED BY <1>1, <2>1, PacedStep, IdentifiedStep, CountedStep, AheadStep, FaithfulStep DEF Inv
<1>2. CASE UNCHANGED vars
  BY <1>2 DEF vars, durable, counts, Inv, TypeOK, Paced, Identified, Counted, Ahead, Ours, Faithful,
     Resumable, PassInProgress, PausedHere
<1> QED BY <1>1, <1>2

\* The inductive invariant, under failed database calls, crashes and foreign
\* appends in any number: what the record of the turn says of where the loop is.
THEOREM Invariance == Spec => []Inv
<1>1. Init => Inv BY InitInv, TurnRunsAssumption
<1>2. Inv /\ [Next]_vars => Inv' BY Step, TurnRunsAssumption
<1> QED BY <1>1, <1>2, PTL DEF Spec

\* The state keeps its shape: no counter leaves its bound, no record its fields.
THEOREM TypeCorrect == Spec => []TypeOK
<1>1. Inv => TypeOK BY DEF Inv
<1> QED BY <1>1, Invariance, PTL

\* However often the process dies and whatever writes fail, a turn is re-driven
\* at most MaxAttempts times.
THEOREM DrivesStayBounded == Spec => []DrivesBounded
<1>1. Inv => DrivesBounded BY DEF Inv, Counted, DrivesBounded
<1> QED BY <1>1, Invariance, PTL

\* No step runs a call whose result is on record, or takes the result off it
\* while the pass stands there.
THEOREM FinishedStays == Spec => FinishedStands
<1> DEFINE Stands == \A r \in Recs : OnRecordFinished(r) =>
               /\ ran'[r] = ran[r]
               /\ OnRecordFinished(r)' \/ run'.id = Nobody \/ run'.pass # r[1]
<1>1. Inv /\ Inv' /\ [Next]_vars => [Stands]_vars
  BY FinishedStep, TurnRunsAssumption DEF Inv
<1> QED BY <1>1, Invariance, PTL DEF Spec, FinishedStands

LEMMA ExactStep ==
  ASSUME TurnRunsAssumption, MaxFault = 0, Inv, Inv', Exact, [Next]_vars
  PROVE  Exact'
<1>1. CASE Next
  <2>1. OnRecord' BY <1>1, OnRecordStep DEF Exact
  <2> QED BY <1>1, <2>1, RanOnceStep, PlacedStep DEF Exact
<1>2. CASE UNCHANGED vars
  BY <1>2 DEF vars, durable, counts, Exact, OnRecord, RanOnce, Again, Placed, Nowhere
<1> QED BY <1>1, <1>2

\* While no database call fails, the record, the calls' runs and the places of
\* the messages agree.
THEOREM ExactInvariance == ASSUME MaxFault = 0 PROVE Spec => []Exact
<1>1. Init => Exact
  <2> SUFFICES ASSUME Init PROVE Exact
    OBVIOUS
  <2> USE DEF Init, NoTurn, NoRun, NoCkpt, NoneOf, Nobody
  <2>1. OnRecord BY DEF OnRecord, Turning
  <2>2. RanOnce BY DEF RanOnce, Again
  <2>3. Placed BY DEF Placed, Nowhere, Pass, Messages, Turning, Before, AtPass
  <2> QED BY <2>1, <2>2, <2>3 DEF Exact
<1>2. Inv /\ Inv' /\ Exact /\ [Next]_vars => Exact' BY ExactStep, TurnRunsAssumption
<1> QED BY <1>1, <1>2, Invariance, PTL DEF Spec

\* However restarts fall, a call with side effects runs again only after its
\* "run it again?" card was answered yes.
THEOREM RepeatsHaveAYes == ASSUME MaxFault = 0 PROVE Spec => []RepeatNeedsYes
<1>1. Exact => RepeatNeedsYes BY DEF Exact, RanOnce, Again, RepeatNeedsYes, Repeated
<1> QED BY <1>1, ExactInvariance, PTL

\* Whatever the crashes, re-drives and foreign appends, no message is appended
\* twice, and none is both in the transcript and in what recovery will append.
THEOREM MessagesComeOnce == ASSUME MaxFault = 0 PROVE Spec => []MessageOnce
<1>1. Exact => MessageOnce BY DEF Exact, Placed, MessageOnce
<1> QED BY <1>1, ExactInvariance, PTL

LEMMA KeptStep ==
  ASSUME TurnRunsAssumption, MaxFault = 0, MaxForeign = 0, Inv, Inv', Exact, [Next]_vars,
         NEW m \in ckpt.msgs
  PROVE  m \in ckpt'.msgs \/ transcript'[m] > 0
<1> DEFINE K == m \in ckpt'.msgs \/ transcript'[m] > 0
<1>1. m \in Messages /\ transcript[m] \in Nat
  BY DEF Inv, TypeOK, Ckpts
<1>2. pc \in {"top", "finalize"} => m \in me.msgs
  BY DEF Exact, Placed, Turning
<1>3. pc # "remark" BY DEF Exact, Placed
<1>4. CASE SaveCheckpoint
  <2>1. m \in me.msgs BY <1>2, <1>4 DEF SaveCheckpoint
  <2>2. ckpt' = [on |-> TRUE, iter |-> me.iter, msgs |-> me.msgs] \/ ckpt' = ckpt
    BY <1>4 DEF SaveCheckpoint
  <2> QED BY <2>1, <2>2
<1>5. ASSUME NEW S, m \in S, Append(S) PROVE transcript'[m] > 0
  BY <1>1, <1>5 DEF Append
<1>6. CASE Finalize \/ Merge \/ Recover
  <2>1. ckpt' = ckpt \/ (m \in me.msgs /\ Append(me.msgs)) \/ Append(ckpt.msgs)
    BY <1>2, <1>6 DEF Finalize, Merge, Recover
  <2> QED BY <1>5, <2>1
<1>7. CASE ForeignAppend BY <1>7 DEF ForeignAppend, Inv, TypeOK
<1>8. CASE Drive BY <1>3, <1>8 DEF Drive
<1>9. CASE Unmark BY <1>9 DEF Unmark, EmptyMark
<1>10. CASE UNCHANGED ckpt BY <1>10
<1>11. ckpt' # ckpt => SaveCheckpoint \/ Finalize \/ Merge \/ Recover \/ ForeignAppend \/ Drive \/ Unmark
  BY DEF Next, Loop, Boot, vars, durable, StartTurn, BeginRun, PauseAtCap, RaiseCap, Answer,
       RecordPass,
     GateUnasked, GateAsks, UserAnswers, GateDecided, CallStarts, CallRuns, CallFinishes, EndBatch, Stop,
     LeaveLoop, Finish, Crash, Examine, Lapse, Claim
<1> QED BY <1>4, <1>6, <1>7, <1>8, <1>9, <1>10, <1>11

\* While nobody else appends, a message leaves the checkpoint only for the
\* transcript.
THEOREM CheckpointStays == ASSUME MaxFault = 0, MaxForeign = 0 PROVE Spec => CheckpointKept
<1> DEFINE Kept == \A m \in ckpt.msgs : m \in ckpt'.msgs \/ transcript'[m] > 0
<1>1. Inv /\ Inv' /\ Exact /\ [Next]_vars => [Kept]_vars BY KeptStep, TurnRunsAssumption
<1> QED BY <1>1, Invariance, ExactInvariance, PTL DEF Spec, CheckpointKept

\* A completed batch is never gone: wherever the process dies, its messages are
\* in the transcript or the checkpoint, or the record still holds its pass.
THEOREM NothingIsLost == ASSUME MaxFault = 0, MaxForeign = 0 PROVE Spec => []NothingLost
<1>1. Init => Safe
  BY DEF Init, NoTurn, NoRun, NoCkpt, Safe, Owed, Before, AtPass
<1>2. Inv /\ Inv' /\ Exact /\ Exact' /\ Safe /\ [Next]_vars => Safe'
  <2> SUFFICES ASSUME Inv, Inv', Exact, Exact', Safe, [Next]_vars PROVE Safe'
    OBVIOUS
  <2>1. CASE Next BY <2>1, SafeStep, TurnRunsAssumption DEF Exact
  <2>2. CASE UNCHANGED vars
    BY <2>2 DEF vars, durable, counts, Safe, Stored, Owed
  <2> QED BY <2>1, <2>2
<1>3. Safe => NothingLost BY DEF Safe, Stored, Pass, NothingLost
<1> QED BY <1>1, <1>2, <1>3, Invariance, ExactInvariance, PTL DEF Spec
=============================================================================
