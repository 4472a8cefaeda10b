------------------------- MODULE Background_proofs -------------------------
(***************************************************************************)
(* For every set of tasks, every number of events, turns, failures and     *)
(* crashes: an outcome is always in somebody's hands and told once, and a  *)
(* monitor's frames come in order, none skipped.                           *)
(***************************************************************************)
EXTENDS Background, FiniteSetTheorems, TLAPS

Ops == {"started", "settled", "delivered"}

\* A notice the wake has taken on and not yet handed over.
Queued(n) == n \in wake.queue \/ (wake.at = "appending" /\ n \in wake.woken)

\* No wake has no notices, and one that is being appended is not queued again.
QueueApart ==
    /\ wake.at = "none" => wake.queue = {}
    /\ wake.at = "appending" => wake.queue \cap wake.woken = {}

\* What a task's status says of the rest of the state: who holds its outcome,
\* and what of it may be on record or on its way there.
Placed(t) ==
    /\ status[t] = "none" => record[t] = "none" /\ heard[t] = 0 /\ t \notin stamped
    /\ status[t] = "running" => heard[t] = 0 /\ (t \in stamped <=> t \in waiting)
    /\ Queued(t) => status[t] = "done"
    /\ t \in waiting => status[t] \in {"running", "done", "cancelled"} /\ t \notin due \cup claimed
    /\ t \in due \cup claimed => status[t] \in {"past", "cancelled"}
    /\ t \in claimed => record[t] = "delivered"
    /\ \A op \in Ops : <<t, op>> \in writes =>
           status[t] \in {"running", "done", "cancelled"} /\ t \notin due \cup claimed
    /\ <<t, "started">> \in writes => record[t] = "none"
    /\ turn.at = "down" => /\ status[t] \notin {"running", "done"}
                           /\ t \notin waiting \cup due \cup claimed
                           /\ \A op \in Ops : <<t, op>> \notin writes

Clean(t) == t \notin slips \cup asked

\* An outcome whose record missed no write is in one pair of hands, and once it
\* is told, or its task settled, the record says so or is about to.
Once(t) == Clean(t) =>
    /\ heard[t] <= 1
    /\ status[t] = "done" => record[t] = "delivered" \/ <<t, "delivered">> \in writes
    /\ heard[t] > 0 /\ status[t] # "done" => record[t] = "delivered"
    /\ Queued(t) \/ t \in waiting \/ t \in claimed => heard[t] = 0
    /\ ~(Queued(t) /\ t \in waiting)

\* OutcomeKept, of one task.
Kept(t) == status[t] \in {"done", "past"} /\ heard[t] = 0 =>
    \/ Queued(t) \/ t \in waiting \cup claimed \cup failed \cup lost
    \/ status[t] = "past" /\ record[t] \in {"running", "settled"}

Fine(t) == Placed(t) /\ Once(t) /\ Kept(t)

\* Where the watcher is, by the frame it is at.
AtFrame ==
    /\ watch = "handing" => Queued(Frame) \/ heard[Frame] > 0 \/ Frame \in failed
    /\ watch = "saving" => heard[Frame] > 0 \/ Frame \in failed \/ (Exits /\ end = "killed")
    /\ watch \in {"handing", "saving"} => Frame <= events \/ Exits

\* How far it came, and its record.
Behind ==
    /\ last > events => watch = "over"
    /\ saved > events => onFile = "delivered" /\ watch = "over"
    /\ saved <= last

\* Only its frame is on its way; every one before was told, none after.
OneQueued == \A k \in Frames : Queued(k) => watch = "handing" /\ k = Frame /\ (heard[k] = 0 \/ k \in resaid)
NoneSkipped == \A k \in 1..last : heard[k] > 0 \/ k \in failed \/ (k = events + 1 /\ end = "killed")
NoneAhead == \A k \in Frames : k > last /\ heard[k] > 0 => k \in resaid \/ (k = Frame /\ watch \in {"handing", "saving"})

Watched == AtFrame /\ Behind /\ OneQueued /\ NoneSkipped /\ NoneAhead

TasksInv == TypeOK /\ QueueApart /\ \A t \in Tasks : Fine(t)
FramesInv == TypeOK /\ QueueApart /\ Watched /\ FramesInOrder

-----------------------------------------------------------------------------
(* One notice, over one step *)

Up(x) == IF x < 2 THEN x + 1 ELSE x

\* What a step of the wake may do to a notice: nothing, hand it over, or fail to.
Passes(n) ==
    \/ heard'[n] = heard[n] /\ (Queued(n)' <=> Queued(n))
    \/ Queued(n) /\ ~Queued(n)' /\ heard'[n] = Up(heard[n])
    \/ Queued(n) /\ ~Queued(n)' /\ heard'[n] = heard[n] /\ n \in failed'

LEMMA Kinds ==
    /\ \A t \in Tasks : t \in Notices /\ t \notin Frames
    /\ \A k \in Frames : k \in Notices /\ k \notin Tasks /\ k \in Nat
BY TaskWakesAssumption DEF Notices, Frames

LEMMA Hearing ==
    ASSUME TypeOK, NEW S, Hears(S)
    PROVE  /\ heard' \in [Notices -> 0..2]
           /\ \A n \in Notices : heard'[n] = IF n \in S THEN Up(heard[n]) ELSE heard[n]
BY DEF TypeOK, WakesTypeOK, Hears, Up

\* A notice nobody had is queued, or the turn of the wake under way takes it.
LEMMA Waking ==
    ASSUME TypeOK, QueueApart, NEW n \in Notices, ~Queued(n), WakesFor(n)
    PROVE  /\ heard' \in [Notices -> 0..2] /\ wake' \in WakeStates /\ QueueApart'
           /\ \A m \in Notices \ {n} : heard'[m] = heard[m] /\ (Queued(m)' <=> Queued(m))
           /\ \/ heard'[n] = heard[n] /\ Queued(n)'
              \/ heard'[n] = Up(heard[n]) /\ ~Queued(n)'
<1> USE DEF WakeStates
<1>1. CASE wake.at = "none"
    <2>1. /\ wake' = [at |-> "finding", queue |-> {n}, woken |-> {}] /\ heard' = heard
        BY <1>1 DEF WakesFor, NoWake
    <2>2. \A m \in Notices : ~Queued(m) /\ (Queued(m)' <=> m = n)
        BY <1>1, <2>1 DEF TypeOK, WakesTypeOK, QueueApart, Queued
    <2> QED BY <2>1, <2>2 DEF TypeOK, WakesTypeOK, QueueApart
<1>2. CASE wake.at # "none" /\ Registered /\ Open
    <2>1. wake' = wake /\ Hears({n})
        BY <1>2 DEF WakesFor
    <2>2. \A m \in Notices : Queued(m)' <=> Queued(m)
        BY <2>1 DEF Queued
    <2> QED BY <2>1, <2>2, Hearing DEF TypeOK, WakesTypeOK, QueueApart
<1>3. CASE wake.at # "none" /\ ~(Registered /\ Open)
    <2>1. wake' = [wake EXCEPT !.queue = @ \cup {n}] /\ heard' = heard
        BY <1>3 DEF WakesFor
    <2>2. \A m \in Notices : Queued(m)' <=> Queued(m) \/ m = n
        BY <2>1 DEF TypeOK, WakesTypeOK, Queued
    <2>3. /\ wake'.at = wake.at /\ wake'.queue = wake.queue \cup {n} /\ wake'.woken = wake.woken
          /\ wake' \in WakeStates
        BY <2>1 DEF TypeOK, WakesTypeOK
    <2>4. QueueApart'
        BY <1>3, <2>3 DEF QueueApart, Queued
    <2>5. heard' \in [Notices -> 0..2]
        BY <2>1 DEF TypeOK, WakesTypeOK
    <2> QED BY <2>1, <2>2, <2>3, <2>4, <2>5
<1> QED BY <1>1, <1>2, <1>3

-----------------------------------------------------------------------------
(* The wake's own steps *)

WakeSteps ==
    \/ WakeLosesIt \/ WakeWaits \/ WakeTakesOver \/ WakeAppends \/ WakeRequests
    \/ WakeHandsOver \/ WakeEnds

\* Whatever a wake does, a notice that leaves its hands was handed over, or
\* counts as failed.
LEMMA WakePasses ==
    ASSUME TypeOK, QueueApart, WakeSteps
    PROVE  WakesTypeOK' /\ QueueApart' /\ failed \subseteq failed' /\ \A n \in Notices : Passes(n)
<1> DEFINE Goal == WakesTypeOK' /\ QueueApart' /\ failed \subseteq failed' /\ \A n \in Notices : Passes(n)
<1> USE DEF TurnStates, WakeStates
<1>0. /\ turn \in TurnStates /\ wake \in WakeStates
      /\ turns \in 0..MaxTurn /\ heard \in [Notices -> 0..2] /\ failed \subseteq Notices
      /\ faults \in 0..MaxFault /\ MaxFault \in Nat
    BY TaskWakesAssumption DEF TypeOK, WakesTypeOK
<1>f. Fault => faults' \in 0..MaxFault
    BY <1>0 DEF Fault
<1>1. CASE WakeLosesIt
    <2>1. /\ wake.at = "finding" /\ wake' = NoWake /\ heard' = heard /\ failed' = failed \cup wake.queue
          /\ turn' = turn /\ turns' = turns /\ Fault
        BY <1>1 DEF WakeLosesIt, Fails
    <2>2. \A n \in Notices : ~Queued(n)' /\ (Queued(n) <=> n \in wake.queue)
        BY <2>1 DEF NoWake, Queued
    <2>3. QueueApart'
        BY <2>1 DEF NoWake, QueueApart
    <2>4. WakesTypeOK'
        BY <1>0, <1>f, <2>1 DEF WakesTypeOK, NoWake
    <2> QED BY <2>1, <2>2, <2>3, <2>4 DEF Passes
<1>2. CASE WakeWaits
    <2> DEFINE joins == IF Open THEN wake.queue \cap Joiners ELSE {}
    <2>1. /\ wake.at \in {"finding", "holding"} /\ Hears(joins)
          /\ wake' = IF wake.queue \subseteq joins THEN NoWake
                     ELSE [wake EXCEPT !.at = "holding", !.queue = @ \ joins]
          /\ turn' = turn /\ turns' = turns /\ failed' = failed /\ faults' = faults
          /\ joins \subseteq wake.queue
        BY <1>2 DEF WakeWaits
    <2> HIDE DEF joins
    <2>2. /\ wake' \in WakeStates
          /\ wake'.at \in {"none", "holding"} /\ wake'.queue = wake.queue \ joins
        BY <1>0, <2>1 DEF NoWake
    <2>3. \A n \in Notices : (Queued(n)' <=> n \in wake.queue /\ n \notin joins)
                             /\ (Queued(n) <=> n \in wake.queue)
        BY <2>1, <2>2 DEF Queued
    <2>4. QueueApart'
        BY <2>1, <2>2 DEF NoWake, QueueApart
    <2>5. WakesTypeOK'
        BY <1>0, <2>1, <2>2, Hearing DEF WakesTypeOK
    <2>6. \A n \in Notices : heard'[n] = IF n \in joins THEN Up(heard[n]) ELSE heard[n]
        BY <2>1, Hearing
    <2> QED BY <2>1, <2>3, <2>4, <2>5, <2>6 DEF Passes
<1>3. CASE WakeTakesOver
    <2>1. /\ wake.at \in {"finding", "holding"} /\ heard' = heard /\ failed' = failed
          /\ wake' = [at |-> "appending", queue |-> {}, woken |-> wake.queue]
          /\ turn' = [at |-> "opening", by |-> "wake"]
          /\ turns' = turns /\ faults' = faults
        BY <1>3 DEF WakeTakesOver
    <2>2. \A n \in Notices : Queued(n)' <=> Queued(n)
        BY <2>1 DEF Queued
    <2>3. WakesTypeOK'
        BY <1>0, <2>1 DEF WakesTypeOK
    <2> QED BY <2>1, <2>2, <2>3 DEF Passes, QueueApart
<1>4. CASE WakeAppends
    <2>0. /\ wake.at = "appending" /\ turns' = turns /\ wake.queue \cap wake.woken = {}
          /\ \A n \in Notices : Queued(n) <=> n \in wake.queue \cup wake.woken
        BY <1>4 DEF WakeAppends, QueueApart, Queued
    <2>1. CASE /\ Hears(wake.woken) /\ wake' = [wake EXCEPT !.at = "requesting"]
               /\ UNCHANGED <<turn, failed, faults>>
        <3>1. /\ wake' \in WakeStates
              /\ wake'.at = "requesting" /\ wake'.queue = wake.queue
            BY <1>0, <2>1
        <3>2. \A n \in Notices : Queued(n)' <=> n \in wake.queue
            BY <3>1 DEF Queued
        <3>3. WakesTypeOK'
            BY <1>0, <2>0, <2>1, <3>1, Hearing DEF WakesTypeOK
        <3>4. \A n \in Notices : heard'[n] = IF n \in wake.woken THEN Up(heard[n]) ELSE heard[n]
            BY <2>1, Hearing
        <3> QED BY <2>0, <2>1, <3>1, <3>2, <3>3, <3>4 DEF Passes, QueueApart
    <2>2. CASE Fault /\ Fails(wake.queue \cup wake.woken) /\ turn' = NoTurn /\ UNCHANGED heard
        <3>1. \A n \in Notices : ~Queued(n)'
            BY <2>2 DEF Fails, NoWake, Queued
        <3>2. WakesTypeOK' /\ QueueApart'
            BY <1>0, <1>f, <2>0, <2>2 DEF WakesTypeOK, Fails, NoWake, NoTurn, QueueApart
        <3> QED BY <2>0, <2>2, <3>1, <3>2 DEF Passes, Fails
    <2> QED BY <1>4, <2>1, <2>2 DEF WakeAppends
<1>5. CASE WakeRequests
    <2>0. /\ wake.at = "requesting" /\ turns' = turns /\ heard' = heard
          /\ \A n \in Notices : Queued(n) <=> n \in wake.queue
        BY <1>5 DEF WakeRequests, Queued
    <2>1. CASE wake' = [wake EXCEPT !.at = "running"] /\ UNCHANGED <<turn, failed, faults>>
        <3>1. /\ wake' \in WakeStates
              /\ wake'.at = "running" /\ wake'.queue = wake.queue
            BY <1>0, <2>1
        <3>2. \A n \in Notices : Queued(n)' <=> n \in wake.queue
            BY <3>1 DEF Queued
        <3> QED BY <1>0, <2>0, <2>1, <3>1, <3>2 DEF Passes, QueueApart, WakesTypeOK
    <2>2. CASE Fault /\ turn' = NoTurn /\ Rewakes(wake.queue) /\ UNCHANGED failed
        <3>1. /\ wake' \in WakeStates
              /\ wake'.at \in {"none", "finding"} /\ wake'.queue = wake.queue
            BY <1>0, <2>2 DEF Rewakes, NoWake
        <3>2. \A n \in Notices : Queued(n)' <=> n \in wake.queue
            BY <3>1 DEF Queued
        <3>3. QueueApart'
            BY <1>0, <2>2 DEF Rewakes, NoWake, QueueApart
        <3> QED BY <1>0, <1>f, <2>0, <2>2, <3>1, <3>2, <3>3 DEF Passes, WakesTypeOK, NoTurn
    <2>3. CASE Fault /\ turn' = NoTurn /\ Fails(wake.queue)
        <3>1. \A n \in Notices : ~Queued(n)'
            BY <2>3 DEF Fails, NoWake, Queued
        <3>2. WakesTypeOK' /\ QueueApart'
            BY <1>0, <1>f, <2>0, <2>3 DEF WakesTypeOK, Fails, NoWake, NoTurn, QueueApart
        <3> QED BY <2>0, <2>3, <3>1, <3>2 DEF Passes, Fails
    <2> QED BY <1>5, <2>1, <2>2, <2>3 DEF WakeRequests
<1>6. CASE WakeHandsOver
    <2>1. /\ wake.at = "running" /\ Hears(wake.queue) /\ wake' = [wake EXCEPT !.queue = {}]
          /\ UNCHANGED <<turn, turns, failed, faults>>
        BY <1>6 DEF WakeHandsOver
    <2>2. /\ wake' \in WakeStates
          /\ wake'.at = "running" /\ wake'.queue = {}
        BY <1>0, <2>1
    <2>3. \A n \in Notices : ~Queued(n)' /\ (Queued(n) <=> n \in wake.queue)
        BY <2>1, <2>2 DEF Queued
    <2>4. \A n \in Notices : heard'[n] = IF n \in wake.queue THEN Up(heard[n]) ELSE heard[n]
        BY <2>1, Hearing
    <2>5. WakesTypeOK'
        BY <1>0, <2>1, <2>2, Hearing DEF WakesTypeOK
    <2> QED BY <2>1, <2>2, <2>3, <2>4, <2>5 DEF Passes, QueueApart
<1>7. CASE WakeEnds
    <2>1. /\ wake.at = "running" /\ turn' = NoTurn /\ Rewakes(wake.queue)
          /\ UNCHANGED <<turns, heard, failed, faults>>
        BY <1>7 DEF WakeEnds
    <2>2. /\ wake' \in WakeStates
          /\ wake'.at \in {"none", "finding"} /\ wake'.queue = wake.queue
          /\ wake'.at = "none" => wake.queue = {}
        BY <1>0, <2>1 DEF Rewakes, NoWake
    <2>3. \A n \in Notices : Queued(n)' <=> Queued(n)
        BY <2>1, <2>2 DEF Queued
    <2> QED BY <1>0, <2>1, <2>2, <2>3 DEF Passes, QueueApart, WakesTypeOK, NoTurn
<1> QED BY <1>1, <1>2, <1>3, <1>4, <1>5, <1>6, <1>7 DEF WakeSteps

-----------------------------------------------------------------------------
(* Who is not concerned by a step *)

\* Nothing that the invariant says of a task changes, or only its history grows.
Same(t) ==
    /\ status'[t] = status[t] /\ record'[t] = record[t]
    /\ t \in stamped' <=> t \in stamped
    /\ t \in waiting' <=> t \in waiting
    /\ t \in due' <=> t \in due
    /\ t \in claimed' <=> t \in claimed
    /\ \A op \in Ops : <<t, op>> \in writes' <=> <<t, op>> \in writes
    /\ Clean(t)' => Clean(t)
    /\ t \in lost => t \in lost'
    /\ turn'.at = "down" => turn.at = "down"

LEMMA TaskStands ==
    ASSUME TypeOK, NEW t \in Tasks, Fine(t), Passes(t), Same(t), failed \subseteq failed'
    PROVE  Fine(t)'
<1>0. heard[t] \in 0..2
    BY Kinds DEF TypeOK, WakesTypeOK
<1>1. Placed(t)'
    BY <1>0 DEF Fine, Placed, Passes, Same, Up, Ops
<1>2. Once(t)'
    BY <1>0 DEF Fine, Placed, Once, Passes, Same, Up, Ops
<1>3. Kept(t)'
    BY <1>0 DEF Fine, Kept, Passes, Same, Up
<1> QED BY <1>1, <1>2, <1>3 DEF Fine

LEMMA FramesStand ==
    ASSUME FramesInv, \A k \in Frames : Passes(k), failed \subseteq failed', UNCHANGED watchVars
    PROVE  Watched' /\ FramesInOrder'
<1>0. /\ \A k \in Frames : heard[k] \in 0..2 /\ k \in Nat
      /\ MaxSeq \in Nat /\ last \in 0..(MaxSeq + 1) /\ saved \in 0..(MaxSeq + 1) /\ events \in 0..MaxSeq
    BY Kinds, TaskWakesAssumption DEF FramesInv, TypeOK, WakesTypeOK, WatchTypeOK
<1>1. /\ events' = events /\ end' = end /\ watch' = watch /\ last' = last /\ saved' = saved
      /\ onFile' = onFile /\ stop' = stop /\ muted' = muted /\ resaid' = resaid
    BY DEF watchVars
<1>2. \A k \in Frames : heard[k] > 0 \/ k \in failed => heard'[k] > 0 \/ k \in failed'
    BY <1>0 DEF Passes, Up
<1>3. \A k \in Frames : (Queued(k)' => Queued(k)) /\ (heard'[k] # heard[k] => Queued(k) /\ ~Queued(k)')
    BY DEF Passes
<1> USE DEF AtFrame, Behind, OneQueued, NoneSkipped, NoneAhead
<1>4. Watched'
    BY <1>0, <1>1, <1>2, <1>3 DEF FramesInv, Watched, Frame, Exits, Frames, Passes, Up
<1>5. FramesInOrder'
    BY <1>0, <1>1, <1>2, <1>3 DEF FramesInv, Watched, FramesInOrder, Frames, Frame, Passes, Up
<1> QED BY <1>4, <1>5

-----------------------------------------------------------------------------
(* Types *)

Inv == TasksInv /\ FramesInv

\* The steps of one component leave the other's state alone.
LEMMA Untouched ==
    /\ UNCHANGED wakeVars /\ WakesTypeOK => WakesTypeOK'
    /\ UNCHANGED taskVars /\ TasksTypeOK => TasksTypeOK'
    /\ UNCHANGED watchVars /\ WatchTypeOK => WatchTypeOK'
<1>1. UNCHANGED wakeVars /\ WakesTypeOK => WakesTypeOK'
    BY DEF wakeVars, WakesTypeOK
<1>2. UNCHANGED taskVars /\ TasksTypeOK => TasksTypeOK'
    BY DEF taskVars, TasksTypeOK
<1>3. UNCHANGED watchVars /\ WatchTypeOK => WatchTypeOK'
    BY DEF watchVars, WatchTypeOK
<1> QED BY <1>1, <1>2, <1>3

\* A failed call keeps the count of failures within its bound.
LEMMA Failing == ASSUME TypeOK, Fault PROVE faults' \in 0..MaxFault
BY TaskWakesAssumption DEF TypeOK, WakesTypeOK, Fault

\* The counts of the conversation stay natural numbers.
LEMMA PayingBack ==
    ASSUME TypeOK, NEW S \in SUBSET Tasks, PaysBack(S) \/ WokenPayBack(S)
    PROVE  counted' \in SUBSET Tasks /\ pending' \in Nat
<1>1. pending \in Nat /\ counted \in SUBSET Tasks
    BY DEF TypeOK, TasksTypeOK
<1>2. Cardinality(S) \in Nat
    BY TaskWakesAssumption, FS_Subset, FS_CardinalityType
<1>3. CASE PaysBack(S)
    BY <1>1, <1>3 DEF PaysBack
<1>4. CASE WokenPayBack(S)
    BY <1>1, <1>2, <1>4 DEF WokenPayBack
<1> QED BY <1>3, <1>4

LEMMA WakeTypes ==
    ASSUME Inv, Wakes \/ HandsOver \/ WokenTurnEnds
    PROVE  TypeOK'
<1>1. TypeOK /\ QueueApart
    BY DEF Inv, TasksInv
<1>2. CASE Wakes
    <2>1. WakesTypeOK'
        BY <1>1, <1>2, WakePasses DEF Wakes, WakeSteps
    <2> QED BY <1>1, <1>2, <2>1, Untouched DEF Wakes, TypeOK
<1>3. CASE HandsOver
    <2>1. WakesTypeOK'
        BY <1>1, <1>3, WakePasses DEF HandsOver, WakeSteps
    <2>2. counted' \in SUBSET Tasks /\ pending' \in Nat
        BY <1>1, <1>3, PayingBack DEF HandsOver
    <2>3. TasksTypeOK'
        BY <1>1, <1>3, <2>2 DEF HandsOver, TypeOK, TasksTypeOK
    <2> QED BY <1>1, <1>3, <2>1, <2>3, Untouched DEF HandsOver, TypeOK
<1>4. CASE WokenTurnEnds
    <2>1. WakesTypeOK'
        BY <1>1, <1>4, WakePasses DEF WokenTurnEnds, WakeSteps
    <2>2. counted' \in SUBSET Tasks /\ pending' \in Nat
        BY <1>1, <1>4, PayingBack DEF WokenTurnEnds
    <2>3. TasksTypeOK'
        BY <1>1, <1>4, <2>2 DEF WokenTurnEnds, TypeOK, TasksTypeOK
    <2> QED BY <1>1, <1>4, <2>1, <2>3, Untouched DEF WokenTurnEnds, TypeOK
<1> QED BY <1>2, <1>3, <1>4

LEMMA TurnTypes ==
    ASSUME Inv, Turns
    PROVE  TypeOK'
<1>1. TypeOK
    BY DEF Inv, TasksInv
<1>2. WakesTypeOK'
    BY <1>1, TaskWakesAssumption DEF Turns, UserStarts, TurnEnds, TypeOK, WakesTypeOK, TurnStates, NoTurn
<1> QED BY <1>1, <1>2, Untouched DEF Turns, TypeOK

\* A running task is nobody's yet.
LEMMA RunningIsFree ==
    ASSUME Inv, NEW t \in Tasks, status[t] = "running"
    PROVE  ~Queued(t) /\ t \in Notices /\ t \notin claimed /\ t \notin due /\ heard[t] = 0
BY Kinds DEF Inv, TasksInv, Fine, Placed

LEMMA CompletionTypes ==
    ASSUME Inv, NEW t \in Tasks, LeftToWaiter(t) \/ IntoMailbox(t) \/ WakesItsParent(t),
           UNCHANGED watchVars
    PROVE  TypeOK' /\ QueueApart'
<1>1. TypeOK /\ QueueApart /\ Settles(t) /\ ~Queued(t) /\ t \in Notices
    BY RunningIsFree DEF Inv, TasksInv, LeftToWaiter, IntoMailbox, WakesItsParent, Settles
<1>2. heard' \in [Notices -> 0..2] /\ wake' \in WakeStates /\ QueueApart'
    <2>1. CASE LeftToWaiter(t)
        BY <1>1, <2>1 DEF LeftToWaiter, TypeOK, WakesTypeOK, QueueApart
    <2>2. CASE IntoMailbox(t)
        BY <1>1, <2>2, Hearing DEF IntoMailbox, TypeOK, WakesTypeOK, QueueApart
    <2>3. CASE WakesItsParent(t)
        BY <1>1, <2>3, Waking DEF WakesItsParent
    <2> QED BY <2>1, <2>2, <2>3
<1>3. counted' \in SUBSET Tasks /\ pending' \in Nat
    <2>1. CASE PaysBack({t})
        BY <1>1, <2>1, PayingBack
    <2>2. CASE UNCHANGED <<counted, pending>>
        BY <1>1, <2>2 DEF TypeOK, TasksTypeOK
    <2> QED BY <2>1, <2>2 DEF LeftToWaiter, IntoMailbox, WakesItsParent
<1>4. WakesTypeOK'
    BY <1>1, <1>2 DEF Settles, TypeOK, WakesTypeOK
<1>5. TasksTypeOK'
    BY <1>1, <1>3 DEF Settles, TypeOK, TasksTypeOK
<1> QED BY <1>1, <1>2, <1>4, <1>5, Untouched DEF TypeOK

LEMMA CallTypes ==
    ASSUME Inv, Calls
    PROVE  TypeOK'
<1>1. TypeOK /\ UNCHANGED watchVars
    BY DEF Inv, TasksInv, Calls
<1>2. ASSUME NEW t \in Tasks, Dispatch(t) PROVE TypeOK'
    <2>1. TasksTypeOK'
        BY <1>1, <1>2 DEF Dispatch, TypeOK, TasksTypeOK
    <2> QED BY <1>1, <1>2, <2>1, Untouched DEF Dispatch, TypeOK
<1>3. ASSUME NEW t \in Tasks, Cancel(t) PROVE TypeOK'
    <2>1. TasksTypeOK'
        BY <1>1, <1>3 DEF Cancel, TypeOK, TasksTypeOK
    <2> QED BY <1>1, <1>3, <2>1, Untouched DEF Cancel, TypeOK
<1>4. ASSUME NEW S \in SUBSET Tasks, WaitBegins(S) PROVE TypeOK'
    <2>1. TasksTypeOK'
        BY <1>1, <1>4, AsyncTasksAssumption DEF WaitBegins, Stamps, Running, In, TypeOK, TasksTypeOK
    <2> QED BY <1>1, <1>4, <2>1, Untouched DEF WaitBegins, TypeOK
<1> QED BY <1>1, <1>2, <1>3, <1>4, CompletionTypes DEF Calls

LEMMA StepTypes ==
    ASSUME Inv, TaskSteps
    PROVE  TypeOK'
<1>1. TypeOK /\ UNCHANGED <<watchVars, crashes>>
    BY DEF Inv, TasksInv, TaskSteps
<1>2. ASSUME NEW t \in Tasks, Claims(t) PROVE TypeOK'
    <2>1. WakesTypeOK'
        BY <1>1, <1>2, Failing DEF Claims, TypeOK, WakesTypeOK
    <2>2. TasksTypeOK'
        BY <1>1, <1>2 DEF Claims, TypeOK, TasksTypeOK
    <2> QED BY <1>1, <2>1, <2>2, Untouched DEF TypeOK
<1>3. ASSUME NEW t \in Tasks, Reports(t) PROVE TypeOK'
    <2>1. WakesTypeOK'
        BY <1>1, <1>3, Failing, Hearing, Kinds DEF Reports, TypeOK, WakesTypeOK
    <2>2. TasksTypeOK'
        BY <1>1, <1>3 DEF Reports, TypeOK, TasksTypeOK
    <2> QED BY <1>1, <2>1, <2>2, Untouched DEF TypeOK
<1>4. ASSUME NEW t \in Tasks, NEW op \in Ops, WriteLands(t, op) PROVE TypeOK'
    <2>1. WakesTypeOK'
        BY <1>1, <1>4, Failing DEF WriteLands, TypeOK, WakesTypeOK
    <2>2. TasksTypeOK'
        BY <1>1, <1>4 DEF WriteLands, After, Ops, TypeOK, TasksTypeOK
    <2> QED BY <1>1, <2>1, <2>2, Untouched DEF TypeOK
<1>5. CASE WaitEnds
    <2>1. WakesTypeOK'
        BY <1>1, <1>5, Hearing DEF WaitEnds, TypeOK, WakesTypeOK
    <2>2. TasksTypeOK'
        BY <1>1, <1>5 DEF WaitEnds, Unstamps, Marks, Running, In, TypeOK, TasksTypeOK
    <2> QED BY <1>1, <2>1, <2>2, Untouched DEF TypeOK
<1>6. CASE TurnOpens
    <2>1. WakesTypeOK'
        BY <1>1, <1>6, Hearing DEF TurnOpens, Opens, TypeOK, WakesTypeOK, TurnStates
    <2>2. TasksTypeOK'
        BY <1>1, <1>6 DEF TurnOpens, TypeOK, TasksTypeOK
    <2> QED BY <1>1, <2>1, <2>2, Untouched DEF TypeOK
<1>7. CASE Seals
    <2>1. WakesTypeOK'
        BY <1>1, <1>7 DEF Seals, TypeOK, WakesTypeOK, TurnStates
    <2>2. TasksTypeOK'
        BY <1>1, <1>7 DEF Seals, TypeOK, TasksTypeOK
    <2> QED BY <1>1, <2>1, <2>2, Untouched DEF TypeOK
<1>8. CASE Counts
    <2>1. WakesTypeOK'
        BY <1>1, <1>8, Failing DEF Counts, TypeOK, WakesTypeOK, TurnStates
    <2>2. TasksTypeOK'
        BY <1>1, <1>8 DEF Counts, Running, In, TypeOK, TasksTypeOK
    <2> QED BY <1>1, <2>1, <2>2, Untouched DEF TypeOK
<1>9. CASE TurnFails
    <2>1. WakesTypeOK'
        BY <1>1, <1>9, Kinds DEF TurnFails, TypeOK, WakesTypeOK, TasksTypeOK, TurnStates
    <2>2. TasksTypeOK'
        BY <1>1, <1>9 DEF TurnFails, TypeOK, TasksTypeOK
    <2> QED BY <1>1, <2>1, <2>2, Untouched DEF TypeOK
<1>10. CASE Redrives
    <2>1. WakesTypeOK'
        BY <1>1, <1>10, Failing, Kinds DEF Redrives, TypeOK, WakesTypeOK, TasksTypeOK, TurnStates
    <2>2. TasksTypeOK'
        BY <1>1, <1>10 DEF Redrives, TypeOK, TasksTypeOK
    <2> QED BY <1>1, <2>1, <2>2, Untouched DEF TypeOK
<1> QED BY <1>1, <1>2, <1>3, <1>4, <1>5, <1>6, <1>7, <1>8, <1>9, <1>10 DEF TaskSteps, Ops

\* A frame the watcher has still to handle is nobody's, and a notice.
LEMMA NextFrame ==
    ASSUME Inv, Frame <= events \/ Exits
    PROVE  /\ Frame \in Frames /\ Frame \in Notices /\ Frame \in 0..(MaxSeq + 1)
           /\ watch = "following" => ~Queued(Frame)
<1>1. last \in 0..(MaxSeq + 1) /\ events \in 0..MaxSeq /\ MaxSeq \in Nat
    BY TaskWakesAssumption DEF Inv, FramesInv, TypeOK, WatchTypeOK
<1>2. Frame \in Frames
    BY <1>1 DEF Frame, Exits, Frames
<1> QED BY <1>1, <1>2 DEF Inv, FramesInv, Watched, OneQueued, Frames, Notices

LEMMA WorkspaceTypes ==
    ASSUME Inv, Workspace
    PROVE  TypeOK'
<1>1. TypeOK /\ UNCHANGED taskVars /\ UNCHANGED wakeVars /\ MaxSeq \in Nat
    BY TaskWakesAssumption DEF Inv, TasksInv, Workspace, Watches, Emits, EndsItself, IsLost, Stops
<1>2. ASSUME IsLost PROVE events' \in 0..MaxSeq
    <2>1. last \in 0..(MaxSeq + 1) /\ events \in 0..MaxSeq
        BY <1>1 DEF TypeOK, WatchTypeOK
    <2>2. CASE watch = "following"
        BY <1>1, <1>2, <2>1, <2>2 DEF IsLost, Inv, FramesInv, Watched, Behind
    <2>3. CASE watch \in {"handing", "saving"}
        BY <1>1, <1>2, <2>1, <2>3 DEF IsLost, Inv, FramesInv, Watched, AtFrame, Exits, Frame
    <2> QED BY <1>2, <2>2, <2>3 DEF IsLost, Following
<1>3. WatchTypeOK'
    <2>1. CASE Watches
        BY <1>1, <2>1 DEF Watches, TypeOK, WatchTypeOK
    <2>2. CASE Emits
        BY <1>1, <2>2 DEF Emits, TypeOK, WatchTypeOK
    <2>3. CASE EndsItself
        BY <1>1, <2>3 DEF EndsItself, TypeOK, WatchTypeOK
    <2>4. CASE IsLost
        BY <1>1, <1>2, <2>4 DEF IsLost, TypeOK, WatchTypeOK
    <2>5. CASE Stops
        BY <1>1, <2>5 DEF Stops, TypeOK, WatchTypeOK
    <2> QED BY <2>1, <2>2, <2>3, <2>4, <2>5 DEF Workspace
<1> QED BY <1>1, <1>3, Untouched DEF TypeOK

LEMMA WatchTypes ==
    ASSUME Inv, WatchSteps
    PROVE  TypeOK' /\ QueueApart'
<1>1. TypeOK /\ QueueApart /\ UNCHANGED taskVars
    BY DEF Inv, TasksInv, WatchSteps
<1>2. CASE Recorded
    <2>1. WakesTypeOK' /\ QueueApart'
        BY <1>1, <1>2, Failing DEF Recorded, TypeOK, WakesTypeOK, QueueApart
    <2>2. WatchTypeOK'
        BY <1>1, <1>2 DEF Recorded, TypeOK, WatchTypeOK
    <2> QED BY <1>1, <2>1, <2>2, Untouched DEF TypeOK
<1>3. CASE Handles
    <2>0. Frame \in Notices /\ ~Queued(Frame)
        BY <1>3, NextFrame DEF Handles
    <2>1. heard' \in [Notices -> 0..2] /\ wake' \in WakeStates /\ QueueApart'
        <3>1. CASE UNCHANGED <<heard, wake>>
            BY <1>1, <3>1 DEF TypeOK, WakesTypeOK, QueueApart
        <3>2. CASE Hears({Frame}) /\ UNCHANGED wake
            BY <1>1, <3>2, Hearing DEF TypeOK, WakesTypeOK, QueueApart
        <3>3. CASE WakesFor(Frame)
            BY <1>1, <2>0, <3>3, Waking
        <3> QED BY <1>3, <3>1, <3>2, <3>3 DEF Handles
    <2>2. WakesTypeOK'
        BY <1>1, <1>3, <2>1 DEF Handles, TypeOK, WakesTypeOK
    <2>3. WatchTypeOK'
        BY <1>1, <1>3 DEF Handles, TypeOK, WatchTypeOK
    <2> QED BY <1>1, <2>1, <2>2, <2>3, Untouched DEF TypeOK
<1>4. CASE HandsOn
    BY <1>1, <1>4, Untouched DEF HandsOn, TypeOK, WatchTypeOK, wakeVars, QueueApart
<1>5. CASE Saves
    <2>0. Frame \in 0..(MaxSeq + 1)
        BY <1>5, NextFrame DEF Saves, Inv, FramesInv, Watched, AtFrame
    <2>1. WakesTypeOK' /\ QueueApart'
        BY <1>1, <1>5, Failing DEF Saves, TypeOK, WakesTypeOK, QueueApart
    <2>2. WatchTypeOK'
        BY <1>1, <1>5, <2>0, TaskWakesAssumption DEF Saves, TypeOK, WatchTypeOK
    <2> QED BY <1>1, <2>1, <2>2, Untouched DEF TypeOK
<1>6. CASE StopLands
    <2>1. WakesTypeOK' /\ QueueApart'
        BY <1>1, <1>6, Failing DEF StopLands, TypeOK, WakesTypeOK, QueueApart
    <2>2. WatchTypeOK'
        BY <1>1, <1>6 DEF StopLands, TypeOK, WatchTypeOK
    <2> QED BY <1>1, <2>1, <2>2, Untouched DEF TypeOK
<1> QED BY <1>2, <1>3, <1>4, <1>5, <1>6 DEF WatchSteps

LEMMA CrashTypes ==
    ASSUME Inv, Crash \/ Boot
    PROVE  TypeOK'
<1>1. TypeOK
    BY DEF Inv, TasksInv
<1>2. CASE Crash
    <2>1. WakesTypeOK'
        BY <1>1, <1>2 DEF Crash, NoWake, TypeOK, WakesTypeOK, TurnStates, WakeStates
    <2>2. TasksTypeOK'
        <3>1. TasksCrash /\ TasksTypeOK
            BY <1>1, <1>2 DEF Crash, TypeOK
        <3>2. status' \in [Tasks -> {"none", "running", "done", "cancelled", "past"}]
            BY <3>1 DEF TasksCrash, TasksTypeOK
        <3>3. slips' \subseteq Tasks /\ lost' \subseteq Tasks
            BY <3>1 DEF TasksCrash, TasksTypeOK
        <3>4. /\ waits' \in 0..MaxWait /\ pending' \in Nat /\ asked' \subseteq Tasks
              /\ record' \in [Tasks -> {"none", "running", "settled", "delivered"}]
            BY <3>1 DEF TasksCrash, TasksTypeOK
        <3>5. /\ stamped' \subseteq Tasks /\ waiting' \subseteq Tasks /\ marked' \subseteq Tasks
              /\ counted' \subseteq Tasks /\ due' \subseteq Tasks /\ claimed' \subseteq Tasks
            BY <3>1 DEF TasksCrash
        <3>6. dispatched' = {} /\ delta' = 0 /\ resume' = FALSE
            BY <3>1 DEF TasksCrash
        <3>7. writes' \subseteq Tasks \X {"started", "settled", "delivered"}
            BY <3>1, Zenon DEF TasksCrash
        <3>8. dispatched' \subseteq {"default", "detached"} /\ delta' \in 0..1
            BY <3>6
        <3>9. resume' \in BOOLEAN
            BY <3>6, Zenon
        <3> QED BY <3>2, <3>3, <3>4, <3>5, <3>7, <3>8, <3>9, Zenon DEF TasksTypeOK
    <2>3. WatchTypeOK'
        BY <1>1, <1>2 DEF Crash, WatchCrash, TypeOK, WatchTypeOK
    <2> QED BY <2>1, <2>2, <2>3 DEF TypeOK
<1>3. CASE Boot
    <2>1. WakesTypeOK'
        BY <1>1, <1>3 DEF Boot, NoTurn, TypeOK, WakesTypeOK, TurnStates
    <2>2. TasksTypeOK'
        <3>1. PICK again \in {FALSE, turn.by = "cut"} : TasksBoot(again)
            BY <1>3 DEF Boot
        <3>2. again \in BOOLEAN
            BY <3>1
        <3> QED BY <1>1, <3>1, <3>2 DEF TasksBoot, Undelivered, TypeOK, TasksTypeOK
    <2>3. WatchTypeOK'
        BY <1>1, <1>3 DEF Boot, WatchBoot, Reattached, TypeOK, WatchTypeOK
    <2> QED BY <2>1, <2>2, <2>3 DEF TypeOK
<1> QED BY <1>2, <1>3

-----------------------------------------------------------------------------
(* The tasks, over a step *)

TasksKept ==
    /\ QueueApart' /\ failed \subseteq failed'
    /\ \A k \in Frames : Passes(k)
    /\ \A t \in Tasks : Fine(t)'

\* A step that leaves the wake and what was heard alone passes no notice on.
LEMMA Still ==
    ASSUME Inv, UNCHANGED <<wake, heard>>
    PROVE  QueueApart' /\ \A n \in Notices : Passes(n)
BY DEF Inv, TasksInv, QueueApart, Passes, Queued

\* So does one after which only these were heard.
LEMMA Heard ==
    ASSUME Inv, NEW S, Hears(S), wake' = wake
    PROVE  /\ QueueApart'
           /\ \A n \in Notices : Queued(n)' <=> Queued(n)
           /\ \A n \in Notices : n \notin S => Passes(n)
           /\ \A n \in Notices : n \in S => heard'[n] = Up(heard[n])
BY Hearing DEF Inv, TasksInv, QueueApart, Passes, Queued

\* Tasks a step does not concern keep their part of the invariant.
LEMMA OthersStand ==
    ASSUME Inv, NEW S \in SUBSET Tasks, failed \subseteq failed', QueueApart',
           \A k \in Frames : Passes(k),
           \A u \in Tasks \ S : Passes(u) /\ Same(u),
           \A t \in S : Fine(t)'
    PROVE  TasksKept
<1>1. ASSUME NEW t \in Tasks, t \notin S PROVE Fine(t)'
    BY <1>1, TaskStands DEF Inv, TasksInv
<1> QED BY <1>1 DEF TasksKept

LEMMA OtherStands ==
    ASSUME Inv, NEW t \in Tasks, failed \subseteq failed', QueueApart',
           \A n \in Notices : n # t => Passes(n),
           \A u \in Tasks \ {t} : Same(u), Fine(t)'
    PROVE  TasksKept
<1>1. /\ {t} \in SUBSET Tasks /\ \A k \in Frames : Passes(k)
      /\ \A u \in Tasks \ {t} : Passes(u) /\ Same(u)
    BY Kinds
<1>2. \A u \in {t} : Fine(u)'
    OBVIOUS
<1> QED BY <1>1, <1>2, OthersStand

LEMMA DispatchKeeps == ASSUME Inv, NEW t \in Tasks, Dispatch(t) PROVE TasksKept
<1>1. TypeOK /\ Fine(t) /\ UNCHANGED <<wake, heard, turn, failed>>
    BY DEF Inv, TasksInv, Dispatch, wakeVars
<1>2. QueueApart' /\ (\A n \in Notices : Passes(n)) /\ (Queued(t)' <=> Queued(t))
    BY <1>1, Still DEF Queued
<1>3. \A u \in Tasks \ {t} : Same(u)
    BY <1>1 DEF Dispatch, Same, Clean, TypeOK, TasksTypeOK, Ops
<1>4. Fine(t)'
    <2>1. Placed(t)'
        BY <1>1, <1>2 DEF Dispatch, Fine, Placed, TypeOK, TasksTypeOK, Ops, Open
    <2>2. Once(t)'
        BY <1>1, <1>2 DEF Dispatch, Fine, Placed, Once, Clean, TypeOK, TasksTypeOK, Ops
    <2> QED BY <1>1, <2>1, <2>2 DEF Dispatch, Fine, Kept, TypeOK, TasksTypeOK
<1> QED BY <1>1, <1>2, <1>3, <1>4, OtherStands

LEMMA CancelKeeps == ASSUME Inv, NEW t \in Tasks, Cancel(t) PROVE TasksKept
<1>1. TypeOK /\ Fine(t) /\ UNCHANGED <<wake, heard, turn, failed>>
    BY DEF Inv, TasksInv, Cancel, wakeVars
<1>2. QueueApart' /\ (\A n \in Notices : Passes(n)) /\ (Queued(t)' <=> Queued(t))
    BY <1>1, Still DEF Queued
<1>3. \A u \in Tasks \ {t} : Same(u)
    BY <1>1 DEF Cancel, Same, Clean, TypeOK, TasksTypeOK, Ops
<1>4. Fine(t)'
    <2>1. Placed(t)'
        BY <1>1, <1>2 DEF Cancel, Fine, Placed, TypeOK, TasksTypeOK, Ops, Open
    <2>2. Once(t)'
        BY <1>1, <1>2 DEF Cancel, Fine, Placed, Once, Clean, TypeOK, TasksTypeOK, Ops
    <2> QED BY <1>1, <2>1, <2>2 DEF Cancel, Fine, Kept, TypeOK, TasksTypeOK
<1> QED BY <1>1, <1>2, <1>3, <1>4, OtherStands

\* A completion leaves its outcome with the waiter, in the mailbox, or to a wake.
LEMMA CompletionKeeps ==
    ASSUME Inv, NEW t \in Tasks, LeftToWaiter(t) \/ IntoMailbox(t) \/ WakesItsParent(t)
    PROVE  TasksKept
<1>1. TypeOK /\ QueueApart /\ Fine(t) /\ Settles(t) /\ failed' = failed /\ turn' = turn
    BY DEF Inv, TasksInv, LeftToWaiter, IntoMailbox, WakesItsParent, Settles
<1>2. ~Queued(t) /\ heard[t] = 0 /\ (t \in stamped <=> t \in waiting) /\ t \notin due \cup claimed
    BY <1>1, RunningIsFree DEF Settles, Fine, Placed
<1>3. \A u \in Tasks \ {t} : Same(u)
    BY <1>1 DEF Settles, Same, Clean, TypeOK, TasksTypeOK, Ops
<1>4. /\ QueueApart' /\ \A n \in Notices \ {t} : Passes(n)
      /\ \/ heard'[t] = 0 /\ ~Queued(t)' /\ t \in waiting
         \/ heard'[t] = 1 /\ ~Queued(t)' /\ t \notin waiting
         \/ heard'[t] = 0 /\ Queued(t)' /\ t \notin waiting
    <2>1. CASE LeftToWaiter(t)
        BY <1>2, <2>1, Still DEF LeftToWaiter, Queued
    <2>2. CASE IntoMailbox(t)
        BY <1>2, <2>2, Heard, Kinds DEF IntoMailbox, Up
    <2>3. CASE WakesItsParent(t)
        BY <1>1, <1>2, <2>3, Waking, Kinds DEF WakesItsParent, Passes, Up
    <2> QED BY <2>1, <2>2, <2>3
<1>5. Fine(t)'
    <2>1. Placed(t)'
        BY <1>1, <1>2, <1>4 DEF Settles, Fine, Placed, TypeOK, TasksTypeOK, Ops
    <2>2. Once(t)'
        BY <1>1, <1>2, <1>4 DEF Settles, Once, Clean, TypeOK, TasksTypeOK
    <2>3. Kept(t)'
        BY <1>1, <1>2, <1>4 DEF Settles, Kept
    <2> QED BY <2>1, <2>2, <2>3 DEF Fine
<1> QED BY <1>1, <1>3, <1>4, <1>5, OtherStands

LEMMA WaitBeginsKeeps == ASSUME Inv, NEW S \in SUBSET Tasks, WaitBegins(S) PROVE TasksKept
<1>1. TypeOK /\ UNCHANGED <<wake, heard, turn, failed>>
    BY DEF Inv, TasksInv, WaitBegins, wakeVars
<1>2. QueueApart' /\ (\A n \in Notices : Passes(n))
    BY <1>1, Still
<1>3. \A u \in Tasks \ S : Same(u)
    BY <1>1 DEF WaitBegins, Stamps, Same, Clean
<1>4. ASSUME NEW t \in S PROVE Fine(t)'
    <2>0. Fine(t) /\ (Queued(t)' <=> Queued(t)) /\ status[t] \in {"running", "done"}
        BY <1>1 DEF Inv, TasksInv, Queued, WaitBegins, Running, In
    <2>1. Placed(t)'
        BY <1>1, <2>0 DEF WaitBegins, Stamps, Running, In, Fine, Placed, Open
    <2>2. Once(t)'
        BY <1>1, <2>0 DEF WaitBegins, Running, In, Fine, Placed, Once, Clean
    <2> QED BY <1>1, <2>0, <2>1, <2>2 DEF WaitBegins, Fine, Kept
<1> QED BY <1>1, <1>2, <1>3, <1>4, Kinds, OthersStand

LEMMA CallsKeep == ASSUME Inv, Calls PROVE TasksKept
BY DispatchKeeps, CancelKeeps, CompletionKeeps, WaitBeginsKeeps DEF Calls

LEMMA ClaimKeeps == ASSUME Inv, NEW t \in Tasks, Claims(t) PROVE TasksKept
<1>1. TypeOK /\ Fine(t) /\ UNCHANGED <<wake, heard, turn, failed>>
    BY DEF Inv, TasksInv, Claims
<1>2. QueueApart' /\ (\A n \in Notices : Passes(n)) /\ (Queued(t)' <=> Queued(t))
    BY <1>1, Still DEF Queued
<1>3. \A u \in Tasks \ {t} : Same(u)
    BY <1>1 DEF Claims, Same, Clean, TypeOK, TasksTypeOK
<1>4. Fine(t)'
    <2>1. Placed(t)'
        BY <1>1, <1>2 DEF Claims, Fine, Placed, Undelivered, TypeOK, TasksTypeOK, Ops
    <2>2. Once(t)'
        <3>1. heard[t] \in 0..2
            BY <1>1, Kinds DEF TypeOK, WakesTypeOK
        <3> QED BY <1>1, <1>2, <3>1 DEF Claims, Fine, Placed, Once, Clean, Undelivered, TypeOK, TasksTypeOK, Ops
    <2>3. Kept(t)'
        BY <1>1, <1>2 DEF Claims, Fine, Placed, Kept, Undelivered, TypeOK, TasksTypeOK
    <2> QED BY <2>1, <2>2, <2>3 DEF Fine
<1> QED BY <1>1, <1>2, <1>3, <1>4, OtherStands

LEMMA ReportKeeps == ASSUME Inv, NEW t \in Tasks, Reports(t) PROVE TasksKept
<1>1. TypeOK /\ Fine(t) /\ t \in Notices /\ UNCHANGED <<wake, turn>> /\ failed \subseteq failed'
    BY Kinds DEF Inv, TasksInv, Reports
<1>2. \A u \in Tasks \ {t} : Same(u)
    BY <1>1 DEF Reports, Same, Clean
<1>3. /\ QueueApart' /\ (Queued(t)' <=> Queued(t)) /\ \A n \in Notices : n # t => Passes(n)
      /\ heard'[t] = Up(heard[t]) \/ (heard'[t] = heard[t] /\ t \in failed')
    <2>1. CASE Hears({t})
        BY <1>1, <2>1, Heard
    <2>2. CASE failed' = failed \cup {t} /\ UNCHANGED heard
        BY <1>1, <2>2, Still DEF Queued
    <2> QED BY <2>1, <2>2 DEF Reports
<1>4. Fine(t)'
    <2>0. heard[t] \in 0..2
        BY <1>1 DEF TypeOK, WakesTypeOK
    <2>1. Placed(t)'
        BY <1>1, <1>3, <2>0 DEF Reports, Fine, Placed, Ops, Up
    <2>2. Once(t)'
        BY <1>1, <1>3, <2>0 DEF Reports, Fine, Placed, Once, Clean, Up
    <2>3. Kept(t)'
        BY <1>1, <1>3, <2>0 DEF Kept, Up
    <2> QED BY <2>1, <2>2, <2>3 DEF Fine
<1> QED BY <1>1, <1>2, <1>3, <1>4, OtherStands

LEMMA WriteKeeps == ASSUME Inv, NEW t \in Tasks, NEW op \in Ops, WriteLands(t, op) PROVE TasksKept
<1>1. TypeOK /\ Fine(t) /\ UNCHANGED <<wake, heard, turn, failed>>
    BY DEF Inv, TasksInv, WriteLands
<1>2. QueueApart' /\ (\A n \in Notices : Passes(n)) /\ (Queued(t)' <=> Queued(t))
    BY <1>1, Still DEF Queued
<1>3. \A u \in Tasks \ {t} : Same(u)
    BY <1>1 DEF WriteLands, Same, Clean, TypeOK, TasksTypeOK
<1>4. Fine(t)'
    <2>0. /\ record[t] \in {"none", "running", "settled", "delivered"}
          /\ record'[t] = record[t] \/ record'[t] = After(t, op)
          /\ \A o \in Ops : <<t, o>> \in writes' <=> <<t, o>> \in writes /\ o # op
          /\ <<t, op>> \in writes /\ op \in {"started", "settled", "delivered"}
        BY <1>1 DEF WriteLands, TypeOK, TasksTypeOK, Ops
    <2>1. Placed(t)'
        BY <1>1, <1>2, <2>0 DEF WriteLands, After, Fine, Placed, Ops
    <2>2. Once(t)'
        BY <1>1, <1>2, <2>0 DEF WriteLands, After, Fine, Placed, Once, Clean, TypeOK, TasksTypeOK, Ops
    <2>3. Kept(t)'
        BY <1>1, <1>2, <2>0 DEF WriteLands, Fine, Placed, Kept, Ops
    <2> QED BY <2>1, <2>2, <2>3 DEF Fine
<1> QED BY <1>1, <1>2, <1>3, <1>4, OtherStands

LEMMA WaitEndsKeeps == ASSUME Inv, WaitEnds PROVE TasksKept
<1>1. /\ TypeOK /\ UNCHANGED <<wake, turn, failed>> /\ waiting \subseteq Tasks
      /\ Hears(waiting \cap In("done")) /\ waiting \cap In("done") \subseteq Tasks
    BY DEF Inv, TasksInv, WaitEnds, TypeOK, TasksTypeOK
<1>2. /\ QueueApart' /\ \A k \in Frames : Passes(k)
      /\ \A u \in Tasks : Queued(u)' <=> Queued(u)
      /\ \A u \in Tasks \ waiting : Passes(u)
      /\ \A t \in waiting : heard'[t] = IF status[t] = "done" THEN Up(heard[t]) ELSE heard[t]
    <2>1. Hears(waiting \cap In("done")) /\ wake' = wake
        BY <1>1
    <2>2. \A n \in Notices : heard'[n] = IF n \in waiting \cap In("done") THEN Up(heard[n]) ELSE heard[n]
        BY <1>1, <2>1, Hearing
    <2> QED BY <1>1, <2>1, <2>2, Heard, Kinds DEF In
<1>3. \A u \in Tasks \ waiting : Same(u)
    BY <1>1 DEF WaitEnds, Unstamps, Marks, Same, Clean, Ops
<1>4. ASSUME NEW t \in waiting PROVE Fine(t)'
    <2>0. /\ Fine(t) /\ t \in Tasks /\ heard[t] \in 0..2 /\ turn.at # "down"
          /\ status[t] \in {"running", "done", "cancelled"}
          /\ \A op \in Ops : <<t, op>> \in writes' <=>
                 <<t, op>> \in writes \/ (op = "delivered" /\ t \notin marked /\ status[t] # "running")
        BY <1>1, Kinds DEF Inv, TasksInv, WaitEnds, Marks, Running, In, Fine, Placed, TypeOK, WakesTypeOK, Ops
    <2>1. Placed(t)'
        BY <1>1, <1>2, <2>0 DEF WaitEnds, Unstamps, Running, In, Fine, Placed, Up, Ops
    <2>2. Once(t)'
        BY <1>1, <1>2, <2>0 DEF WaitEnds, Fine, Placed, Once, Clean, Up, Ops
    <2>3. Kept(t)'
        BY <1>1, <1>2, <2>0 DEF WaitEnds, Fine, Placed, Kept, Up
    <2> QED BY <2>1, <2>2, <2>3 DEF Fine
<1> QED BY <1>1, <1>2, <1>3, <1>4, OthersStand

\* What a restart took for its report goes with the turn it drives, or is lost
\* with it.
LEMMA TakenAlong ==
    ASSUME Inv, UNCHANGED <<wake, status, stamped, waiting, record, writes, due, asked, slips, lost>>,
           turn'.at # "down", claimed' = {}, failed \subseteq failed',
           Hears(claimed) \/ (UNCHANGED heard /\ claimed \subseteq failed')
    PROVE  TasksKept
<1>1. TypeOK /\ claimed \in SUBSET Tasks
    BY DEF Inv, TasksInv, TypeOK, TasksTypeOK
<1>2. /\ QueueApart' /\ \A k \in Frames : Passes(k)
      /\ \A u \in Tasks : Queued(u)' <=> Queued(u)
      /\ \A u \in Tasks \ claimed : Passes(u)
      /\ \A t \in claimed : heard'[t] = Up(heard[t]) \/ (heard'[t] = heard[t] /\ t \in failed')
    <2>1. CASE Hears(claimed)
        BY <1>1, <2>1, Heard, Kinds
    <2>2. CASE UNCHANGED heard /\ claimed \subseteq failed'
        BY <1>1, <2>2, Still, Kinds DEF Queued
    <2> QED BY <2>1, <2>2
<1>3. \A u \in Tasks \ claimed : Same(u)
    BY DEF Same, Clean
<1>4. ASSUME NEW t \in claimed PROVE Fine(t)'
    <2>0. Fine(t) /\ t \in Tasks /\ heard[t] \in 0..2
        BY <1>1, Kinds DEF Inv, TasksInv, TypeOK, WakesTypeOK
    <2>1. Placed(t)'
        BY <1>2, <2>0 DEF Fine, Placed, Ops
    <2>2. Once(t)'
        BY <1>2, <2>0 DEF Fine, Placed, Once, Clean, Up
    <2>3. Kept(t)'
        BY <1>2, <2>0 DEF Fine, Placed, Kept, Up
    <2> QED BY <2>1, <2>2, <2>3 DEF Fine
<1> QED BY <1>1, <1>2, <1>3, <1>4, OthersStand

\* A step that moves only the turn, the counts or the wake's hands.
LEMMA NoneConcerned ==
    ASSUME Inv, failed \subseteq failed', QueueApart', \A n \in Notices : Passes(n),
           UNCHANGED <<status, stamped, waiting, record, writes, due, claimed, asked, slips, lost>>,
           turn'.at = "down" => turn.at = "down"
    PROVE  TasksKept
<1>1. \A t \in Tasks : Passes(t) /\ Same(t)
    BY Kinds DEF Same, Clean
<1> QED BY <1>1, Kinds, TaskStands DEF Inv, TasksInv, TasksKept

LEMMA StepsKeep == ASSUME Inv, TaskSteps PROVE TasksKept
<1>0. TypeOK /\ turn \in TurnStates
    BY DEF Inv, TasksInv, TypeOK, WakesTypeOK
<1>1. CASE TurnOpens
    <2>1. turn'.at = "open" /\ failed' = failed /\ wake' = wake
        BY <1>0, <1>1 DEF TurnOpens, TurnStates
    <2>2. CASE turn.by = "redriven"
        BY <1>1, <2>1, <2>2, TakenAlong DEF TurnOpens
    <2>3. CASE turn.by # "redriven"
        BY <1>1, <2>1, <2>3, Still, NoneConcerned DEF TurnOpens
    <2> QED BY <2>2, <2>3
<1>2. CASE Seals
    <2>1. turn'.at = "sealed"
        BY <1>0, <1>2 DEF Seals, TurnStates
    <2> QED BY <1>2, <2>1, Still, NoneConcerned DEF Seals
<1>3. CASE Counts
    <2>1. turn'.at = "ending"
        BY <1>0, <1>3 DEF Counts, TurnStates
    <2> QED BY <1>3, <2>1, Still, NoneConcerned DEF Counts
<1>4. CASE TurnFails
    <2>1. turn'.at = "ending" /\ UNCHANGED <<wake, heard>>
        BY <1>0, <1>4 DEF TurnFails, TurnStates
    <2>2. CASE turn.by = "redriven" /\ Opens
        BY <1>4, <2>1, <2>2, TakenAlong DEF TurnFails
    <2>3. CASE ~(turn.by = "redriven" /\ Opens)
        BY <1>4, <2>1, <2>3, Still, NoneConcerned DEF TurnFails
    <2> QED BY <2>2, <2>3
<1>5. CASE Redrives
    <2>1. turn'.at # "down" /\ UNCHANGED <<wake, heard>>
        BY <1>5 DEF Redrives
    <2>2. CASE UNCHANGED <<failed, claimed, faults>>
        BY <1>5, <2>1, <2>2, Still, NoneConcerned DEF Redrives
    <2>3. CASE failed' = failed \cup claimed /\ claimed' = {}
        BY <1>5, <2>1, <2>3, TakenAlong DEF Redrives
    <2> QED BY <1>5, <2>2, <2>3 DEF Redrives
<1> QED BY <1>1, <1>2, <1>3, <1>4, <1>5, ClaimKeeps, ReportKeeps, WriteKeeps, WaitEndsKeeps DEF TaskSteps, Ops

LEMMA WakesKeep == ASSUME Inv, Wakes \/ HandsOver \/ WokenTurnEnds PROVE TasksKept
<1>1. TypeOK /\ QueueApart /\ WakeSteps
    BY DEF Inv, TasksInv, Wakes, HandsOver, WokenTurnEnds, WakeSteps
<1>2. QueueApart' /\ failed \subseteq failed' /\ \A n \in Notices : Passes(n)
    BY <1>1, WakePasses
<1>3. turn'.at = "down" => turn.at = "down"
    BY <1>1 DEF WakeSteps, WakeLosesIt, WakeWaits, WakeTakesOver, WakeAppends, WakeRequests, WakeHandsOver,
                WakeEnds, NoTurn
<1>4. UNCHANGED <<status, stamped, waiting, record, writes, due, claimed, asked, slips, lost>>
    BY DEF Wakes, HandsOver, WokenTurnEnds, taskVars
<1> QED BY <1>2, <1>3, <1>4, NoneConcerned

LEMMA TurnsKeep == ASSUME Inv, Turns PROVE TasksKept
<1>1. /\ UNCHANGED <<wake, heard, failed>>
      /\ UNCHANGED <<status, stamped, waiting, record, writes, due, claimed, asked, slips, lost>>
      /\ turn'.at # "down"
    BY DEF Turns, UserStarts, TurnEnds, NoTurn, taskVars
<1> QED BY <1>1, Still, NoneConcerned

\* Every step but the watcher's, the workspace's, a crash and a boot.
LEMMA FramesWait ==
    ASSUME Inv, TypeOK', TasksKept, UNCHANGED watchVars
    PROVE  Inv'
<1>1. Watched' /\ FramesInOrder'
    BY FramesStand DEF Inv, TasksKept
<1> QED BY <1>1 DEF Inv, TasksInv, FramesInv, TasksKept

LEMMA RestKeeps ==
    ASSUME Inv, Turns \/ Calls \/ TaskSteps \/ Wakes \/ HandsOver \/ WokenTurnEnds
    PROVE  Inv'
<1>1. UNCHANGED watchVars
    BY DEF Turns, Calls, TaskSteps, Wakes, HandsOver, WokenTurnEnds, watchVars
<1>2. TypeOK'
    BY WakeTypes, TurnTypes, CallTypes, StepTypes
<1>3. TasksKept
    BY WakesKeep, TurnsKeep, CallsKeep, StepsKeep
<1> QED BY <1>1, <1>2, <1>3, FramesWait

-----------------------------------------------------------------------------
(* The frames, over the watcher's and the workspace's steps *)

\* What the proofs below need of the types.
LEMMA FrameFacts ==
    ASSUME Inv
    PROVE  /\ MaxSeq \in Nat /\ events \in 0..MaxSeq
           /\ last \in 0..(MaxSeq + 1) /\ saved \in 0..(MaxSeq + 1) /\ saved <= last
           /\ \A k \in Frames : k \in 1..(MaxSeq + 1) /\ k \in Notices /\ heard[k] \in 0..2
           /\ \A k \in 1..last : k \in Frames
<1>1. TypeOK /\ MaxSeq \in Nat /\ saved <= last
    BY TaskWakesAssumption DEF Inv, FramesInv, Watched, Behind
<1>2. last \in 0..(MaxSeq + 1) /\ saved \in 0..(MaxSeq + 1) /\ events \in 0..MaxSeq
    BY <1>1 DEF TypeOK, WatchTypeOK
<1>3. ASSUME NEW k \in Frames PROVE k \in 1..(MaxSeq + 1) /\ k \in Notices /\ heard[k] \in 0..2
    BY <1>1, <1>3 DEF TypeOK, WakesTypeOK, Frames, Notices
<1>4. \A k \in 1..last : k \in Frames
    BY <1>1, <1>2 DEF Frames
<1> QED BY <1>1, <1>2, <1>3, <1>4

\* The workspace's steps, and the stop's, move the task's end and no notice.
LEMMA WorkspaceKeeps ==
    ASSUME Inv, Workspace
    PROVE  Inv'
<1>1. TypeOK' /\ UNCHANGED taskVars /\ UNCHANGED wakeVars
    BY WorkspaceTypes DEF Workspace, Watches, Emits, EndsItself, IsLost, Stops
<1>2. TasksInv'
    <2>1. QueueApart' /\ \A t \in Tasks : Fine(t)' <=> Fine(t)
        BY <1>1 DEF Inv, TasksInv, wakeVars, taskVars, QueueApart, Fine, Placed, Once, Kept, Queued, Clean
    <2> QED BY <1>1, <2>1 DEF Inv, TasksInv
<1>3. /\ UNCHANGED <<wake, heard, failed, last, saved, onFile, resaid>>
      /\ \A k : Queued(k)' <=> Queued(k)
    BY <1>1 DEF wakeVars, Workspace, Watches, Emits, EndsItself, IsLost, Stops, Queued
<1>4. Watched'
    <2> USE <1>3, FrameFacts DEF Inv, FramesInv, Watched, Frame, Exits
    <2>1. CASE Watches
        <3>1. AtFrame' BY <2>1 DEF Watches, AtFrame, Behind
        <3>2. Behind' BY <2>1 DEF Watches, AtFrame, Behind
        <3>3. OneQueued' BY <2>1 DEF Watches, OneQueued
        <3>4. NoneSkipped' BY <2>1 DEF Watches, NoneSkipped, Behind
        <3>5. NoneAhead' BY <2>1 DEF Watches, NoneAhead
        <3> QED BY <3>1, <3>2, <3>3, <3>4, <3>5
    <2>2. CASE Emits
        <3>1. AtFrame' BY <2>2 DEF Emits, AtFrame, Behind
        <3>2. Behind' BY <2>2 DEF Emits, AtFrame, Behind
        <3>3. OneQueued' BY <2>2 DEF Emits, OneQueued
        <3>4. NoneSkipped' BY <2>2 DEF Emits, NoneSkipped, Behind
        <3>5. NoneAhead' BY <2>2 DEF Emits, NoneAhead
        <3> QED BY <3>1, <3>2, <3>3, <3>4, <3>5
    <2>3. CASE EndsItself
        <3>1. AtFrame' BY <2>3 DEF EndsItself, AtFrame, Behind
        <3>2. Behind' BY <2>3 DEF EndsItself, AtFrame, Behind
        <3>3. OneQueued' BY <2>3 DEF EndsItself, OneQueued
        <3>4. NoneSkipped' BY <2>3 DEF EndsItself, NoneSkipped, Behind
        <3>5. NoneAhead' BY <2>3 DEF EndsItself, NoneAhead
        <3> QED BY <3>1, <3>2, <3>3, <3>4, <3>5
    <2>4. CASE IsLost
        <3>1. AtFrame' BY <2>4 DEF IsLost, Following, AtFrame, Behind
        <3>2. Behind' BY <2>4 DEF IsLost, Following, AtFrame, Behind
        <3>3. OneQueued' BY <2>4 DEF IsLost, Following, OneQueued
        <3>4. NoneSkipped' BY <2>4 DEF IsLost, Following, NoneSkipped, Behind
        <3>5. NoneAhead' BY <2>4 DEF IsLost, Following, NoneAhead
        <3> QED BY <3>1, <3>2, <3>3, <3>4, <3>5
    <2>5. CASE Stops
        <3>1. AtFrame' BY <2>5 DEF Stops, AtFrame, Behind
        <3>2. Behind' BY <2>5 DEF Stops, AtFrame, Behind
        <3>3. OneQueued' BY <2>5 DEF Stops, OneQueued
        <3>4. NoneSkipped' BY <2>5 DEF Stops, NoneSkipped, Behind
        <3>5. NoneAhead' BY <2>5 DEF Stops, NoneAhead
        <3> QED BY <3>1, <3>2, <3>3, <3>4, <3>5
    <2> QED BY <2>1, <2>2, <2>3, <2>4, <2>5 DEF Workspace
<1>5. FramesInOrder'
    BY <1>1, <1>3, <1>4, FrameFacts DEF Inv, FramesInv, FramesInOrder, Watched, Behind, NoneSkipped
<1> QED BY <1>1, <1>2, <1>4, <1>5 DEF Inv, TasksInv, FramesInv

\* Of a frame handed to the conversation, and the others.
LEMMA HandlesFacts ==
    ASSUME Inv, Handles, NEW f, f = Frame
    PROVE  /\ f \in Frames /\ ~Queued(f) /\ \A t \in Tasks : Passes(t)
           /\ \A k \in Frames : k # f => heard'[k] = heard[k] /\ (Queued(k)' <=> Queued(k))
           /\ \/ Silent /\ heard' = heard /\ ~Queued(f)' /\ watch' = "saving"
              \/ watch' \in {"handing", "saving"} /\ heard'[f] = Up(heard[f]) /\ ~Queued(f)'
              \/ watch' = "handing" /\ heard'[f] = heard[f] /\ Queued(f)'
<1>1. /\ TypeOK /\ QueueApart /\ f \in Frames /\ f \in Notices /\ ~Queued(f)
      /\ \A t \in Tasks : t \in Notices /\ t # f
      /\ \A k \in Frames : k \in Notices
    BY NextFrame, Kinds DEF Handles, Inv, TasksInv
<1>2. CASE Silent
    <2>1. heard' = heard /\ wake' = wake /\ watch' = "saving"
        BY <1>2 DEF Handles
    <2>2. \A n : Queued(n)' <=> Queued(n)
        BY <2>1 DEF Queued
    <2> QED BY <1>1, <1>2, <2>1, <2>2 DEF Passes
<1>3. CASE ~Silent /\ Open
    <2>1. Hears({f}) /\ wake' = wake /\ watch' = "saving"
        BY <1>3 DEF Handles
    <2>2. \A n : Queued(n)' <=> Queued(n)
        BY <2>1 DEF Queued
    <2>3. \A n \in Notices : heard'[n] = IF n = f THEN Up(heard[n]) ELSE heard[n]
        BY <1>1, <2>1, Hearing
    <2> QED BY <1>1, <2>1, <2>2, <2>3 DEF Passes
<1>4. CASE ~Silent /\ ~Open
    <2>1. WakesFor(f) /\ watch' = "handing"
        BY <1>4 DEF Handles
    <2>2. /\ \A m \in Notices \ {f} : heard'[m] = heard[m] /\ (Queued(m)' <=> Queued(m))
          /\ \/ heard'[f] = heard[f] /\ Queued(f)'
             \/ heard'[f] = Up(heard[f]) /\ ~Queued(f)'
        BY <1>1, <2>1, Waking
    <2> QED BY <1>1, <2>1, <2>2 DEF Passes
<1> QED BY <1>2, <1>3, <1>4

LEMMA HandlesKeeps == ASSUME Inv, Handles PROVE Watched' /\ FramesInOrder'
<1>0. PICK f : f = Frame
    OBVIOUS
<1>1. /\ watch = "following" /\ (f <= events \/ Exits) /\ f = last + 1 /\ last' = last
      /\ UNCHANGED <<failed, events, end, saved, onFile, resaid>>
      /\ Silent => Exits /\ end = "killed"
    BY <1>0 DEF Handles, Silent, Frame
<1>2. f \in Frames /\ heard[f] \in 0..2 /\ last <= events
    BY <1>0, <1>1, FrameFacts, HandlesFacts DEF Inv, FramesInv, Watched, Behind
<1>3. \A j \in Frames : j < f => heard[j] > 0 \/ j \in failed
    BY <1>1, <1>2, FrameFacts DEF Inv, FramesInv, Watched, NoneSkipped
<1>4. heard[f] = 0 \/ f \in resaid
    BY <1>1, <1>2, FrameFacts DEF Inv, FramesInv, Watched, NoneAhead
<1>5. /\ ~Queued(f) /\ \A k \in Frames : k # f => heard'[k] = heard[k] /\ (Queued(k)' <=> Queued(k))
      /\ \/ Silent /\ heard' = heard /\ ~Queued(f)' /\ watch' = "saving"
         \/ watch' \in {"handing", "saving"} /\ heard'[f] = Up(heard[f]) /\ ~Queued(f)'
         \/ watch' = "handing" /\ heard'[f] = heard[f] /\ Queued(f)'
    BY <1>0, HandlesFacts
<1>6. f = Frame' /\ (Exits' <=> Exits)
    BY <1>0, <1>1 DEF Frame, Exits
<1>7. AtFrame'
    <2>1. CASE Silent /\ heard' = heard /\ ~Queued(f)' /\ watch' = "saving"
        BY <1>1, <1>6, <2>1 DEF AtFrame
    <2>2. CASE watch' \in {"handing", "saving"} /\ heard'[f] = Up(heard[f]) /\ ~Queued(f)'
        BY <1>1, <1>2, <1>6, <2>2 DEF AtFrame, Up
    <2>3. CASE watch' = "handing" /\ heard'[f] = heard[f] /\ Queued(f)'
        BY <1>1, <1>6, <2>3 DEF AtFrame
    <2> QED BY <1>5, <2>1, <2>2, <2>3
<1>8. Behind'
    BY <1>1, <1>2, FrameFacts DEF Inv, FramesInv, Watched, Behind
<1>9. OneQueued'
    BY <1>1, <1>2, <1>4, <1>5, <1>6 DEF Inv, FramesInv, Watched, OneQueued, Up
<1>10. NoneSkipped'
    BY <1>1, <1>2, <1>5, FrameFacts DEF Inv, FramesInv, Watched, NoneSkipped
<1>11. NoneAhead'
    BY <1>1, <1>2, <1>5, <1>6, FrameFacts DEF Inv, FramesInv, Watched, NoneAhead
<1>12. FramesInOrder'
    <2>1. \A k \in Frames : heard'[k] # heard[k] => k = f /\ heard'[k] = Up(heard[k])
        BY <1>5
    <2>2. \A k \in 1..saved' : heard'[k] > 0 \/ k \in failed' \/ (k = events' + 1 /\ end' = "killed")
        BY <1>1, <1>10, FrameFacts DEF NoneSkipped
    <2>3. \A k \in Frames, j \in Frames : j < k /\ heard'[k] > 0 => heard'[j] > 0 \/ j \in failed'
        BY <1>1, <1>2, <1>3, <2>1, FrameFacts DEF Inv, FramesInv, FramesInOrder, Up
    <2>4. \A k \in Frames : heard'[k] > 1 => k \in resaid'
        BY <1>1, <1>4, <2>1, FrameFacts DEF Inv, FramesInv, FramesInOrder, Up
    <2> QED BY <2>2, <2>3, <2>4 DEF FramesInOrder
<1> QED BY <1>7, <1>8, <1>9, <1>10, <1>11, <1>12 DEF Watched

LEMMA WatchKeeps == ASSUME Inv, WatchSteps PROVE Inv'
<1>1. TypeOK' /\ QueueApart'
    BY WatchTypes
<1>2. /\ failed' = failed /\ UNCHANGED taskVars
      /\ turn' = turn /\ \A t \in Tasks : Passes(t)
    <2>1. CASE Handles
        BY <2>1, HandlesFacts DEF Handles, WatchSteps
    <2>2. CASE Recorded \/ HandsOn \/ Saves \/ StopLands
        <3>1. UNCHANGED <<wake, heard, failed, turn>>
            BY <2>2 DEF Recorded, HandsOn, Saves, StopLands, wakeVars
        <3> QED BY <3>1, Still, Kinds DEF WatchSteps
    <2> QED BY <2>1, <2>2 DEF WatchSteps
<1>3. TasksInv'
    <2>1. \A t \in Tasks : Same(t)
        BY <1>2 DEF Same, Clean, taskVars
    <2>2. \A t \in Tasks : Fine(t)'
        BY <1>2, <2>1, TaskStands DEF Inv, TasksInv
    <2> QED BY <1>1, <2>2 DEF TasksInv
<1>4. ASSUME Recorded \/ HandsOn \/ Saves \/ StopLands PROVE Watched' /\ FramesInOrder'
    <2>1. UNCHANGED <<wake, heard, failed, events, resaid>> /\ \A k : Queued(k)' <=> Queued(k)
        BY <1>4 DEF Recorded, HandsOn, Saves, StopLands, wakeVars, Queued
    <2> USE <2>1, FrameFacts DEF Inv, FramesInv, Watched, Frame, Exits
    <2>2. Watched'
        <3>1. CASE Recorded
            BY <3>1 DEF Recorded, AtFrame, Behind, OneQueued, NoneSkipped, NoneAhead
        <3>2. CASE HandsOn
            <4>1. ~Queued(Frame)
                BY <3>2 DEF HandsOn, HandedOver, Queued
            <4> QED BY <3>2, <4>1 DEF HandsOn, AtFrame, Behind, OneQueued, NoneSkipped, NoneAhead
        <3>3. CASE Saves
            <4>1. AtFrame' BY <3>3 DEF Saves, AtFrame
            <4>2. Behind'
                <5>1. onFile \in {"none", "running", "delivered"}
                    BY DEF TypeOK, WatchTypeOK
                <5> QED BY <3>3, <5>1 DEF Saves, AtFrame, Behind
            <4>3. OneQueued' BY <3>3 DEF Saves, OneQueued
            <4>4. NoneSkipped' BY <3>3 DEF Saves, AtFrame, NoneSkipped
            <4>5. NoneAhead' BY <3>3 DEF Saves, NoneAhead
            <4> QED BY <4>1, <4>2, <4>3, <4>4, <4>5
        <3>4. CASE StopLands
            <4>1. AtFrame' BY <3>4 DEF StopLands, AtFrame
            <4>2. Behind' BY <3>4 DEF StopLands, Behind
            <4>3. OneQueued' BY <3>4 DEF StopLands, OneQueued
            <4>4. NoneSkipped' BY <3>4 DEF StopLands, NoneSkipped
            <4>5. NoneAhead' BY <3>4 DEF StopLands, NoneAhead
            <4> QED BY <4>1, <4>2, <4>3, <4>4, <4>5
        <3> QED BY <1>4, <3>1, <3>2, <3>3, <3>4
    <2>3. last' \in 0..(MaxSeq + 1) /\ saved' \in 0..(MaxSeq + 1)
        BY <1>1 DEF TypeOK, WatchTypeOK
    <2>4. FramesInOrder'
        BY <2>2, <2>3 DEF FramesInOrder, Behind, NoneSkipped
    <2> QED BY <2>2, <2>4
<1> QED BY <1>1, <1>3, <1>4, HandlesKeeps DEF WatchSteps, FramesInv, Inv

-----------------------------------------------------------------------------
(* A crash and a boot *)

LEMMA CrashKeeps == ASSUME Inv, Crash PROVE Inv'
<1>1. TypeOK'
    BY CrashTypes
<1>2. TypeOK /\ TasksCrash /\ WatchCrash /\ UNCHANGED <<heard, failed>> /\ turn'.at = "down"
    BY DEF Inv, TasksInv, Crash
<1>3. wake' = NoWake /\ QueueApart' /\ \A n : ~Queued(n)'
    BY DEF Crash, NoWake, QueueApart, Queued
<1>4. ASSUME NEW t \in Tasks PROVE Fine(t)'
    <2>1. /\ Fine(t) /\ heard[t] \in 0..2
          /\ record[t] \in {"none", "running", "settled", "delivered"}
          /\ status[t] \in {"none", "running", "done", "cancelled", "past"}
        BY <1>2, Kinds DEF Inv, TasksInv, TypeOK, WakesTypeOK, TasksTypeOK
    <2>2. /\ status'[t] = IF status[t] \in {"running", "done"} THEN "past" ELSE status[t]
          /\ record'[t] = record[t] /\ heard'[t] = heard[t] /\ asked' = asked
          /\ stamped' = {} /\ waiting' = {} /\ due' = {} /\ claimed' = {} /\ writes' = {}
          /\ t \notin slips' => t \notin slips /\ \A op \in Ops : <<t, op>> \notin writes
          /\ t \notin lost' => record[t] \in {"running", "settled"} \/ heard[t] # 0
                                  \/ status[t] \notin {"running", "done", "past"}
        BY <1>2 DEF TasksCrash, Undelivered, Ops, TypeOK, TasksTypeOK
    <2>3. Placed(t)'
        BY <1>3, <2>1, <2>2 DEF Fine, Placed, Ops
    <2>4. Once(t)'
        BY <1>3, <2>1, <2>2 DEF Fine, Placed, Once, Clean, Ops
    <2>5. Kept(t)'
        BY <2>1, <2>2 DEF Kept
    <2> QED BY <2>3, <2>4, <2>5 DEF Fine
<1>5. /\ last' = saved /\ saved' = saved /\ events' = events /\ onFile' = onFile
      /\ watch' \in {"none", "over", "left"}
      /\ end = "killed" => end' = "killed"
      /\ \A k \in Frames : k > saved /\ heard[k] > 0 => k \in resaid'
      /\ resaid \subseteq resaid'
      /\ watch = "over" /\ onFile = "delivered" => watch' = "over"
    BY <1>2 DEF WatchCrash
<1>6. Watched'
    <2> USE FrameFacts DEF Inv, FramesInv, Watched
    <2>1. AtFrame' BY <1>5 DEF AtFrame
    <2>2. Behind' BY <1>5 DEF Behind
    <2>3. OneQueued' BY <1>3 DEF OneQueued
    <2>4. NoneSkipped' BY <1>2, <1>5 DEF NoneSkipped, Behind
    <2>5. NoneAhead' BY <1>2, <1>5 DEF NoneAhead
    <2> QED BY <2>1, <2>2, <2>3, <2>4, <2>5
<1>7. FramesInOrder'
    BY <1>2, <1>5, <1>6, FrameFacts DEF Inv, FramesInv, FramesInOrder, Watched, Behind, NoneSkipped
<1> QED BY <1>1, <1>3, <1>4, <1>6, <1>7 DEF Inv, TasksInv, FramesInv

LEMMA BootKeeps == ASSUME Inv, Boot PROVE Inv'
<1>1. TypeOK'
    BY CrashTypes
<1>2. /\ TypeOK /\ WatchBoot /\ UNCHANGED <<wake, heard, failed>>
      /\ turn.at = "down" /\ turn'.at = "none"
    BY DEF Inv, TasksInv, Boot, NoTurn
<1>3. QueueApart' /\ \A n : Queued(n)' <=> Queued(n)
    BY <1>2 DEF Inv, TasksInv, QueueApart, Queued
<1>4. ASSUME NEW t \in Tasks PROVE Fine(t)'
    <2>1. Fine(t) /\ status[t] \in {"none", "running", "done", "cancelled", "past"}
        BY <1>2 DEF Inv, TasksInv, TypeOK, TasksTypeOK
    <2>2. /\ UNCHANGED <<status, record, heard, stamped, waiting, claimed, writes, asked, slips, lost, failed>>
          /\ due' = Undelivered
        BY <1>2 DEF Boot, TasksBoot
    <2>3. Placed(t)'
        BY <1>2, <1>3, <2>1, <2>2 DEF Fine, Placed, Undelivered, Ops
    <2>4. Once(t)'
        BY <1>3, <2>1, <2>2 DEF Fine, Once, Clean
    <2>5. Kept(t)'
        BY <1>3, <2>1, <2>2 DEF Fine, Kept
    <2> QED BY <2>3, <2>4, <2>5 DEF Fine
<1>5. /\ UNCHANGED <<events, end, last, saved, onFile, resaid>>
      /\ watch' = IF watch = "left" THEN "following" ELSE watch
    BY <1>2 DEF WatchBoot, Reattached
<1>6. Watched'
    <2> USE <1>2, <1>3, <1>5, FrameFacts DEF Inv, FramesInv, Watched, Frame, Exits
    <2>1. AtFrame' BY DEF AtFrame
    <2>2. Behind' BY DEF Behind
    <2>3. OneQueued' BY DEF OneQueued
    <2>4. NoneSkipped' BY DEF NoneSkipped
    <2>5. NoneAhead' BY DEF NoneAhead
    <2> QED BY <2>1, <2>2, <2>3, <2>4, <2>5
<1>7. FramesInOrder'
    BY <1>2, <1>5, FrameFacts DEF Inv, FramesInv, FramesInOrder
<1> QED BY <1>1, <1>3, <1>4, <1>6, <1>7 DEF Inv, TasksInv, FramesInv

-----------------------------------------------------------------------------
(* The theorems *)

LEMMA InitInv == Init => Inv
<1> SUFFICES ASSUME Init PROVE Inv
    OBVIOUS
<1>1. TypeOK
    <2>1. WakesTypeOK
        BY TaskWakesAssumption DEF Init, WakesInit, NoTurn, NoWake, WakesTypeOK, TurnStates, WakeStates
    <2>2. TasksTypeOK
        <3>1. /\ status \in [Tasks -> {"none", "running", "done", "cancelled", "past"}] /\ waits \in 0..MaxWait
              /\ record \in [Tasks -> {"none", "running", "settled", "delivered"}]
              /\ delta \in 0..1 /\ pending \in Nat
            BY AsyncTasksAssumption DEF Init, TasksInit
        <3>2. /\ stamped = {} /\ waiting = {} /\ marked = {} /\ counted = {} /\ dispatched = {} /\ writes = {}
              /\ due = {} /\ claimed = {} /\ asked = {} /\ slips = {} /\ lost = {} /\ resume = FALSE
            BY DEF Init, TasksInit
        <3> QED BY <3>1, <3>2, Zenon DEF TasksTypeOK
    <2>3. WatchTypeOK
        <3>1. /\ events \in 0..MaxSeq /\ last \in 0..(MaxSeq + 1) /\ saved \in 0..(MaxSeq + 1)
              /\ end = "no" /\ watch = "none" /\ onFile = "none" /\ stop = "none" /\ resaid \subseteq Frames
            BY TaskWakesAssumption DEF Init, WatchInit
        <3>2. muted \in BOOLEAN
            BY Zenon DEF Init, WatchInit
        <3> QED BY <3>1, <3>2 DEF WatchTypeOK
    <2> QED BY <2>1, <2>2, <2>3 DEF TypeOK
<1>2. QueueApart /\ \A n : ~Queued(n)
    BY DEF Init, WakesInit, NoWake, QueueApart, Queued
<1>3. ASSUME NEW t \in Tasks PROVE Fine(t)
    BY <1>2, Kinds DEF Init, WakesInit, TasksInit, NoTurn, Fine, Placed, Once, Kept
<1>4. Watched /\ FramesInOrder
    BY <1>2, Kinds, TaskWakesAssumption
       DEF Init, WakesInit, WatchInit, Watched, AtFrame, Behind, OneQueued, NoneSkipped, NoneAhead, FramesInOrder
<1> QED BY <1>1, <1>2, <1>3, <1>4 DEF Inv, TasksInv, FramesInv

LEMMA StutterInv == Inv /\ UNCHANGED vars => Inv'
<1> SUFFICES ASSUME Inv, UNCHANGED vars PROVE Inv'
    OBVIOUS
<1>1. UNCHANGED <<wakeVars, taskVars, watchVars>>
    BY DEF vars
<1>2. TypeOK'
    BY <1>1, Untouched DEF Inv, TasksInv, TypeOK
<1>3. TasksKept
    BY <1>1, Still, NoneConcerned DEF wakeVars, taskVars
<1> QED BY <1>1, <1>2, <1>3, FramesWait

LEMMA NextInv == Inv /\ [Next]_vars => Inv'
BY RestKeeps, WorkspaceKeeps, WatchKeeps, CrashKeeps, BootKeeps, StutterInv DEF Next

\* The invariant behind the others holds in every reachable state.
THEOREM Invariance == Spec => []Inv
<1> QED BY InitInv, NextInv, PTL DEF Spec

\* Turns, wakes, tasks, records and the watcher keep their types.
THEOREM TypeCorrect == Spec => []TypeOK
<1>1. Inv => TypeOK
    BY DEF Inv, TasksInv
<1> QED BY <1>1, Invariance, PTL

\* Whatever the order of completions, waits, wakes and crashes, an outcome comes
\* twice only by a record that missed a write or a wait that asked for it again.
THEOREM OutcomesToldOnce == Spec => []ToldOnce
<1>1. Inv => ToldOnce
    <2> SUFFICES ASSUME Inv, NEW t \in Tasks, heard[t] > 1 PROVE t \in slips \cup asked
        BY DEF ToldOnce
    <2>1. heard[t] \in 0..2 /\ Once(t)
        BY Kinds DEF Inv, TasksInv, Fine, TypeOK, WakesTypeOK
    <2> QED BY <2>1 DEF Once, Clean
<1> QED BY <1>1, Invariance, PTL

\* An outcome not yet told is held by the wake, a waiter, its record or the
\* report, or is one whose hand-over failed or whose process died.
THEOREM OutcomesKept == Spec => []OutcomeKept
<1>1. Inv => OutcomeKept
    BY DEF Inv, TasksInv, Fine, Kept, OutcomeKept, Queued, Undelivered
<1> QED BY <1>1, Invariance, PTL

\* The frames of a monitored task are told in order, none skipped, none repeated
\* but after a crash.
THEOREM FramesToldInOrder == Spec => []FramesInOrder
<1>1. Inv => FramesInOrder
    BY DEF Inv, FramesInv
<1> QED BY <1>1, Invariance, PTL

\* No step takes the conversation from a turn that runs.
THEOREM TurnsRunAlone == Spec => TurnsAlone
<1> DEFINE Alone == turn'.by # turn.by => ~Runs \/ turn'.at \in {"none", "down"}
<1>1. Inv /\ [Next]_vars => [Alone]_turn
    <2> SUFFICES ASSUME Inv, Next, turn' # turn, turn'.by # turn.by
                 PROVE  ~Runs \/ turn'.at \in {"none", "down"}
        BY DEF vars, wakeVars
    <2>0. turn \in TurnStates
        BY DEF Inv, TasksInv, TypeOK, WakesTypeOK
    <2>1. CASE Turns
        BY <2>1 DEF Turns, UserStarts, TurnEnds, NoTurn, Runs
    <2>2. CASE Calls
        BY <2>2 DEF Calls, Dispatch, Cancel, LeftToWaiter, IntoMailbox, WakesItsParent, Settles, WaitBegins, wakeVars
    <2>3. CASE TaskSteps
        BY <2>0, <2>3 DEF TaskSteps, Claims, Reports, WriteLands, WaitEnds, TurnOpens, Seals, Counts, TurnFails,
                          Redrives, TurnStates, Runs
    <2>4. CASE Workspace \/ WatchSteps
        BY <2>4 DEF Workspace, Watches, Emits, EndsItself, IsLost, Stops, WatchSteps, Recorded, Handles, HandsOn,
                    Saves, StopLands, wakeVars
    <2>5. CASE Wakes \/ HandsOver \/ WokenTurnEnds
        BY <2>5 DEF Wakes, HandsOver, WokenTurnEnds, WakeLosesIt, WakeWaits, WakeTakesOver, WakeAppends,
                    WakeRequests, WakeHandsOver, WakeEnds, Held, NoTurn
    <2>6. CASE Crash \/ Boot
        <3>1. CASE Crash
            BY <3>1 DEF Crash
        <3>2. CASE Boot
            BY <3>2 DEF Boot, NoTurn
        <3> QED BY <2>6, <3>1, <3>2
    <2> QED BY <2>1, <2>2, <2>3, <2>4, <2>5, <2>6 DEF Next
<1> QED BY <1>1, Invariance, PTL DEF Spec, TurnsAlone

=============================================================================
