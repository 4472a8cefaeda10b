----------------------------- MODULE TurnInput -----------------------------
(***************************************************************************)
(* Input that reaches a running turn: the mailbox of a conversation        *)
(* (TurnInputMailbox), its durable copy (TurnInputStore), the boundaries   *)
(* where the harness drains it (TurnInputDrain), updates the provider      *)
(* applies by itself (NativeSteerRegistry), and what a restart delivers    *)
(* (TurnResumeService).                                                    *)
(*                                                                         *)
(* An input is its entry; a refused post leaves no trace and is no step.   *)
(* Whether a dead turn is driven again is a choice here: TurnRuns says     *)
(* when. A turn's messages are the inputs among them.                      *)
(***************************************************************************)
EXTENDS Naturals, FiniteSets

CONSTANTS
    Inputs,    \* what is posted
    Turns,     \* turns of the conversation
    Overlap,   \* may a turn start while a stopped one unwinds?
    MaxCrash,  \* bound: process crashes
    MaxFault   \* bound: failed database calls

ASSUME TurnInputAssumption ==
    /\ IsFiniteSet(Inputs) /\ IsFiniteSet(Turns)
    /\ Overlap \in BOOLEAN /\ MaxCrash \in Nat /\ MaxFault \in Nat

VARIABLES
    boot,        \* "up", or where the booting process is
    pc,          \* where each turn is
    msgs,        \* the inputs among each turn's messages
    box,         \* the conversation's mailbox
    offers,      \* held inputs whose native steer has no outcome yet
    applied,     \* applied by the provider, the event still in the stream
    taken,       \* taken off the box by the turn's pass, not yet its messages
    store,       \* turn_inputs
    writes,      \* its writes on their way: nobody awaits them
    listed,      \* what the booting process read of it
    transcript,  \* how often each input is in the conversation's messages
    ckpt,        \* the inputs in its turnCheckpoint
    accepted,    \* history: inputs a box took
    excused,     \* history: inputs whose only copy a database call may lose
    cut,         \* history: inputs a stream that broke off had applied
    crashes, faults

turnVars == <<pc, msgs, taken, box, offers, applied>>
durable == <<store, transcript, ckpt>>
history == <<accepted, excused, cut>>
vars == <<boot, turnVars, durable, writes, listed, history, crashes, faults>>

NoBox == [open |-> FALSE, sealed |-> FALSE, entries |-> {}, held |-> {}, recorded |-> {}]
Active == {"running", "streaming", "failed", "finalizing", "closing"}

Init ==
    /\ boot = "up" /\ pc = [t \in Turns |-> "none"] /\ msgs = [t \in Turns |-> {}]
    /\ box = NoBox /\ offers = {} /\ applied = {} /\ taken = [t \in Turns |-> {}]
    /\ store = {} /\ writes = {} /\ listed = {}
    /\ transcript = [i \in Inputs |-> 0] /\ ckpt = {}
    /\ accepted = {} /\ excused = {} /\ cut = {} /\ crashes = 0 /\ faults = 0

Fault == faults < MaxFault /\ faults' = faults + 1
Appended(S) == [i \in Inputs |-> transcript[i] + IF i \in S THEN 1 ELSE 0]
Delivered == {i \in Inputs : transcript[i] > 0}
Add(t, S) == msgs' = [msgs EXCEPT ![t] = @ \cup S]
Goto(t, place) == pc' = [pc EXCEPT ![t] = place]

-----------------------------------------------------------------------------
(* The mailbox and its turn *)

\* open(): one box per conversation; one that is still there is unsealed.
StartTurn(t) ==
    /\ boot = "up" /\ pc[t] = "none"
    /\ Overlap \/ \A u \in Turns : pc[u] \notin Active
    /\ Goto(t, "running")
    /\ box' = IF box.open THEN [box EXCEPT !.sealed = FALSE] ELSE [NoBox EXCEPT !.open = TRUE]
    /\ UNCHANGED <<boot, msgs, taken, offers, applied, durable, writes, listed, history, crashes, faults>>

\* post(): a text update is held while the stream of the turn can steer.
Post(i) ==
    /\ boot = "up" /\ i \notin accepted
    /\ box.open /\ ~box.sealed
    /\ \E held \in {{}} \cup {{i} : t \in {u \in Turns : pc[u] = "streaming"}} :
          /\ box' = [box EXCEPT !.entries = @ \cup {i}, !.recorded = @ \cup {i},
                                !.held = @ \cup held]
          /\ offers' = offers \cup held
    /\ accepted' = accepted \cup {i}
    /\ writes' = writes \cup {<<"record", {i}>>}
    /\ UNCHANGED <<boot, pc, msgs, taken, applied, durable, listed, excused, cut, crashes, faults>>

\* A fire-and-forget write of the store lands, or fails; in any order.
WriteLands(w) ==
    /\ w \in writes /\ writes' = writes \ {w}
    /\ \/ /\ store' = IF w[1] = "record" THEN store \cup w[2] ELSE store \ w[2]
          /\ UNCHANGED <<excused, faults>>
       \/ /\ Fault
          /\ excused' = IF w[1] = "record" THEN excused \cup w[2] ELSE excused
          /\ UNCHANGED store
    /\ UNCHANGED <<boot, turnVars, listed, transcript, ckpt, accepted, cut, crashes>>

\* What drain() takes: an entry under offer stays.
Drainable == box.entries \ box.held

\* drainTurnInput at the top of an iteration, after a batch, before an end.
Drain(t) ==
    /\ pc[t] = "running" /\ Drainable # {}
    /\ Add(t, Drainable)
    /\ box' = [box EXCEPT !.entries = @ \ Drainable]
    /\ UNCHANGED <<boot, pc, taken, offers, applied, durable, writes, listed, history, crashes, faults>>

Checkpoint(t) ==
    /\ pc[t] = "running" /\ ckpt # msgs[t]
    /\ ckpt' = msgs[t]
    /\ UNCHANGED <<boot, turnVars, store, transcript, writes, listed, history, crashes, faults>>

StreamBegins(t) ==
    /\ pc[t] = "running" /\ Goto(t, "streaming")
    /\ UNCHANGED <<boot, msgs, taken, box, offers, applied, durable, writes, listed, history, crashes, faults>>

\* The provider's continuation carries the update: the event is in the stream.
SteerApplied(i) ==
    /\ i \in offers
    /\ offers' = offers \ {i} /\ applied' = applied \cup {i}
    /\ UNCHANGED <<boot, pc, msgs, taken, box, durable, writes, listed, history, crashes, faults>>

\* Refused, or waiting for tool results: the entry is an ordinary one again.
SteerFallsBack(i) ==
    /\ i \in offers
    /\ offers' = offers \ {i} /\ box' = [box EXCEPT !.held = @ \ {i}]
    /\ UNCHANGED <<boot, pc, msgs, taken, applied, durable, writes, listed, history, crashes, faults>>

Taken(S) == [box EXCEPT !.entries = @ \ S, !.held = @ \ S]

\* takeNativeTurnInput, when the harness reads the event: the input belongs to
\* the pass until the stream is over.
TakeApplied(t) ==
    /\ pc[t] = "streaming" /\ applied # {}
    /\ taken' = [taken EXCEPT ![t] = @ \cup (applied \cap box.entries)]
    /\ box' = Taken(applied) /\ applied' = {}
    /\ UNCHANGED <<boot, pc, msgs, offers, durable, writes, listed, history, crashes, faults>>

\* (mutant: an offer without an outcome is not released)
HeldOn == box.held

\* finish() of the stream: every offer without an outcome falls back.
StillHeld == box.held \ offers

\* The stream stops, and what of it nobody read goes with it: an applied update
\* whose event was still to come stays under offer.
StreamStops(t, next) ==
    /\ pc[t] = "streaming" /\ Goto(t, next)
    /\ box' = [box EXCEPT !.held = StillHeld]
    /\ offers' = {} /\ applied' = {}
    /\ taken' = [taken EXCEPT ![t] = {}]
    /\ UNCHANGED <<boot, durable, writes, listed, accepted, excused, crashes, faults>>

\* It is over, or was cut short (a stop, a deviation): recordNativeTurnInput.
StreamEnds(t) ==
    /\ StreamStops(t, "running") /\ Add(t, taken[t]) /\ cut' = cut \cup applied

\* It throws: the turn leaves its loop without what the pass had taken.
StreamFails(t) ==
    /\ StreamStops(t, "failed") /\ cut' = cut \cup applied \cup taken[t]
    /\ UNCHANGED msgs

\* (mutant: the box stays open while the turn finalizes)
LeftOpen == [box EXCEPT !.entries = @ \ Drainable]

Sealed == [box EXCEPT !.entries = @ \ Drainable, !.sealed = TRUE]

\* sealTurnInput: no more posts, and what was accepted joins the messages.
Seal(t) ==
    /\ pc[t] \in {"running", "failed"} /\ Goto(t, "finalizing")
    /\ Add(t, Drainable)
    /\ box' = Sealed
    /\ UNCHANGED <<boot, taken, offers, applied, durable, writes, listed, history, crashes, faults>>

\* appendAndFinalize: the messages join the transcript and the checkpoint goes;
\* a failure is logged.
Finalize(t) ==
    /\ pc[t] = "finalizing" /\ Goto(t, "closing")
    /\ \/ /\ transcript' = Appended(msgs[t]) /\ ckpt' = {}
          /\ UNCHANGED <<excused, faults>>
       \/ /\ Fault /\ excused' = excused \cup msgs[t]
          /\ UNCHANGED <<transcript, ckpt>>
    /\ msgs' = [msgs EXCEPT ![t] = {}]
    /\ UNCHANGED <<boot, taken, box, offers, applied, store, writes, listed, accepted, cut, crashes>>

\* close(), in the loop's finally: the box goes, its copies are forgotten.
Close(t) ==
    /\ pc[t] = "closing" /\ Goto(t, "over")
    /\ box' = NoBox
    /\ writes' = IF box.recorded = {} THEN writes ELSE writes \cup {<<"forget", box.recorded>>}
    /\ UNCHANGED <<boot, msgs, taken, offers, applied, durable, listed, history, crashes, faults>>

-----------------------------------------------------------------------------
(* Crash and restart *)

\* A copy whose write was still on its way may be the only one.
Crash ==
    /\ crashes < MaxCrash /\ crashes' = crashes + 1
    /\ boot' = "merge"
    /\ pc' = [t \in Turns |-> IF pc[t] \in Active THEN "dead" ELSE pc[t]]
    /\ msgs' = [t \in Turns |-> {}] /\ taken' = [t \in Turns |-> {}]
    /\ box' = NoBox /\ offers' = {} /\ applied' = {} /\ writes' = {} /\ listed' = {}
    /\ excused' = excused \cup UNION {w[2] : w \in {x \in writes : x[1] = "record"}}
    /\ UNCHANGED <<durable, accepted, cut, faults>>

\* The checkpoint joins the transcript (start() of a re-driven turn, else
\* recoverOrphanedTurnCheckpoints).
Merge ==
    /\ boot = "merge" /\ boot' = "list"
    /\ transcript' = Appended(ckpt) /\ ckpt' = {}
    /\ UNCHANGED <<turnVars, store, writes, listed, history, crashes, faults>>

\* listAll(): a failed read delivers nothing this time.
List ==
    /\ boot = "list" /\ boot' = "deliver"
    /\ \/ listed' = store /\ UNCHANGED faults
       \/ listed' = {} /\ Fault
    /\ UNCHANGED <<turnVars, durable, writes, history, crashes>>

\* (mutant: a restart delivers all it finds)
AllListed == listed

\* Not yet among the messages, by their ids.
Missing == listed \ Delivered

\* A dead turn runs again: what it had not taken is put back in its box.
Redrive(t) ==
    /\ boot = "deliver" /\ pc[t] = "dead"
    /\ boot' = "up"
    /\ pc' = [u \in Turns |-> IF u = t THEN "running" ELSE IF pc[u] = "dead" THEN "over" ELSE pc[u]]
    /\ box' = [NoBox EXCEPT !.open = TRUE, !.entries = Missing, !.recorded = Missing]
    /\ UNCHANGED <<msgs, taken, offers, applied, durable, writes, listed, history, crashes, faults>>

\* No turn runs again: into the transcript, and then forgotten.
Deliver ==
    /\ boot = "deliver"
    /\ pc' = [t \in Turns |-> IF pc[t] = "dead" THEN "over" ELSE pc[t]]
    /\ \/ transcript' = Appended(Missing) /\ boot' = "forget" /\ UNCHANGED faults
       \/ Fault /\ boot' = "up" /\ UNCHANGED transcript
    /\ UNCHANGED <<msgs, taken, box, offers, applied, store, ckpt, writes, listed, history, crashes>>

Forget ==
    /\ boot = "forget" /\ boot' = "up"
    /\ \/ store' = store \ listed /\ UNCHANGED faults
       \/ Fault /\ UNCHANGED store
    /\ UNCHANGED <<turnVars, transcript, ckpt, writes, listed, history, crashes>>

-----------------------------------------------------------------------------
\* The turn's way to its end; the provider answers every offer by ending.
Ends(t) == StreamEnds(t) \/ StreamFails(t) \/ Seal(t) \/ Finalize(t) \/ Close(t)
Boots == Merge \/ List \/ Deliver \/ Forget

Next ==
    \/ \E t \in Turns : \/ StartTurn(t) \/ Drain(t) \/ Checkpoint(t) \/ StreamBegins(t)
                        \/ TakeApplied(t) \/ Ends(t) \/ Redrive(t)
    \/ \E i \in Inputs : Post(i) \/ SteerApplied(i) \/ SteerFallsBack(i)
    \/ \E w \in {"record", "forget"} \X SUBSET Inputs : WriteLands(w)
    \/ Boots \/ Crash

Spec == Init /\ [][Next]_vars

\* A turn that runs ends some day (its iterations are bounded), so does a boot.
FairSpec ==
    /\ Spec /\ WF_vars(Boots)
    /\ \A t \in Turns : /\ SF_vars(Seal(t)) /\ WF_vars(Finalize(t) \/ Close(t))
                        /\ WF_vars(StreamEnds(t) \/ StreamFails(t))

-----------------------------------------------------------------------------
(* Properties *)

\* The shape of the state; only entries of the box are held.
TypeOK ==
    /\ boot \in {"up", "merge", "list", "deliver", "forget"}
    /\ pc \in [Turns -> Active \cup {"none", "dead", "over"}]
    /\ msgs \in [Turns -> SUBSET Inputs] /\ taken \in [Turns -> SUBSET Inputs]
    /\ box \in [open : BOOLEAN, sealed : BOOLEAN, entries : SUBSET Inputs,
                held : SUBSET Inputs, recorded : SUBSET Inputs]
    /\ box.held \subseteq box.entries /\ offers \cup applied \subseteq Inputs
    /\ writes \subseteq {"record", "forget"} \X SUBSET Inputs
    /\ UNION {store, listed, ckpt, accepted, excused, cut} \subseteq Inputs
    /\ transcript \in [Inputs -> Nat] /\ crashes \in 0..MaxCrash /\ faults \in 0..MaxFault

\* What a turn has of the inputs.
Has(t) == msgs[t] \cup taken[t]

\* An input is in one place of the conversation at most: once in the transcript,
\* or with one turn, or waiting in the box. Restarts included.
TakenOnce ==
    /\ \A i \in Inputs : transcript[i] <= 1
    /\ \A i \in Delivered : i \notin box.entries /\ \A t \in Turns : i \notin Has(t)
    /\ \A t \in Turns : \A i \in Has(t) :
          i \notin box.entries /\ \A u \in Turns : i \in Has(u) => u = t

\* The input a checkpoint would bring back is neither delivered nor waiting.
CheckpointIsAhead == \A i \in ckpt : transcript[i] = 0 /\ i \notin box.entries

\* Whatever is anywhere was accepted, so a post brings something new.
OnlyAccepted ==
    /\ UNION {box.entries, ckpt, store, listed, Delivered} \subseteq accepted
    /\ \A t \in Turns : Has(t) \subseteq accepted
    /\ \A w \in writes : w[2] \subseteq accepted
    /\ box.recorded \subseteq accepted

\* A booting process has no turn and no mailbox, and merges before it lists; a
\* turn that has finalized, or died, holds nothing.
BootIsQuiet ==
    /\ boot # "up" => box = NoBox /\ offers = {} /\ \A t \in Turns : pc[t] \notin Active
    /\ boot \in {"list", "deliver", "forget"} => ckpt = {}
    /\ \A t \in Turns : pc[t] \notin Active \ {"closing"} => msgs[t] = {}
    /\ \A t \in Turns : pc[t] # "streaming" => taken[t] = {}

\* Together they are inductive.
Inv == TypeOK /\ TakenOnce /\ CheckpointIsAhead /\ OnlyAccepted /\ BootIsQuiet

\* What a box accepted is somewhere: waiting, with a turn, in the checkpoint, in
\* the transcript, or stored for the next boot. Not even a turn that ends, dies,
\* or is driven again and ends drops it.
NothingDropped == \A i \in accepted \ (excused \cup cut) :
    \/ i \in box.entries \cup ckpt \cup Delivered
    \/ \E t \in Turns : i \in Has(t)
    \/ i \in store /\ (boot # "up" \/ faults > 0)

\* What was accepted reaches the transcript.
AcceptedArrives == \A i \in Inputs :
    i \in accepted ~> (transcript[i] > 0 \/ i \in excused \cup cut \/ faults > 0)

\* "Ending on an error is still ending: seal, and keep what was accepted."
\* With no crash and no failed database call, no excuse is left.
EndKeepsAccepted ==
    crashes = 0 /\ faults = 0 /\ (\A t \in Turns : pc[t] \notin Active) => accepted \subseteq Delivered
=============================================================================
