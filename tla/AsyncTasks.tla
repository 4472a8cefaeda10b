----------------------------- MODULE AsyncTasks -----------------------------
(***************************************************************************)
(* The async tasks of a root conversation: AsyncTaskRegistry, the tools    *)
(* that dispatch, wait for and cancel them, the completion's way to its    *)
(* parent (deliverTaskCompletion), the count of background work on the     *)
(* conversation (pendingBackgroundTasks), the durable shadow of each task  *)
(* (DetachedWorkStore, whose writes nobody waits for), and what a restart  *)
(* tells the parent (TurnResumeService.start). A completion and a failure  *)
(* are one outcome here.                                                   *)
(***************************************************************************)
EXTENDS TaskWakes

CONSTANTS Default,     \* tasks dispatched the default way: their turn ends
          MaxRunning,  \* MAXIMUM_CONCURRENT_ASYNC_TASKS
          MaxWait      \* bound: calls of wait_for_tasks

ASSUME AsyncTasksAssumption ==
    Default \subseteq Tasks /\ MaxRunning \in Nat \ {0} /\ MaxWait \in Nat

VARIABLES
    status,    \* each task; "past": of a process that died
    stamped,   \* tasks left to a waiter (awaitedBy)
    waiting,   \* what the turn's wait_for_tasks is blocked on
    waits,     \* calls of wait_for_tasks so far
    marked,    \* tasks whose deliveredVia is set
    counted,   \* tasks whose countedAsPending is set
    dispatched,\* this turn's dispatches: "default" ended its loop
    delta,     \* what the ending turn adds to the count
    pending,   \* pendingBackgroundTasks
    record,    \* each task's durable record
    writes,    \* writes of the records under way
    due,       \* records a boot found undelivered
    claimed,   \* of those, the ones taken for the report
    resume,    \* a boot has the conversation's turn to drive again
    asked,     \* history: tasks a wait asked for after they had settled
    slips,     \* history: tasks whose record missed a write
    lost       \* history: outcomes that died with a process

taskVars == <<status, stamped, waiting, waits, marked, counted, dispatched, delta, pending,
              record, writes, due, claimed, resume, asked, slips, lost>>

TasksInit ==
    /\ status = [t \in Tasks |-> "none"]
    /\ stamped = {} /\ waiting = {} /\ waits = 0 /\ marked = {} /\ counted = {}
    /\ dispatched = {} /\ delta = 0 /\ pending = 0
    /\ record = [t \in Tasks |-> "none"] /\ writes = {}
    /\ due = {} /\ claimed = {} /\ resume = FALSE /\ asked = {} /\ slips = {} /\ lost = {}

In(s) == {t \in Tasks : status[t] = s}
Running == In("running")
Undelivered == {t \in Tasks : record[t] \in {"running", "settled"}}

\* markDelivered, of each task in S not marked yet.
Marks(S) ==
    /\ marked' = marked \cup S
    /\ writes' = writes \cup ((S \ marked) \X {"delivered"})

\* payBackCountedPending: the count is one for the turn, so every mark goes.
PaysBack(S) ==
    IF S \cap counted = {} THEN UNCHANGED <<counted, pending>>
    ELSE counted' = {} /\ pending' = IF pending = 0 THEN 0 ELSE pending - 1

\* afterDelivery of the turn that S woke: one unit for each, marked or not.
WokenPayBack(S) ==
    IF S = {} THEN UNCHANGED <<counted, pending>>
    ELSE /\ counted' = {}
         /\ pending' = IF pending < Cardinality(S) THEN 0 ELSE pending - Cardinality(S)

-----------------------------------------------------------------------------
(* The turn's calls *)

\* run_async_task.
Dispatch(t) ==
    /\ Open /\ waiting = {} /\ status[t] = "none" /\ Cardinality(Running) < MaxRunning
    /\ status' = [status EXCEPT ![t] = "running"]
    /\ writes' = writes \cup {<<t, "started">>}
    /\ dispatched' = dispatched \cup {IF t \in Default THEN "default" ELSE "detached"}
    /\ UNCHANGED <<wakeVars, stamped, waiting, waits, marked, counted, delta, pending, record, due,
                   claimed, resume, asked, slips, lost>>

\* (mutant: the wait does not tell the completion that it is there)
Unstamped(S) == stamped

Stamps(S) == stamped \cup (S \cap Running)

\* wait_for_tasks on tasks of this process.
WaitBegins(S) ==
    /\ Open /\ waiting = {} /\ "default" \notin dispatched
    /\ S # {} /\ S \subseteq Running \cup In("done") /\ waits < MaxWait
    /\ waits' = waits + 1 /\ waiting' = S /\ stamped' = Stamps(S) /\ asked' = asked \cup (S \ Running)
    /\ UNCHANGED <<wakeVars, status, marked, counted, dispatched, delta, pending, record, writes, due,
                   claimed, resume, slips, lost>>

\* (mutant: a wait that times out leaves its tasks stamped)
StaysStamped == stamped

Unstamps == stamped \ (waiting \cap Running)

\* Everything settled, or the timeout, or a stop: what has settled is returned,
\* what still runs is left to its completion again.
WaitEnds ==
    /\ waiting # {} /\ waiting' = {} /\ stamped' = Unstamps
    /\ Hears(waiting \cap In("done")) /\ Marks(waiting \ Running)
    /\ UNCHANGED <<turn, turns, wake, failed, faults, status, waits, counted, dispatched, delta, pending,
                   record, due, claimed, resume, asked, slips, lost>>

\* cancel_async_task: nothing is left to deliver.
Cancel(t) ==
    /\ Open /\ status[t] = "running"
    /\ status' = [status EXCEPT ![t] = "cancelled"]
    /\ writes' = writes \cup {<<t, "delivered">>}
    /\ UNCHANGED <<wakeVars, stamped, waiting, waits, marked, counted, dispatched, delta, pending, record, due,
                   claimed, resume, asked, slips, lost>>

-----------------------------------------------------------------------------
(* The completion: the record's write goes out, then the callback, which waits
   for nothing but modules loaded long before. *)

Settles(t) ==
    /\ status[t] = "running" /\ turn.at # "down"
    /\ status' = [status EXCEPT ![t] = "done"]
    /\ marked' = marked \cup {t}
    /\ writes' = writes \cup {<<t, "settled">>, <<t, "delivered">>}
    /\ UNCHANGED <<turn, turns, failed, faults, stamped, waiting, waits, dispatched, delta, record, due,
                   claimed, resume, asked, slips, lost>>

\* A stamped task is the waiter's.
LeftToWaiter(t) ==
    /\ Settles(t) /\ t \in stamped /\ PaysBack({t}) /\ UNCHANGED <<wake, heard>>

\* The turn of a detached task, or a later one, takes it through its mailbox; so
\* does the turn of the wake under way.
IntoMailbox(t) ==
    /\ Settles(t) /\ t \notin stamped /\ Open /\ (t \notin Default \/ Registered)
    /\ Hears({t}) /\ PaysBack({t}) /\ UNCHANGED wake

\* Else it is marked as told and wakes the conversation.
WakesItsParent(t) ==
    /\ Settles(t) /\ t \notin stamped /\ ~(Open /\ (t \notin Default \/ Registered))
    /\ WakesFor(t) /\ UNCHANGED <<counted, pending>>

-----------------------------------------------------------------------------
(* The turn's end *)

\* The box is sealed; work that still runs keeps the conversation active: one
\* unit for the turn.
Seals ==
    /\ Open /\ waiting = {}
    /\ turn' = [turn EXCEPT !.at = "sealed"]
    /\ delta' = IF "default" \in dispatched \/ ("detached" \in dispatched /\ Running # {}) THEN 1 ELSE 0
    /\ UNCHANGED <<turns, wake, heard, failed, faults, status, stamped, waiting, waits, marked, counted,
                   dispatched, pending, record, writes, due, claimed, resume, asked, slips, lost>>

\* The tasks of a detached dispatch remember the count; a failure is ignored.
Counts ==
    /\ turn.at = "sealed" /\ turn' = [turn EXCEPT !.at = "ending"]
    /\ delta' = 0 /\ dispatched' = {}
    /\ \/ /\ pending' = pending + delta
          /\ counted' = counted \cup
                 (IF delta = 1 /\ "default" \notin dispatched THEN Running ELSE {})
          /\ UNCHANGED faults
       \/ delta = 1 /\ Fault /\ UNCHANGED <<pending, counted>>
    /\ UNCHANGED <<turns, wake, heard, failed, status, stamped, waiting, waits, marked, record, writes,
                   due, claimed, resume, asked, slips, lost>>

\* A turn that fails counts nothing; one driven again that fails before it has
\* drained what it was to be told takes it along.
TurnFails ==
    /\ (Open /\ waiting = {}) \/ Opens
    /\ turn' = [turn EXCEPT !.at = "ending"] /\ dispatched' = {}
    /\ IF turn.by = "redriven" /\ Opens
       THEN failed' = failed \cup claimed /\ claimed' = {}
       ELSE UNCHANGED <<failed, claimed>>
    /\ UNCHANGED <<turns, wake, heard, faults, status, stamped, waiting, waits, marked, counted, delta,
                   pending, record, writes, due, resume, asked, slips, lost>>

TurnOpens ==
    /\ Opens /\ turn' = [turn EXCEPT !.at = "open"]
    /\ IF turn.by = "redriven" THEN Hears(claimed) /\ claimed' = {} ELSE UNCHANGED <<heard, claimed>>
    /\ UNCHANGED <<turns, wake, failed, faults, status, stamped, waiting, waits, marked, counted, dispatched,
                   delta, pending, record, writes, due, resume, asked, slips, lost>>

-----------------------------------------------------------------------------
(* The durable records *)

After(t, op) ==
    CASE op = "started"   -> "running"
      [] op = "settled"   -> IF record[t] = "running" THEN "settled" ELSE record[t]
      [] op = "delivered" -> IF record[t] # "none" THEN "delivered" ELSE "none"

\* A write lands, in any order with the others, or is lost.
WriteLands(t, op) ==
    /\ <<t, op>> \in writes /\ writes' = writes \ {<<t, op>>}
    /\ \/ /\ record' = [record EXCEPT ![t] = After(t, op)]
          /\ slips' = slips \cup (IF op # "started" /\ record[t] = "none" THEN {t} ELSE {})
          /\ UNCHANGED faults
       \/ Fault /\ slips' = slips \cup {t} /\ UNCHANGED record
    /\ UNCHANGED <<turn, turns, wake, heard, failed, status, stamped, waiting, waits, marked, counted,
                   dispatched, delta, pending, due, claimed, resume, asked, lost>>

TasksCrash ==
    /\ status' = [t \in Tasks |-> IF status[t] \in {"running", "done"} THEN "past" ELSE status[t]]
    /\ stamped' = {} /\ waiting' = {} /\ marked' = {} /\ counted' = {}
    /\ dispatched' = {} /\ delta' = 0 /\ writes' = {} /\ due' = {} /\ claimed' = {} /\ resume' = FALSE
    /\ slips' = slips \cup {t \in Tasks : \E op \in {"started", "settled", "delivered"} : <<t, op>> \in writes}
    /\ lost' = lost \cup {t \in Tasks \ Undelivered :
                              status[t] \in {"running", "done", "past"} /\ heard[t] = 0}
    /\ UNCHANGED <<waits, pending, record, asked>>

\* Boot clears the count; what was not delivered is listed.
TasksBoot(again) ==
    /\ pending' = 0 /\ due' = Undelivered /\ resume' = again
    /\ UNCHANGED <<status, stamped, waiting, waits, marked, counted, dispatched, delta, record, writes, claimed,
                   asked, slips, lost>>

\* claimForRestart, conditional; a claim that fails leaves it to the next boot.
Claims(t) ==
    /\ t \in due /\ due' = due \ {t}
    /\ \/ t \in Undelivered /\ record' = [record EXCEPT ![t] = "delivered"]
          /\ claimed' = claimed \cup {t} /\ UNCHANGED faults
       \/ Fault /\ UNCHANGED <<record, claimed>>
    /\ UNCHANGED <<turn, turns, wake, heard, failed, status, stamped, waiting, waits, marked, counted,
                   dispatched, delta, pending, writes, resume, asked, slips, lost>>

\* Into the transcript of a loop that is not driven again ...
Reports(t) ==
    /\ t \in claimed /\ ~resume /\ turn.by # "redriven" /\ claimed' = claimed \ {t}
    /\ \/ Hears({t}) /\ UNCHANGED <<failed, faults>>
       \/ Fault /\ failed' = failed \cup {t} /\ UNCHANGED heard
    /\ UNCHANGED <<turn, turns, wake, status, stamped, waiting, waits, marked, counted, dispatched, delta,
                   pending, record, writes, due, resume, asked, slips, lost>>

\* ... or with the turn that is.
Redrives ==
    /\ resume /\ due = {} /\ turn.at = "none" /\ resume' = FALSE
    /\ \/ turn' = [at |-> "opening", by |-> "redriven"] /\ UNCHANGED <<failed, claimed, faults>>
       \/ Fault /\ failed' = failed \cup claimed /\ claimed' = {} /\ UNCHANGED turn
    /\ UNCHANGED <<turns, wake, heard, status, stamped, waiting, waits, marked, counted, dispatched, delta,
                   pending, record, writes, due, asked, slips, lost>>

TasksTypeOK ==
    /\ status \in [Tasks -> {"none", "running", "done", "cancelled", "past"}]
    /\ stamped \subseteq Tasks /\ waiting \subseteq Tasks /\ waits \in 0..MaxWait
    /\ marked \subseteq Tasks /\ counted \subseteq Tasks
    /\ dispatched \subseteq {"default", "detached"} /\ delta \in 0..1 /\ pending \in Nat
    /\ record \in [Tasks -> {"none", "running", "settled", "delivered"}]
    /\ writes \subseteq Tasks \X {"started", "settled", "delivered"}
    /\ due \subseteq Tasks /\ claimed \subseteq Tasks /\ resume \in BOOLEAN
    /\ asked \subseteq Tasks /\ slips \subseteq Tasks /\ lost \subseteq Tasks
=============================================================================
