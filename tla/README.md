# A TLA+ model of prism-service

prism-service is a gateway to language models with an agent harness: a *turn* of
a conversation is a loop that asks a model, runs the tools it calls, asks again.
A turn may park for hours on a person (an approval card, a question, a cost cap),
take messages while it runs, start background work that outlives it, and is
driven again from what it recorded when the process restarts. This directory
models that coordination: who may decide what, once; what survives a crash; what
two requests do to each other when they meet. Paths below are relative to
`src/src/` of the repository.

## The system

| Component | State | Operations | Interacts with | Hard because |
|---|---|---|---|---|
| Approval cards `services/ApprovalRegistry.ts`, `PendingDecisionStore.ts` | `pending_decisions` collection, fallback map, one waiter per loop | open, resume, decide, lapse, cancel, retire | gate, POST route, turn end, restart | racing deciders, awaits between read and write, failed writes, crash |
| Approval gate `harnesses/lifecycle/ApprovalGate.ts` | none | judge a batch, ask, act on the answers | registry, hooks, permissions | a stop while parked; retry cards after a restart |
| Turn runs `TurnRunStore.ts`, `TurnRunRecorder.ts`, `ResumedPass.ts`, `TurnResumeService.ts` | `turn_runs` record, the conversation's `turnCheckpoint` | begin, pass, call, finish, prepare, claim, re-drive | conversation store, gate, executor | crash between any two writes, best-effort writes, replays |
| Agentic loop `AgenticLoopService.ts`, `ReActHarness.ts`, `BaseAgenticHarness.ts` | loop state, messages of the turn | iterate, checkpoint, gate, execute, finalize | everything | each boundary is an await |
| Questions `QuestionRegistry.ts` | question records, waiters | ask, answer, cancel, adopt | store, mailbox, run state | blocking and non-blocking answers |
| Budget pause `BudgetPauseRegistry.ts`, `CostBudgetEnforcer.ts` | pause record, waiter, caps | open, raise, lapse | store, run state | raise racing a stop or a restart |
| Conversation run state `conversation/ConversationRunState.ts` | park count, `awaiting_user` flag | park, unpark, clear | the three registries | unawaited writes |
| Mid-turn input `TurnInputMailbox.ts`, `TurnInputStore.ts`, `NativeSteerRegistry.ts`, `TurnInputDrain.ts` | a box per running turn, stored entries | open, post, drain, seal, close | loop, routes, restart | an entry accepted just as the turn ends |
| Session registry `AgentSessionRegistry.ts`, `utils/SseUtilities.ts` | running session per conversation | register, stop, cleanup, admit | routes, loop | a stopped turn still unwinds |
| Local model queue `LocalModelQueue.ts` | slots and waiters per local instance | acquire, release, abort | providers | hand-over of slots, aborted waiters |
| Orchestrator slots `orchestrator/InstanceLoadBalancer.ts`, `SpawnCaps.ts` | reservations, running counts, spawn ledger | pick, reserve, admit, release | orchestrator | leaked or double-released slots |
| Orchestrator `OrchestratorService.ts` | sub-agents of a conversation | spawn, collect, stop, resume | slots, mailbox | parallel children |
| Background work `AsyncTaskRegistry.ts`, `DetachedWorkStore.ts`, `background-tasks/` | tasks, their outcomes | register, settle, claim, notify, wake | mailbox, restart | outcome delivered exactly once |
| Timers, scheduled tasks `ConversationTimerService.ts`, `ScheduledTaskService.ts` | timers with next fire time | set, tick, claim, cancel | loop | a tick racing a turn, two processes |
| Goals `ConversationGoalService.ts`, `goals/`, `harnesses/lifecycle/GoalGate.ts` | goal and proposal on the conversation, `GoalRun` of a turn | set, propose, approve, update, verify, mark, book, clear | loop, afterResponse hook, tools, routes, boot | five writers of one document, none conditional |
| Conversation store `conversation/`, `Finalizer.ts` | conversation documents | append, checkpoint, finalize, patch | everything | `isGenerating` left behind |
| Memory `MemoryExtractor.ts`, `memory/` | watermark, consolidation runs | extract, consolidate | after each turn | a watermark past what was read |
| Permissions `permissions/`, `PolicyEngine.ts`, `AutoApprovalEngine.ts` | rules | evaluate | gate | precedence |
| Hooks, compaction, MCP, ACP, workflows, benchmarks, webhooks, providers, routes | mostly none | | | I/O |

Per component, what makes it correct: a card is decided once and the turn acts on
that decision and no other; a restart repeats no side effect unasked and loses no
finished work; an answer or message accepted is delivered, once; a slot is never
granted twice nor lost; background outcomes reach their conversation exactly
once; a timer fires at most once and not into a running turn; a goal completes
only on a verdict, and work on it without the user ends.

## Modules

| Module | Models | Of the code |
|---|---|---|
| `DecisionBoard` | what a store of pending decisions promises | abstract: no code of its own |
| `Approvals` | one loop key's cards, their waiter, its turns and POSTs | `ApprovalRegistry.ts`, `PendingDecisionStore.ts`, the gate's wait, `AgenticLoopService.ts` (start, finally), `AgentSessionRegistry.isActive` |
| `TurnRuns` | one conversation's ReAct loop, its run record, its checkpoint, the boot | `TurnRunStore.ts`, `TurnRunRecorder.ts`, `ResumedPass.ts`, `TurnResumeService.ts`, `ReActHarness.ts`, `ApprovalGate.ts`, `ToolExecutor.ts` |
| `TurnInput` | one conversation's mailbox, its durable copy, native steers, the boot's delivery | `TurnInputMailbox.ts`, `TurnInputStore.ts`, `TurnInputDrain.ts`, `openai-responses-socket.ts` |
| `SubAgents` | one root conversation's sub-agents, the caps and the instances they reserve | `OrchestratorService.ts`, `orchestrator/` (`SpawnCaps`, `InstanceLoadBalancer`, `InstanceResolver`, `SubAgentLifecycleService`) |
| `RunState` | one loop's turn as its waits see it, its conversation's park count and mark | `conversation/ConversationRunState.ts` |
| `Questions` | the `ask_user` questions of the loop | `QuestionRegistry.ts`, `AskUserQuestionTool.ts`, the answer route, `TurnResumeService.ts` (adoption) |
| `BudgetPause` | the pauses at the cost cap | `BudgetPauseRegistry.ts`, `CostBudgetEnforcer.ts`, the raise route |
| `Waits` | both, over one turn, its stop, its end, crash and boot | `AgenticLoopService.ts`, `TurnResumeService.ts` |
| `TaskWakes` | how a notice reaches its conversation | `background-tasks/TaskNotificationDelivery.ts` |
| `AsyncTasks` | async tasks, their outcomes, their durable records, the count on the conversation | `AsyncTaskRegistry.ts`, `DetachedWorkStore.ts`, the tools that dispatch, wait and cancel |
| `TaskWatch` | one monitored workspace task | `background-tasks/BackgroundTaskWatcher.ts` |
| `Background` | the three together, over turns, crashes and boots | `TurnResumeService.ts` |
| `GoalRecord` | the goal on the document and what one update does to it | `ConversationGoalService.ts` (`applyGoalPatch`, `describeBudgetExhaustion`, `buildGoal`) |
| `Goals` | one conversation's goal and everybody who writes it | `ConversationGoalService.ts`, `GoalGate.ts`, `GoalTools.ts`, `ConversationsRoutes.ts`, the afterResponse hook |
| `MC*` | the small instances TLC runs | |
| `*_proofs` | theorems about the module of that name | |

In all of them one step runs from one `await` to the next, because that is what
the event loop makes atomic: a database call and the code after it are two
steps, and any other handler, a stop or a crash may come between. A database
call that fails uses up one of `MaxFault`. A crash empties everything the
process holds and keeps what Mongo holds.

### Approvals, and DecisionBoard

State: `db` and `memory` are the collection and the fallback map of
`PendingDecisionStore` (memory shadows the database, as in `find`); `waiter` is
the entry of `waiters` for the loop key; `pc`, `batch`, `stopped` are the turns;
`lapsing` and `post` are the `lapse()` and `decide()` calls in flight, each with
what it read before its await; `acted` is what the gate acted on. A batch is
numbered by the pass that opened it.
Actions: `Open`, `ResumeFind`, `InsertMissing`, `Park` are `open()` and
`resumeBatch()` cut at their awaits; `DecideFind`, `DecideSettle`,
`DecideDeliver` are `decide()`; `LapseFind`, `LapseSettle`, `LapseDeliver` are
`lapse()` with `settleAll` and the forced denials after it; `StartTurn`, `Stop`,
`EndTurn` are the turn around it (`retireOrphans`, the abort listener, `cancel`
in the finally); `Crash`, `Redrive`, `Salvage` the restart.
`DecisionBoard` is what that amounts to for a caller: asked about once, decided
once, never changed, forgotten only by a crash and only if it was never
persisted. `StoreKeepsPromise` is the refinement, with `outcome` the merged view
of the two stores.

### TurnRuns

State: `transcript`, `ckpt` (the `turnCheckpoint`), `run` (the `turn_runs`
document: turn, attempts, the pass in progress, the progress of each of its
calls, the cap it paused at), `card` (the "run it again?" cards), `me` (the
running turn), `ran` (how often each call was executed).
Actions follow `ReActHarness.run` from boundary to boundary: `SaveCheckpoint`,
`BeginRun`, `PauseAtCap`/`RaiseCap`, `Answer`, `RecordPass`, `GateUnasked` or
`GateAsks`..`GateDecided`, `CallStarts`, `CallRuns`, `CallFinishes`, `EndBatch`,
`LeaveLoop`, `Finalize`, `Finish`. The boot is `Examine` (prepare), `Unmark`,
`Recover`, `Lapse`, `Claim`, `Merge`, `Drive` (start, which marks again).
`ForeignAppend` is another writer's message. Ordinary cards belong to
`Approvals`; here the gate lets any subset of a pass run.

### TurnInput

State: `box` (entries, those held back for a native steer, those whose durable
copy was asked for), `offers` and `applied` (native steers without outcome,
and applied ones whose event is unread), `taken` (read, not yet in the turn's
messages), `store` and the unawaited `writes` to it, `listed` (what a boot read).
Actions: `Post` (with its native offer), `Drain`, `Checkpoint`, `StreamBegins`,
`SteerApplied`, `SteerFallsBack`, `TakeApplied`, `StreamEnds` and `StreamFails`,
`Seal`, `Finalize`, `Close`; at boot `Merge`, `List`, `Redrive` or `Deliver` and
`Forget`.
Left out: the cap of 50 entries, their order, and the joining of task
notifications under one entry (whose two writes may land in either order, so
that an older text may be what a restart delivers).

### SubAgents

State: `stage` and `place` (a member's spawn, and where its router put it),
`reservations` (`instanceReservations`), `spawned` and `reserved` (the ledger of
the root conversation), `active` (`activeSubAgents`), `object` (the
`SubAgentState` objects, of which a rebuilt agent gets a new one), `document`
(whether the agent's document says it is complete), `seen` (a resume that has
read it). An object's `loop` is what its `_runSubAgentLoop` is doing, whatever
its `status` says; `signal` is its `abortController`.
Actions: `Assign`, `Admit` or `Refuse`, `Throw` or `Register` are a spawn;
`LoopReturns`, `Settled`, `LoopStops`, `LoopFails` the ends of a run;
`StopBegins`/`StopMarks` (`stopAgent` around the worktree's removal), `StopAll`,
`DeleteTeam`; `Resume` (also `continueAgent`), `FollowUp` (`sendMessage` to a
finished agent), `Evict`, `ReadDocument`/`Rehydrate`.
Left out: follow-ups held for a running agent (they are `TurnInput`), merging of
worktrees, the detached dispatch and its notification, model eviction, nested
delegation (the ledger is shared by the whole tree, so its depth is immaterial
to the caps), a change of the caps.

### RunState, Questions, BudgetPause, Waits

`RunState` has the turn (`fresh`, `adopting`, `running`, then the stages of the
`finally` of `AgenticLoopService`), `parks` (`parkCounts`), `awaiting` (the
`runState` of the document) and `writes`, the updates of it under way: `park` and
`unpark` do not wait for them, so two may land in either order (`crossed`).
`Questions` has the records (`question`, `owed` for `undelivered`), the waiters
(`held`), where each `ask_user` call and each answer request is, and what a
re-driven turn adopts. A blocking question parks; a card goes on and its answer
comes through the mailbox. Actions: `Ask`, `Reread`, `TakeEarlier`, `Hold`,
`Withdraw` are the call; `PostFind` to `PostClears` the answer route cut at its
awaits; `AdoptList`, `AdoptHands`, `AdoptMarks` the re-driven turn.
`BudgetPause` has the records in the order of their inserts, the one `waiter`, a
`gate` per turn's budget (`waitForBudgetRaise`), the `lapses` under way and the
raise requests. Actions: `GateOpens`, `GateLooks` (re-driven), `GateSupersedes`,
`GateInserts`, `GateHolds` are a pause; `RaiseFind` to `RaiseClears` the route.
`Waits` interleaves them over one turn: `Retire` at its start, `Stop`, `Seal`,
`EndQuestions`, `SettleQuestions`, `EndPauses`, `TurnOver` at its end, `Crash`,
`Redrive`, `BootLapses`. A stop only sets the signal; each wait withdraws in a
step of its own. `settleAll` is one step.
The records of the pauses refine `DecisionBoard` (`PausesKeepPromise`), none of
them volatile. Those of the questions do not, as an answer the call refuses goes
from answered to cancelled, and a question that was cancelled may be asked again.
Left out: the fallback map (see `Approvals`), overlapping turns, a raise below
what was spent, which the route refuses before it touches anything.

### TaskWakes, AsyncTasks, TaskWatch, Background

`TaskWakes` is `deliverNotification` and `runWake`: `turn` is the turn that holds
the conversation, `wake` the one pending wake with its queue and what it woke a
turn with, `heard` how often each notice reached the conversation, `failed` what
was logged and dropped. Handing over to an open mailbox counts as reached; what
becomes of it there is `TurnInput`'s subject.
`AsyncTasks` has `status` and the flags of each task (`stamped` for `awaitedBy`,
`marked`, `counted`), the durable `record` and the `writes` to it that nobody
waits for, what a boot lists and claims (`due`, `claimed`), and
`pendingBackgroundTasks` (`pending`). Actions: `Dispatch`, `WaitBegins`,
`WaitEnds`, `Cancel`; the three ways of a completion, `LeftToWaiter`,
`IntoMailbox`, `WakesItsParent`; `Seals`, `Counts`, `TurnFails` the turn's end;
`Claims` and `Reports` the report after a restart.
`TaskWatch` follows one task of the workspace: `Handles`, `HandsOn`, `Saves` are a
frame, in that order; `Stops` and `StopLands` the agent's stop.
`Background` composes them, with `Crash` and `Boot`.
A completion is one step, as its awaits are imports already loaded. Left out: the
tasks of sub-agents (they report to a harness, not to the conversation), the
pruning of settled tasks, the `DetachedDispatchRegistry`.

### GoalRecord, Goals

`GoalRecord` is pure: a goal is a record (`id`, `rubric` a version number,
`status`, `pause`, `judged` the rubric its verdict is about, `rounds` for
`verificationRounds`, `marked` for `continuingSince`, `spent`), and `Patched`,
`Booked`, `Judged`, `Interrupted` are what each write makes of the goal it read.
`Goals` has the document (`goal`, `proposal`), the turn with its `GoalRun`
(`alone` for `continuing`, `empty`, `used`, `spoke`), the afterResponse `hook` of
each turn, the user's `request`s. A call of the service is two steps for whoever
makes it: it reads the document, and later writes the whole goal back:
`LoopLocates`/`LoopWrites`, `Locate`/`Answer`, `HookLocates`/`HookBooks`. `Skips`
and `Written` say, per call, when it returns early and what it writes.
Actions of the turn: `StartTurn`, `Open` (late spend), `UseTool`, `UseGoalTool`,
`Propose`, `Speak`, `Gate` (`decide` up to the verifier), `Verify`, `LeaveLoop`,
`Finalize` or `LoopThrows` with `Close`; then `Crash`, `Boot`
(`pauseInterruptedRuns`) and `Redrive`.
History: `crossed` (a write replaced a goal its writer had not read), `sent`
(revisions asked for), `vouched` (goals with a satisfied verdict), `unattended`.
Left out: a change of the budget or of `maxIterations`, the turn and deadline
lines of a budget (they pause as the dollar line does), progress, obstacle texts,
the step rubric, the narrowing to a goal's capabilities, how the verifier comes to
its verdict. Spend is one unit a turn.

## What is checked

Run from this directory: `tlc -config <run>.cfg MC<Module>.tla`.

| Run | Bounds | Shows |
|---|---|---|
| `Approvals_restart` | 2 calls, 1 turn, 2 POSTs, 2 batches, 1 crash, no failed call | one decision per call (`DecidedOnce`), the turn acts on it (`ActsOnStored`), "delivered" is true (`DeliveredIsKept`), one pending batch (`OneBatchPending`) |
| `Approvals_turns` | 1 call, 2 turns, 1 POST, 2 batches, 1 crash, 1 failed call | a card lapses under the stopped turn only (`LapsesOwnCards`), a decision is lost in one known window only (`LostOnlyWhileOpening`), the board refinement (`StoreKeepsPromise`), a stopped turn leaves its wait (`StopEndsWait`) |
| `TurnRuns_restart` | 2 calls (one rerunnable), 2 turns, 2 passes, 2 attempts, 2 crashes | no unasked repetition (`RepeatNeedsYes`), no message twice (`MessageOnce`), nothing lost (`NothingLost`), the checkpoint leaves for the transcript only (`CheckpointKept`) |
| `TurnRuns_faults` | 2 turns, 1 pass, 1 attempt, 2 crashes, 1 failed call, 1 foreign append | re-drives are bounded (`DrivesBounded`), results stand (`FinishedStands`), every boot settles (`BootSettles`) |
| `TurnInput_restart` | 2 inputs, 2 turns, 2 crashes, 1 failed call | one place per input (`TakenOnce`), nothing dropped (`NothingDropped`), it arrives (`AcceptedArrives`) |
| `SubAgents_team` | 2 members (one may be rebuilt once), instances of 1 and 2 slots, cap of 1 running and 2 spawns | the ledger (`LedgerExact`), the cap (`SpawnsWithinCap`), what counts has a loop (`RunningHasLoop`), no second loop (`OneLoopEach`), no double release (`LoadNotHidden`) |
| `SubAgents_stop` | the same | **violated**: `StopReachesLoop` |
| `Waits_answers` | 1 blocking question, 1 card, 1 answer request, 1 turn, 1 crash, 1 failed call | an answer reaches the model once (`AnswerOnce`), is not dropped (`AnswerKept`), and lets its call go on (`AnsweredGoesOn`) |
| `Waits_pauses` | 1 blocking question, 2 pauses, 1 raise, 1 turn, 1 crash, 1 failed call | the conversation shows as waiting when it waits (`MarkIsTrue`), a raise is applied once (`RaiseOnce`), no wait on a settled pause (`WaitsForOpen`), the board refinement of the pauses (`PausesKeepPromise`), a stopped turn ends (`StopEnds`) |
| `Background_work` | 1 task that ends its turn, 1 detached, 1 wait, 1 turn of the user, 1 crash, 1 failed call | an outcome is told once (`ToldOnce`), always in somebody's hands (`OutcomeKept`), told in the end (`OutcomeTold`), by turns that do not overlap (`TurnsAlone`) |
| `Background_monitor` | 2 events and the exit, 2 turns of the user, 1 crash, 2 failed calls | frames in order, none skipped (`FramesInOrder`), told in the end (`FramesTold`) |
| `Goals_turns` | 2 turns, 1 request, 1 call of a goal tool, 2 goals or rubrics, late spend of 1, budget of 2, 2 rounds, 1 crash, 1 failed call | revisions stay below `maxIterations` (`RoundsBounded`), the mark boot trusts is true (`MarkIsHonest`), only a verdict completes a goal (`CompletedByVerdict`) |

More configurations are run by hand. `Goals_ends` passes: work without the user
ends (`AutonomyEnds`). The others are violated, as the section on violations says:
`Approvals_lost` (`NoLostDecision`), `Approvals_overlap` (`CancelsOwnCards`),
`TurnRuns_repeat` (`EachRepeatAsked`), `TurnInput_error` (`EndKeepsAccepted`),
`Waits_orphan` (`NobodyLeftWaiting`), `Background_count` (`CountPaidBack`),
`Goals_restart` (`RestartPauses`), `Goals_resume` (`OnlyUserResumes`),
`Goals_spend` (`SpendStays`), `Goals_verdict` (`VerdictOnRubric`).
The type invariants need no run, as they are proved (`TypeCorrect`).

Why these bounds: each is the least at which the cases a property is about
occur together. Two calls make a batch partly decided; two POSTs race; two
batches make an old one to be superseded; a second crash falls into the recovery
from the first; one failed call is enough, as no property compares two; two
turns make a successor to be disturbed; a cap of one with two members makes a
refusal, a slot of one an overflow; a blocking question beside a card lets a
crash meet both, beside a pause it makes two parks; two pauses let a raise be
late for its own; two events leave one between two others; two goals let a verdict
come back to another goal than it was about, two turns let one turn's booking
cross the next one's writes, two rounds send the agent back before they run out,
and a request and a tool call beside them are three writers with the booking. Counters that the code does not bound
(`MaxPass`, `MaxTurn`, `MaxCrash`, `MaxFault`, `MaxForeign`, `MaxObject`,
`MaxReader`, `MaxPause`, `MaxSeq`, `MaxWait`, `MaxMade`, `MaxTools`, `MaxLate`) are bounded in guards; `MaxAttempts`,
`MaxSpawns`, `MaxConcurrent`, `MaxRunning`, `MaxRounds`, `MaxEmpty`, `Budget` are
the code's own. Every behaviour stops when they are used up and every turn
is over, which is why the configurations do not ask for the absence of deadlock.
`Calls` and `Posts` of the first two Approvals instances are symmetric; runs with
liveness use no symmetry.

### Fairness

- `Approvals`: a database call that was issued returns and its continuation runs
  (weak fairness of each lapse, turn and POST step, which is the event loop).
  Nobody has to click, stop or start.
- `TurnRuns`: the steps of a boot (`TurnResumeService` awaits one after the other).
- `TurnInput`: the same of the boot; a stream ends or fails, and a turn is sealed
  some day. The last is strong fairness, as a turn is between streams and may be
  sealed again and again without it: iterations are bounded by `maxIterations`
  and every stream by its provider's timeout.
- `Waits`, `Background`: weak fairness of `System`, everything that is not in
  `Outside`: the event loop goes on while it has something to do, calls return,
  timers and polls fire, and in `Background` a turn comes to its end. People,
  models and the workspace owe nothing: no question need be answered, no cap
  raised, no task end.
- `Goals`: what the loop has started goes on, to its end, and a boot takes place
  (`Loop`, `Boot`). The agent need use no tool, the user need not speak or stop,
  the hook need not be heard of again: `AutonomyEnds` owes nothing to any of them.
- `SubAgents` states safety only: how long a run lasts is its model's affair.

### What the violations say

Each contradicts what the code, a comment or a document says of itself.
`SubAgents_stop` is registered as a run; the others are stated the same way and
run by hand.

1. `Approvals_lost`. `open()` promises "the returned promise resolves when every
   call in it is decided". A decision that lands after the opener read or
   inserted the record, and before it parked its waiter, is settled, answered to
   its POST as undelivered, and told to nobody: the turn waits on a decided call
   until it is stopped.
2. `Approvals_overlap`. A stopped turn's `cancel(loopKey)` in its finally denies
   the cards of the next turn, which the admission lets start as soon as the
   first is stopped.
3. `TurnRuns_repeat`. A call that was allowed to run again after a restart and is
   interrupted by a second one runs a third time on the same yes: its card is
   found decided under the same id.
4. `TurnInput_error`. An input the provider applied natively is in nobody's hands
   while its event is unread, or read and not yet recorded: a stream that breaks
   off there drops it, with its durable copy.
5. `SubAgents_stop`. A finished agent started again by a message has no abort
   controller: a stop marks it, and its loop goes on.
6. `Waits_orphan`. A sub-agent that outlives its turn and comes to the cap after
   the turn's end has lapsed the pauses parks for good: nobody is left to raise
   the cap for it. It may also take the next turn's pause with it (`late`).
7. `Background_count`. `ReActHarness` says of the count of background work that
   whichever path delivers the completion "pays it back exactly once"; a task
   dispatched the default way whose outcome a later turn takes with
   `wait_for_tasks` is not paid back, and a completion that wakes a turn pays for
   its siblings too.
8. `Goals_restart`, `Goals_resume`. "A restart must not resume unattended spend on
   its own" (`index.ts`), and a paused goal "only the user can resume"
   (`GoalTools.ts`). `update_goal` refuses a claim on a paused goal, and lets the
   model set the status `active` on it: any turn, the re-driven one included, may
   resume the goal, and then work on it alone.
9. `Goals_spend`. "The afterResponse hook books the total" (`docs/goals.md`). The
   hook is not awaited, and every writer puts back the whole goal it read: a
   request, the next turn's write or the close of the run that crosses the
   booking takes it back.
10. `Goals_verdict`. "A new rubric forgets the verdict about the old one"
    (`docs/goals.md`). A rubric edited while the verifier reads the old one gets
    the old one's verdict all the same, a completion included.

Observations of the same kind that no run states (the properties name each as an
exception, by a history variable):

- `TurnRuns`: a failed `recordCallStarted` lets a call with side effects repeat
  unasked after a crash (`RepeatNeedsYes` needs `MaxFault = 0`); a failed delete
  at the end of a turn and a crash at the start of the next replays the old pass
  (`MessageOnce` likewise); an append to the conversation by another route drops
  the running turn's checkpoint (`CheckpointKept` needs `MaxForeign = 0`); a
  crash between the boot's merge and its new mark gives up a turn that has
  re-drives left.
- `TurnInput`: when turns overlap, the old one's `close` takes the new one's box
  away; what it held is dropped, though never taken twice (`OncePerInput` is
  proved for overlapping turns too).
- `Waits`: a crash or a failed call between an answer's settle and its
  `undelivered` flag loses a card's answer, or delivers it again (`torn`); an
  answer or a raise between a call's last read and its waiter leaves the call
  waiting on a settled record (`missed`, `overtaken`); a raise may wake a newer
  pause than the one it read; a re-driven turn that ends before it parks again
  leaves the conversation showing as `awaiting_user`.
- `Background`: an outcome is marked delivered before the wake has persisted it,
  and claimed by a boot before its report is appended, so a crash there loses it
  (`lost`), as a failed append does (`failed`); waiting for a task that has
  settled, with its wake still queued, tells its outcome twice (`asked`); two
  writes of a record may cross (`slips`); a cancelled or failed wake pays nothing
  back; a frame handed over when the process dies is told again (`resaid`), one
  whose hand-over fails is skipped; that a stop was asked for is not on record, so
  that the end of a stopped task is announced after a restart.
- `Goals`: a crossed write may also undo a pause or a mark, and put a cleared goal
  back, which is why `RoundsBounded` and `MarkIsHonest` speak of goals no write
  has crossed; the close that fails to take its mark back leaves a goal that the
  next boot pauses, whoever worked on it last.
- `SubAgents`: resuming, continuing and following up ask no cap, so more may run
  than `maxConcurrentPerConversation` (`SpawnsWithinCap` speaks of first runs);
  a failed run, a refused and a thrown spawn never give their instance's
  reservation back; pinned and rebuilt agents give one back that they never made
  (hence the correction in `LoadNotHidden`); the routers select instances without
  the running agents `selectInstanceForMember` asks for, and given them it would
  count an agent twice; two resumes of an evicted agent at once make two objects
  and two loops; a stop while the worktree is being settled ends as complete.

## What is proved

`tlapm` checks every proof, for all values of the constants that satisfy the
module's one named assumption (`ApprovalsAssumption`, `TurnInputAssumption`,
`SubAgentsAssumption`, `TurnRunsAssumption`, `GoalsAssumption`, the four that `Background`
extends and the three that `Waits` extends: numbers are numbers, sets are finite,
caps are positive, there is a question to ask).

- **`Approvals_proofs`**: `Invariance` (`Spec => []Inv`), `TypeCorrect`,
  `OneDecision` (`DecidedOnce`), `ActsFaithfully` (`ActsOnStored`), `StoreRefines`
  (`StoreKeepsPromise`). `DecidedOnce` is not inductive: a POST delivers later
  than it settles and an opener trusts what it read, so `Inv` adds that batch
  ids are never shared and unused ones have no records (`PassesAreOwn`), that
  what an opener carries over an await agrees with the stores
  (`OpenersAreRight`), that the waiter was told only what is stored
  (`WaiterIsRight`), and that a POST hands on only what it won
  (`HandlersAreRight`). The refinement then needs only `Inv`: opening a batch is
  `Ask`, a settle is `Decide`, a crash is `Forget`, all else stutters.
  `TurnsStandAlone` is a second invariant, under which four more hold:
  `DeliveriesAreKept` (`DeliveredIsKept`), `LapsesAreOwn` (`LapsesOwnCards`),
  `LostInTheWindow` (`LostOnlyWhileOpening`), `BatchesComeOneByOne`
  (`OneBatchPending`). They are about turns that do not overlap, as in the runs
  that check them; `LostInTheWindow` holds of overlapping ones too while no call
  fails. `TurnsInv`: a turn's own lapse is what it is at, its abort listener's is
  of a stopped turn (`LapsesAreDue`), the waiter belongs to a turn that waits on
  its last batch (`WaiterWaits`), a dead process lapses nothing (`DownIsQuiet`),
  and without overlap one turn at a time is neither to come nor over, and only its
  lapses are under way (`Alone`): a lapse never meets another turn's waiter. Then each
  property takes what is still missing: a lapse is known only to a stopped turn
  (`LapsesOwn`); what an opener or a waiter holds as undecided is pending, on its
  way, or was missed (`HearInv`); what is pending is of the last batch, or that
  batch is not inserted yet and the lapse at its turn's start has read all that is
  pending (`OneBatch`).
- **`TurnInput_proofs`**: `Invariance`, `TypeCorrect`, `OncePerInput`
  (`TakenOnce`), for overlapping turns or not. `TakenOnce` alone does not survive
  a boot: it needs that a checkpoint's inputs are neither delivered nor waiting
  (`CheckpointIsAhead`), that an input found anywhere was accepted, so that a new
  post meets none of itself (`OnlyAccepted`), and that a dead or finished turn
  holds nothing (`BootIsQuiet`).
  `NothingIsDropped` (`NothingDropped`) and `EndsDeliver` are about turns that do
  not overlap (an overlapping one's `close` does drop inputs). The invariant
  `KeepInv` is about who may let go of an input: what is held is under offer, in the
  stream or cut off with it (`HeldIsOffered`), so a turn that is to finalize leaves
  nothing else in its box (`OneTurn`), and has itself what its checkpoint and its
  box's records stand for (`TurnHasIt`); hence `close` forgets settled inputs only,
  whatever is not settled is stored or about to be, and a boot has read all of it
  (`Recorded`). `EndsDeliver` bounds what `TurnInput_error` shows: with no crash and
  no failed call, what a broken stream had applied is all that an end loses.
- **`SubAgents_proofs`**: `Invariance`, `TypeCorrect`, `LedgerIsExact`,
  `CapHolds` (`SpawnsWithinCap`), `NoGhosts` (`RunningHasLoop`), `OneLoop`
  (`OneLoopEach`), `LoadIsCounted`, for any team, instances and caps. The cap is an argument about
  cardinalities: an admission adds one to `reserved` only below the cap, a
  registration turns one reserved place into at most one first run
  (`FS_AddElement`, `FS_Subset`), and no other step begins a first run
  (`CapStands`). `OneLoop` needs that a status tells whether there is a loop
  (`LoopStates`) and that an agent has no object before its spawn registers
  (`Unborn`). `ObjectMoves` is the one argument the eight steps on a single
  object share.
  `LoadIsCounted` (`LoadNotHidden`) is inductive with `Inv`, by counting: an
  assignment adds one on both sides, a registration trades a spawn on its way for a
  held object, and whatever set of objects is released, those booked are held no
  more and the others are strays, so that giving back one for each keeps the load
  covered, also where the reservations stop at 0 (`CoverReleases`).

- **`TurnRuns_proofs`**: `Invariance`, `TypeCorrect`, `DrivesStayBounded`
  (`DrivesBounded`), `FinishedStays` (`FinishedStands`) for any failed calls,
  crashes and foreign appends; `ExactInvariance`, `RepeatsHaveAYes`
  (`RepeatNeedsYes`), `MessagesComeOnce` (`MessageOnce`) where no call fails;
  `CheckpointStays` (`CheckpointKept`) and `NothingIsLost` (`NothingLost`) where
  nobody else appends either, as in the runs that check them. The argument is in
  three layers. `Inv` relates the record to the loop whatever fails: iterations
  never pass the answers (`Paced`), a record that is the running turn's is behind
  it until the pass is recorded and with it after (`Ahead`), what the loop thinks
  of a pass is what the record says (`Faithful`), and every re-drive was counted
  before it began (`Counted`). `Exact` adds what holds when writes land: the
  record exists when it should (`OnRecord`), a call that is to run has not run or
  has its yes (`RanOnce`), a message is in one place (`Placed`). `Safe` says where
  the messages of finished calls are: transcript, checkpoint, or the pass on
  record (`Owed`).
- **`Background_proofs`**: `Invariance`, `TypeCorrect`, `OutcomesToldOnce`
  (`ToldOnce`), `OutcomesKept` (`OutcomeKept`), `FramesToldInOrder`
  (`FramesInOrder`), `TurnsRunAlone` (`TurnsAlone`), for any tasks, events, turns,
  failures and crashes. `TasksInv` says of one task at a time what its status
  means for the rest (`Placed`) and that a record that missed no write is in one
  pair of hands (`Once`); `FramesInv` says where the watcher is by the one frame it
  is at (`Watched`). Both need that a notice is in a wake's queue or being
  appended, not both (`QueueApart`).
- **`Goals_proofs`**: `TypeCorrect`, `Completions` (`CompletedByVerdict`), `Marks`
  (`MarkIsHonest`), `Rounds` (`RoundsBounded`), for any requests, turns, budgets,
  limits, failures and crashes. None of the three is inductive, as a write brings
  back what was read long before, so each invariant speaks of every goal anyone
  holds. `Shape`: the types, and whoever is about to write has read a goal
  (`Prepared`). `Vouched`: every completed goal, stored or read, is a vouched one,
  and no call but a verdict asks for a completion. `Honest`: where nothing crossed
  or failed, a goal at rest is unmarked, and the mark is asked for only by a loop
  that works alone. `Counted`: while nothing crossed, the revisions asked for are
  no more than the goal's rounds and than the rounds the gate read, and fewer than
  the round of the verdict under way.
- **`Waits_proofs`**: `Invariance`, `TypeCorrect`, `AnswersAreKept` (`AnswerKept`),
  `AnswersComeOnce` (`AnswerOnce`), `RaisesComeOnce` (`RaiseOnce`),
  `ParksAreCounted`, `MarkTellsTheTruth` (`MarkIsTrue`), and, from a second
  invariant, `GatesStandRight`, `PausesWaitedForAreOpen` (`WaitsForOpen`) and
  `PausesEndWithTheirTurn` (`EndsWithTurn`, which no run checks), for any questions,
  pauses, turns, failures and crashes; and `PausesRefine` (`PausesKeepPromise`): an
  insert is an `Ask`, a raise and each lapse a `Decide` of what is pending, every
  other step a stutter. The first invariant has a part for each
  module `Waits` composes. `RunInv`: the park count is the waits held, so no step
  unparks what is not parked (`ParksCounted`). `QInv`: the one request that won a
  card holds an answer nobody had (`OneWinner`), an adoption works on answers that
  are owed (`OwedOnce`), and an answer was given once more only for each crash or
  failure that tore it (`Tallied`). `PInv`: only the re-driven turn looks for a
  stored raise (`OneLooks`), and a raise is stored, about to lift, about to wake
  or applied, never two of these (`RaisedIsOnce`). `WaitsForOpen` needs `OInv`:
  while no gate is late for its own turn, the lapse of a turn catches every pause
  opened before it (`LapseCatches`), a raise that saw a waiter wakes the gate it
  saw (`SeesHere`), and a gate about to wait is not settled yet (`NearsOpen`).

Every invariant and every action property the passing runs check is proved. Only
model-checked: the liveness properties (with their fairness, out of the prover's
reach). Nothing recursive is defined.

## What is not modelled

Timers and scheduled tasks have state worth a model and none here yet.
The local model queue is an ordinary counting semaphore with hand-over, sequential
between awaits, whose tests reach what can go wrong. Memory extraction, permissions
and the conversation store are, apart from what `TurnRuns` and `TurnInput` have of
them, single writes or rule evaluation. Hooks, compaction, MCP, ACP, workflows,
benchmarks, webhooks, providers, routes and model tables are I/O, formatting and
data: most of the repository's lines, and nothing they keep is raced for. Within
the modelled components: sub-agents' own tasks, the detached dispatch, timeouts of
waits, and the list at each module above.

## Plan

1. Done: `DecisionBoard`, `Approvals`, `TurnRuns`, `TurnInput`, `SubAgents`,
   `Waits`, `Background`, `Goals`, with the proofs above.
2. `Timers`: a tick claims once and defers while a turn runs.
3. A promise the questions keep: that of `DecisionBoard` with an answer taken back
   and an item asked again.
4. Proofs: all safety properties that runs check are proved; next, those of 2 and 3,
   and what overlapping turns keep of the properties proved without overlap.
