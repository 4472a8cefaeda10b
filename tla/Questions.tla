----------------------------- MODULE Questions -----------------------------
(***************************************************************************)
(* The ask_user questions of a loop: the records of QuestionRegistry, the  *)
(* waiters of the process, the ask_user call that asks (and asks again     *)
(* when its pass is replayed), the answer route, and what a re-driven turn *)
(* adopts. A step runs from one await to the next. The fallback of the     *)
(* store to memory is left to Approvals.                                   *)
(***************************************************************************)
EXTENDS RunState, FiniteSets

CONSTANTS
    Asked,     \* the ask_user calls of the turns, one question each
    Blocking,  \* those that park the turn
    Posts      \* answer requests

ASSUME QuestionsAssumption ==
    IsFiniteSet(Asked) /\ Asked # {} /\ Blocking \subseteq Asked /\ IsFiniteSet(Posts)

VARIABLES
    question,  \* each question's record
    owed,      \* records flagged `undelivered`
    held,      \* questions with a waiter in this process
    call,      \* what each ask_user call is doing
    earlier,   \* what a replayed call found on record
    adopted,   \* what the re-driven turn listed: open cards, answers it is owed
    handed,    \* the owed answer posted and not yet marked delivered
    withdrawn, \* records whose withdrawal is on its way
    post,      \* what each answer request is doing, and for which question
    got,       \* history: how often an answer was put in the mailbox
    torn,      \* history: answers a crash or a fault caught between two writes
    missed     \* history: answers that found their call about to wait

qVars == <<question, owed, held, call, earlier, adopted, handed, withdrawn, post,
           got, torn, missed>>

Cards == Asked \ Blocking
Free == [at |-> "idle", q |-> CHOOSE q \in Asked : TRUE]
Done == [Free EXCEPT !.at = "done"]
NoneAdopted == [open |-> {}, owed |-> {}]
Each(x) == [q \in Asked |-> x]

QInit ==
    /\ question = Each("absent") /\ owed = {} /\ held = {}
    /\ call = Each("todo") /\ earlier = Each("absent")
    /\ adopted = NoneAdopted /\ handed = {} /\ withdrawn = {}
    /\ post = [p \in Posts |-> Free]
    /\ got = Each(0) /\ torn = {} /\ missed = {}

Pending == {q \in Asked : question[q] = "pending"}
Parking == Pending \cap Blocking
Goes(q, to) == call' = [call EXCEPT ![q] = to]
Steps(p, to) == post' = [post EXCEPT ![p] = IF to = "done" THEN Done ELSE [@ EXCEPT !.at = to]]
Into(S) == got' = [q \in Asked |-> got[q] + IF q \in S THEN 1 ELSE 0]
Cancel(S) == question' =
    [q \in Asked |-> IF q \in S /\ question[q] = "pending" THEN "cancelled" ELSE question[q]]

\* release() of some waiters: the blocking ones un-park the conversation.
Release(S) == held' = held \ S /\ Unpark(Cardinality(S \cap held \cap Blocking))

-----------------------------------------------------------------------------
(* The ask_user call *)

\* A call of a running pass records its question; the record is in the store
\* before its waiter is held. A replayed call asks anew when it finds none, or
\* one that was withdrawn.
Ask(q) ==
    /\ \/ turn = "running" /\ ~stopped /\ call[q] = "todo"
       \/ call[q] = "earlier" /\ earlier[q] \in {"absent", "cancelled"}
    /\ question' = [question EXCEPT ![q] = "pending"] /\ Goes(q, "asking")
    /\ UNCHANGED <<owed, held, earlier, adopted, handed, withdrawn, post, got, torn, missed, runVars>>

\* findForToolCall of a call that ran before the restart.
Reread(q) ==
    /\ turn = "running" /\ ~stopped /\ call[q] = "replay"
    /\ earlier' = [earlier EXCEPT ![q] = question[q]] /\ Goes(q, "earlier")
    /\ UNCHANGED <<question, owed, held, adopted, handed, withdrawn, post, got, torn, missed, runVars>>

\* An answer given meanwhile is the answer; a card that does not block leaves
\* its answer to the adoption.
TakeEarlier(q) ==
    /\ call[q] = "earlier" /\ earlier[q] = "answered"
    /\ Goes(q, IF q \in Blocking THEN "answered" ELSE "shown")
    /\ UNCHANGED <<question, owed, held, earlier, adopted, handed, withdrawn, post, got, torn, missed, runVars>>

\* register() after its insert, and reattach(): the waiter is held, a blocking
\* one parks the conversation.
Hold(q) ==
    /\ call[q] = "asking" \/ (call[q] = "earlier" /\ earlier[q] = "pending")
    /\ held' = held \cup {q}
    /\ IF q \in Blocking THEN Park /\ Goes(q, "waiting")
                         ELSE UNCHANGED marks /\ Goes(q, "shown")
    /\ UNCHANGED <<question, owed, earlier, adopted, handed, withdrawn, post, got, torn, missed,
                   turnVars, crashes, faults>>

\* (mutant: the signal is looked at before the wait is set up only)
BeforeTheWait(q) == stopped /\ call[q] = "asking"

\* The abort listener, or the check after the wait was set up.
Aborted(q) == stopped /\ call[q] = "waiting"

\* remove() drops the waiter, the call returns at once, the record is cancelled
\* behind it.
Withdraw(q) ==
    /\ Aborted(q)
    /\ Release({q}) /\ withdrawn' = withdrawn \cup {q} /\ Goes(q, "cancelled")
    /\ UNCHANGED <<question, owed, earlier, adopted, handed, post, got, torn, missed,
                   turnVars, crashes, faults>>

\* The write of a withdrawal lands, or fails.
WithdrawalLands(q) ==
    /\ q \in withdrawn /\ withdrawn' = withdrawn \ {q}
    /\ \/ Cancel({q}) /\ UNCHANGED faults
       \/ Fault /\ UNCHANGED question
    /\ UNCHANGED <<owed, held, call, earlier, adopted, handed, post, got, torn, missed,
                   turnVars, marks, crashes>>

InFlight == {q \in Asked : call[q] \in {"asking", "earlier", "waiting"}}

-----------------------------------------------------------------------------
(* The answer route *)

Up == turn \notin {"down", "lapsing"}

\* findLoop and the pick: the question named, or the default, is pending.
PostFind(p, q) ==
    /\ Up /\ post[p].at = "idle" /\ q \in Pending
    /\ post' = [post EXCEPT ![p] = [at |-> "found", q |-> q]]
    /\ UNCHANGED <<question, owed, held, call, earlier, adopted, handed, withdrawn, got, torn,
                   missed, runVars>>

\* settle(), conditional on "pending": one answer wins; the others read already_answered.
PostSettle(p) ==
    /\ post[p].at = "found"
    /\ IF question[post[p].q] = "pending"
       THEN question' = [question EXCEPT ![post[p].q] = "answered"] /\ Steps(p, "won")
       ELSE UNCHANGED question /\ Steps(p, "done")
    /\ UNCHANGED <<owed, held, call, earlier, adopted, handed, withdrawn, got, torn, missed, runVars>>

MailboxOpen == turn \in {"adopting", "taking", "running"}

\* (mutant: a question that blocks is not looked for among the waiters)
TakenByCards(q) == q \in held \ Blocking

Taken(q) == q \in held

\* A waiter takes the answer: it wakes the call, or posts to the mailbox,
\* which may have been sealed.
PostHands(p) ==
    LET q == post[p].q IN
    /\ post[p].at = "won" /\ Taken(q) /\ Release({q})
    /\ IF q \in Blocking THEN Goes(q, "answered") /\ UNCHANGED got /\ Steps(p, "done")
       ELSE /\ UNCHANGED call
            /\ IF MailboxOpen THEN Into({q}) /\ Steps(p, "done")
                              ELSE UNCHANGED got /\ Steps(p, "refused")
    /\ UNCHANGED <<question, owed, earlier, adopted, handed, withdrawn, torn, missed,
                   turnVars, crashes, faults>>

\* markUndelivered(): nobody took it, so it was not given.
PostTakesBack(p) ==
    /\ post[p].at = "refused" /\ Steps(p, "done")
    /\ \/ /\ question' = [question EXCEPT ![post[p].q] = "cancelled"]
          /\ UNCHANGED <<faults, torn>>
       \/ Fault /\ torn' = torn \cup {post[p].q} /\ UNCHANGED question
    /\ UNCHANGED <<owed, held, call, earlier, adopted, handed, withdrawn, got, missed,
                   turnVars, marks, crashes>>

\* No waiter: the read of `waiters`, and the write it asks for, on its way.
PostFindsNobody(p) ==
    LET q == post[p].q IN
    /\ post[p].at = "won" /\ ~Taken(q)
    /\ Steps(p, IF q \in Blocking THEN "check" ELSE "owes")
    /\ missed' = IF call[q] \in {"asking", "earlier"} THEN missed \cup {q} ELSE missed
    /\ UNCHANGED <<question, owed, held, call, earlier, adopted, handed, withdrawn, got, torn, runVars>>

\* (mutant: the answer of a card that does not block is not kept for later)
OwesNothing(q) == {}

\* An answer no turn took is kept for the re-driven one.
Owes(q) == {q}

PostOwes(p) ==
    /\ post[p].at = "owes"
    /\ \/ owed' = owed \cup Owes(post[p].q) /\ Steps(p, "check") /\ UNCHANGED <<faults, torn>>
       \/ /\ Fault /\ torn' = torn \cup {post[p].q}
          /\ Steps(p, "done") /\ UNCHANGED owed
    /\ UNCHANGED <<question, held, call, earlier, adopted, handed, withdrawn, got, missed,
                   turnVars, marks, crashes>>

\* isParked(), and clear() after it. `more`: another kind of record is pending.
PostChecks(p, more) ==
    /\ post[p].at = "check"
    /\ Steps(p, IF Parking # {} \/ more THEN "done" ELSE "clear")
    /\ UNCHANGED <<question, owed, held, call, earlier, adopted, handed, withdrawn, got, torn,
                   missed, runVars>>

PostClears(p) ==
    /\ post[p].at = "clear" /\ Steps(p, "done") /\ Clear
    /\ UNCHANGED <<question, owed, held, call, earlier, adopted, handed, withdrawn, got, torn,
                   missed, turnVars, crashes, faults>>

-----------------------------------------------------------------------------
(* What a re-driven turn takes over, before its first pass *)

\* (mutant: every answered card is taken for one whose answer is owed)
AllAnswered == {q \in Cards : question[q] = "answered"}

Undelivered == {q \in owed : question[q] = "answered"}

\* listNonBlockingToAdopt, one read.
AdoptList ==
    /\ turn = "adopting" /\ turn' = "taking"
    /\ adopted' = [open |-> Pending \cap Cards, owed |-> Undelivered]
    /\ UNCHANGED <<question, owed, held, call, earlier, handed, withdrawn, post, got, torn, missed,
                   resumed, stops, turns, marks, crashes, faults>>

\* The open cards get their waiter back; an owed answer is posted.
AdoptHands(q) ==
    /\ turn = "taking" /\ handed = {} /\ q \in adopted.owed
    /\ held' = held \cup adopted.open /\ handed' = {q} /\ Into({q})
    /\ adopted' = [adopted EXCEPT !.open = {}]
    /\ UNCHANGED <<question, owed, call, earlier, withdrawn, post, torn, missed, runVars>>

\* markDelivered lands; a failure ends the adoption, and the turn goes on.
AdoptMarks ==
    /\ turn = "taking" /\ handed # {} /\ handed' = {}
    /\ \/ /\ owed' = owed \ handed
          /\ adopted' = [adopted EXCEPT !.owed = @ \ handed]
          /\ UNCHANGED <<turn, faults, torn>>
       \/ /\ Fault /\ torn' = torn \cup handed /\ adopted' = NoneAdopted
          /\ turn' = "running" /\ UNCHANGED owed
    /\ UNCHANGED <<question, held, call, earlier, withdrawn, post, got, missed,
                   resumed, stops, turns, marks, crashes>>

AdoptEnds ==
    /\ turn = "taking" /\ handed = {} /\ adopted.owed = {}
    /\ held' = held \cup adopted.open /\ adopted' = NoneAdopted /\ turn' = "running"
    /\ UNCHANGED <<question, owed, call, earlier, handed, withdrawn, post, got, torn, missed,
                   resumed, stops, turns, marks, crashes, faults>>

-----------------------------------------------------------------------------
(* The turn around them *)

\* retireOrphans(): a new turn closes what an earlier process left pending.
RetireQuestions == Cancel(Pending \ held)

\* cancelAll(), its waiters; then its records.
ReleaseAll == Release(held)
SettleOpen == Cancel(Pending)

\* A crash: a call that was cut off, or whose result was not on record yet, is
\* replayed; a request and an adoption are cut off where they stand.
QCrash ==
    /\ held' = {} /\ adopted' = NoneAdopted /\ handed' = {} /\ withdrawn' = {}
    /\ torn' = torn \cup handed \cup
           {q \in Cards : \E p \in Posts : post[p].q = q /\ post[p].at \in {"won", "refused", "owes"}}
    /\ post' = [p \in Posts |-> IF post[p].at = "idle" THEN post[p] ELSE Done]
    /\ \E cut \in SUBSET {q \in Asked : call[q] \in {"answered", "cancelled", "shown"}} :
           call' = [q \in Asked |->
               IF q \in cut \cup InFlight \cup {r \in Asked : call[r] = "replay"} THEN "replay"
               ELSE call[q]]
    /\ earlier' = Each("absent")
    /\ UNCHANGED <<question, owed, got, missed>>

\* The calls of a turn that is over, or not driven again.
CallsOver == call' = [q \in Asked |-> IF call[q] = "todo" THEN "todo" ELSE "over"]

QTypeOK ==
    /\ question \in [Asked -> {"absent", "pending", "answered", "cancelled"}]
    /\ owed \subseteq Cards /\ held \subseteq Asked /\ withdrawn \subseteq Blocking
    /\ call \in [Asked -> {"todo", "asking", "waiting", "earlier", "replay", "shown",
                           "answered", "cancelled", "over"}]
    /\ earlier \in [Asked -> {"absent", "pending", "answered", "cancelled"}]
    /\ adopted \in [open : SUBSET Cards, owed : SUBSET Cards] /\ handed \subseteq Cards
    /\ post \in [Posts -> [at : {"idle", "found", "won", "refused", "owes", "check", "clear",
                                 "done"}, q : Asked]]
    /\ got \in [Asked -> Nat] /\ torn \subseteq Cards /\ missed \subseteq Asked
=============================================================================
