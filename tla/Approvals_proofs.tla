-------------------------- MODULE Approvals_proofs --------------------------
(***************************************************************************)
(* For every number of calls, turns and POSTs, every bound, overlapping    *)
(* turns or not: types, DecidedOnce, ActsOnStored and the store's promise. *)
(* For turns that do not overlap: a delivered verdict stays delivered, one *)
(* batch is pending, a card lapses under a stopped turn alone, and what a  *)
(* waiter misses fell between its opener's read and its park.             *)
(***************************************************************************)
EXTENDS Approvals, TLAPS

PCs == {"new", "retiring", "running", "opening", "inserting", "parking",
        "resuming", "waiting", "ending", "over", "dead"}

\* What both stores hold of a record stays in the set of outcomes.
LEMMA StoredType ==
    ASSUME db \in [Recs -> Outcomes], memory \in [Recs -> Outcomes]
    PROVE  Stored \in [Recs -> Outcomes] /\ \A ok \in BOOLEAN : View(ok) \in [Recs -> Outcomes]
BY DEF Stored, View, Outcomes

\* Handing a decision on keeps the waiter, the history and the turns well typed.
LEMMA DeliverType ==
    ASSUME TypeOK, NEW S \in SUBSET Recs, NEW outcome \in Settled,
           NEW next \in [Turns -> PCs], Deliver(S, outcome, next)
    PROVE  /\ waiter' \in WaiterType \cup {NoWaiter}
           /\ acted' \subseteq [turn : Turns, rec : Recs, as : Settled]
           /\ pc' \in [Turns -> PCs]
<1>1. CASE Takes(S) = {}
    BY <1>1 DEF Deliver, TypeOK
<1>2. CASE Takes(S) # {}
    <2> DEFINE got == [c \in Calls |-> IF <<waiter.pass, c>> \in Takes(S)
                                       THEN outcome ELSE waiter.got[c]]
    <2>1. waiter \in WaiterType
        BY <1>2 DEF Takes, TypeOK
    <2>2. got \in [Calls -> Known \ {"missing"}]
        BY <2>1 DEF WaiterType, Known, Settled, UserVerdict, Lapsed
    <2>3. CASE UndecidedIn(got) = {}
        <3>1. /\ ActOn(waiter.turn, waiter.pass, got)
              /\ pc' = [next EXCEPT ![waiter.turn] = "running"]
            BY <1>2, <2>3 DEF Deliver
        <3>2. \A c \in {d \in Calls : got[d] # "out"} : got[c] \in Settled
            BY <2>2, <2>3 DEF UndecidedIn, Known
        <3>3. \A c \in Calls : <<waiter.pass, c>> \in Recs
            BY <2>1 DEF WaiterType, Recs
        <3>4. waiter.turn \in Turns
            BY <2>1 DEF WaiterType
        <3>5. acted' \subseteq [turn : Turns, rec : Recs, as : Settled]
            <4> HIDE DEF got
            <4>1. \A c \in {d \in Calls : got[d] # "out"} :
                      [turn |-> waiter.turn, rec |-> <<waiter.pass, c>>, as |-> got[c]]
                          \in [turn : Turns, rec : Recs, as : Settled]
                BY <3>2, <3>3, <3>4
            <4> QED BY <3>1, <4>1 DEF ActOn, TypeOK
        <3>6. pc' \in [Turns -> PCs]
            BY <3>1, <3>4 DEF PCs
        <3> QED BY <3>1, <3>5, <3>6 DEF ActOn
    <2>4. CASE UndecidedIn(got) # {}
        <3>1. /\ waiter' = [waiter EXCEPT !.got = got]
              /\ pc' = next /\ acted' = acted
            BY <1>2, <2>4 DEF Deliver
        <3> QED BY <2>1, <2>2, <3>1 DEF TypeOK, WaiterType
    <2> QED BY <2>3, <2>4
<1> QED BY <1>1, <1>2

\* A lapse starts well typed, whoever calls it.
LEMMA StartLapseType ==
    ASSUME TypeOK, NEW j \in Jobs, NEW source \in Lapsed, StartLapse(j, source)
    PROVE  lapsing' \in [Jobs -> LapseType]
<1> DEFINE seen == IF waiter = NoWaiter THEN 0 ELSE waiter.pass
<1>1. seen \in 0..MaxPass
    BY ApprovalsAssumption DEF TypeOK, WaiterType, Passes
<1>2. [NoLapse EXCEPT !.pc = "find", !.source = source, !.seen = seen] \in LapseType
    BY <1>1 DEF NoLapse, LapseType
<1> QED BY <1>2 DEF StartLapse, TypeOK

\* A conditional write keeps both stores well typed.
LEMMA SettleType ==
    ASSUME TypeOK, NEW r \in Recs, NEW outcome \in Settled, Settle(r, outcome)
    PROVE  db' \in [Recs -> Outcomes] /\ memory' \in [Recs -> Outcomes]
BY DEF Settle, TypeOK, Outcomes

\* A failed call stays within the bound on faults.
LEMMA CallType ==
    ASSUME TypeOK, NEW ok \in BOOLEAN, Call(ok)
    PROVE  faults' \in 0..MaxFault
BY ApprovalsAssumption DEF Call, TypeOK

-----------------------------------------------------------------------------
\* A server that has not been asked anything satisfies Inv.
LEMMA InitInv == Init => Inv
<1> SUFFICES ASSUME Init PROVE Inv
    OBVIOUS
<1>1. TypeOK
    <2>1. NoPost \in PostType
        BY DEF NoPost, PostType, UserVerdict
    <2>2. NoLapse \in LapseType
        BY ApprovalsAssumption DEF NoLapse, LapseType, Lapsed
    <2> QED BY <2>1, <2>2, ApprovalsAssumption DEF Init, TypeOK, Outcomes, Known
<1>2. PassesAreOwn /\ OpenersAreRight
    BY DEF Init, PassesAreOwn, OpenersAreRight, OpenerIsRight, Fresh
<1>3. WaiterIsRight /\ HandlersAreRight /\ DecidedOnce /\ ActsOnStored
    BY DEF Init, WaiterIsRight, HandlersAreRight, DecidedOnce, ActsOnStored, NoPost
<1> QED BY <1>1, <1>2, <1>3 DEF Inv

\* Types are kept by every action; Inv is needed where a waiter is built.
LEMMA TypeStep == Inv /\ [Next]_vars => TypeOK'
<1> SUFFICES ASSUME Inv, [Next]_vars PROVE TypeOK'
    OBVIOUS
<1> USE DEF bounds, store
<1>t. TypeOK
    BY DEF Inv
<1>l. lapsing \in [Jobs -> LapseType]
    BY <1>t DEF TypeOK
<1>1. ASSUME NEW j \in Jobs, LapseFind(j) PROVE TypeOK'
    <2>1. PICK ok \in BOOLEAN :
             /\ Call(ok)
             /\ lapsing' = [lapsing EXCEPT ![j].pc = "settle", ![j].todo = Finds(j, ok)]
        BY <1>1 DEF LapseFind
    <2>2. Finds(j, ok) \in SUBSET Recs
        BY DEF Finds, PendingIn
    <2>3. lapsing' \in [Jobs -> LapseType]
        BY <1>l, <2>1, <2>2 DEF LapseType
    <2> QED BY <1>1, <1>t, <2>1, <2>3, CallType DEF LapseFind, TypeOK
<1>2. ASSUME NEW j \in Jobs, LapseSettle(j) PROVE TypeOK'
    <2>1. PICK r \in lapsing[j].todo :
          \/ /\ Settle(r, lapsing[j].source)
             /\ lapsing' = [lapsing EXCEPT ![j].todo = @ \ {r}, ![j].took = @ \cup {r}]
             /\ missed' = Missed(r)
             /\ UNCHANGED faults
          \/ /\ lapsing' = [lapsing EXCEPT ![j].todo = @ \ {r}]
             /\ UNCHANGED <<store, missed, faults>>
          \/ /\ Call(FALSE)
             /\ lapsing' = [lapsing EXCEPT ![j].todo = {}, ![j].took = {}]
             /\ UNCHANGED <<store, missed>>
        BY <1>2 DEF LapseSettle
    <2>2. r \in Recs /\ lapsing[j] \in LapseType /\ lapsing[j].source \in Settled
        BY <1>t DEF TypeOK, LapseType, Settled
    <2>3. Missed(r) \in SUBSET Recs
        BY <1>t, <2>2 DEF Missed, TypeOK
    <2>4. lapsing' \in [Jobs -> LapseType]
        <3>1. /\ [lapsing[j] EXCEPT !.todo = @ \ {r}, !.took = @ \cup {r}] \in LapseType
              /\ [lapsing[j] EXCEPT !.todo = @ \ {r}] \in LapseType
              /\ [lapsing[j] EXCEPT !.todo = {}, !.took = {}] \in LapseType
            BY <2>2 DEF LapseType
        <3>0. lapsing \in [Jobs -> LapseType]
            BY <1>t DEF TypeOK
        <3>2. CASE lapsing' = [lapsing EXCEPT ![j].todo = @ \ {r}, ![j].took = @ \cup {r}]
            BY <3>0, <3>1, <3>2
        <3>3. CASE lapsing' = [lapsing EXCEPT ![j].todo = @ \ {r}]
            BY <3>0, <3>1, <3>3
        <3>4. CASE lapsing' = [lapsing EXCEPT ![j].todo = {}, ![j].took = {}]
            BY <3>0, <3>1, <3>4
        <3> QED BY <2>1, <3>2, <3>3, <3>4
    <2>5. /\ db' \in [Recs -> Outcomes] /\ memory' \in [Recs -> Outcomes]
          /\ missed' \subseteq Recs /\ faults' \in 0..MaxFault
        BY <1>t, <2>1, <2>2, <2>3, SettleType, CallType DEF TypeOK
    <2> QED BY <1>2, <1>t, <2>4, <2>5 DEF LapseSettle, TypeOK
<1>3. ASSUME NEW j \in Jobs, LapseDeliver(j) PROVE TypeOK'
    <2> DEFINE next == IF j[2] = "own" THEN [pc EXCEPT ![j[1]] = After(j[1])] ELSE pc
    <2>1. lapsing[j] \in LapseType /\ lapsing[j].source \in Settled
        BY <1>t DEF TypeOK, LapseType, Settled
    <2>2. next \in [Turns -> PCs]
        BY <1>t DEF TypeOK, After, Jobs, PCs
    <2>3. lapsing[j].took \cup Forces(j) \in SUBSET Recs
        BY <2>1 DEF LapseType, Forces
    <2>4. Deliver(lapsing[j].took \cup Forces(j), lapsing[j].source, next)
        BY <1>3 DEF LapseDeliver
    <2>5. NoLapse \in LapseType
        BY ApprovalsAssumption DEF NoLapse, LapseType, Lapsed
    <2>6. lapsing' \in [Jobs -> LapseType]
        BY <1>3, <1>t, <2>5 DEF LapseDeliver, TypeOK
    <2>7. /\ waiter' \in WaiterType \cup {NoWaiter} /\ pc' \in [Turns -> PCs]
          /\ acted' \subseteq [turn : Turns, rec : Recs, as : Settled]
        <3> HIDE DEF next
        <3> QED BY <1>t, <2>1, <2>2, <2>3, <2>4, DeliverType
    <2> QED BY <1>3, <1>t, <2>6, <2>7 DEF LapseDeliver, TypeOK, PCs
<1>4. ASSUME NEW t \in Turns, StartTurn(t) PROVE TypeOK'
    <2>1. lapsing' \in [Jobs -> LapseType]
        BY <1>4, <1>t, StartLapseType DEF StartTurn, Jobs, Lapsed, TypeOK
    <2> QED BY <1>4, <1>t, <2>1 DEF StartTurn, TypeOK
<1>5. ASSUME NEW t \in Turns, Open(t) PROVE TypeOK'
    <2>1. lapsing' \in [Jobs -> LapseType]
        BY <1>5, <1>t, StartLapseType DEF Open, Jobs, Lapsed
    <2>2. passes + 1 \in 0..MaxPass
        BY <1>5, <1>t, ApprovalsAssumption DEF Open, TypeOK
    <2>3. batch' \in [Turns -> [pass : 0..MaxPass, asked : [Calls -> Known]]]
        BY <1>5, <1>t, <2>2 DEF Open, TypeOK, Known
    <2> QED BY <1>5, <1>t, <2>1, <2>2, <2>3 DEF Open, TypeOK
<1>6. ASSUME NEW t \in Turns, ResumeFind(t) PROVE TypeOK'
    <2>0. \A c \in Calls : <<batch[t].pass, c>> \in Recs
        BY <1>6, <1>t, ApprovalsAssumption DEF ResumeFind, Inv, OpenersAreRight, OpenerIsRight, TypeOK, Recs, Passes
    <2>1. PICK ok \in BOOLEAN :
             /\ Call(ok)
             /\ \/ /\ batch' = [batch EXCEPT ![t].asked = Reread(t, View(ok))]
                   /\ pc' = [pc EXCEPT ![t] = "inserting"]
                   /\ UNCHANGED <<lapsing, passes>>
                \/ /\ passes < MaxPass
                   /\ batch' = [batch EXCEPT ![t].pass = passes + 1]
                   /\ passes' = passes + 1
                   /\ pc' = [pc EXCEPT ![t] = "opening"]
                   /\ StartLapse(<<t, "own">>, "superseded")
        BY <1>6 DEF ResumeFind
    <2>2. Reread(t, View(ok)) \in [Calls -> Known]
        <3>1. View(ok) \in [Recs -> Outcomes]
            BY <1>t, StoredType DEF TypeOK
        <3> QED BY <3>1, <2>0 DEF Reread, Recalls, Known, Outcomes
    <2>3. faults' \in 0..MaxFault
        BY <1>t, <2>1, CallType
    <2>4. lapsing' \in [Jobs -> LapseType]
        BY <1>t, <2>1, StartLapseType DEF Jobs, Lapsed, TypeOK
    <2>5. /\ passes' \in 0..MaxPass
          /\ batch' \in [Turns -> [pass : 0..MaxPass, asked : [Calls -> Known]]]
        <3>1. batch[t] \in [pass : 0..MaxPass, asked : [Calls -> Known]] /\ passes \in 0..MaxPass
            BY <1>t DEF TypeOK
        <3>2. /\ [batch[t] EXCEPT !.asked = Reread(t, View(ok))]
                     \in [pass : 0..MaxPass, asked : [Calls -> Known]]
              /\ passes < MaxPass => /\ passes + 1 \in 0..MaxPass
                                     /\ [batch[t] EXCEPT !.pass = passes + 1]
                                           \in [pass : 0..MaxPass, asked : [Calls -> Known]]
            BY <2>2, <3>1, ApprovalsAssumption
        <3>3. passes' \in 0..MaxPass
            BY <2>1, <3>1, <3>2
        <3>4. \E b \in [pass : 0..MaxPass, asked : [Calls -> Known]] :
                  batch' = [batch EXCEPT ![t] = b]
            BY <2>1, <3>2
        <3> QED BY <1>t, <3>3, <3>4 DEF TypeOK
    <2> QED BY <1>6, <1>t, <2>1, <2>3, <2>4, <2>5 DEF ResumeFind, TypeOK
<1>7. ASSUME NEW t \in Turns, InsertMissing(t) PROVE TypeOK'
    <2>1. /\ db' \in [Recs -> Outcomes] /\ memory' \in [Recs -> Outcomes]
          /\ faults' \in 0..MaxFault
        BY <1>7, <1>t, ApprovalsAssumption DEF InsertMissing, Insert, TypeOK, Call, Outcomes
    <2>2. batch' \in [Turns -> [pass : 0..MaxPass, asked : [Calls -> Known]]]
        BY <1>7, <1>t DEF InsertMissing, TypeOK, AsInserted, Known
    <2> QED BY <1>7, <1>t, <2>1, <2>2 DEF InsertMissing, TypeOK
<1>8. ASSUME NEW t \in Turns, Park(t) PROVE TypeOK'
    <2>1. /\ batch[t].pass \in Passes /\ batch[t] \in [pass : 0..MaxPass, asked : [Calls -> Known]]
          /\ \A c \in Calls : batch[t].asked[c] \in Known \ {"missing"}
        BY <1>8, <1>t, ApprovalsAssumption DEF Park, Inv, OpenersAreRight, OpenerIsRight, TypeOK, Passes
    <2>2. CASE UndecidedIn(batch[t].asked) = {}
        <3>1. \A c \in {d \in Calls : batch[t].asked[d] # "out"} :
                 [turn |-> t, rec |-> <<batch[t].pass, c>>, as |-> batch[t].asked[c]]
                     \in [turn : Turns, rec : Recs, as : Settled]
            BY <2>1, <2>2 DEF UndecidedIn, Known, Recs
        <3>2. acted' \subseteq [turn : Turns, rec : Recs, as : Settled]
            BY <1>8, <1>t, <2>2, <3>1 DEF Park, TypeOK
        <3> QED BY <1>8, <1>t, <2>2, <3>2 DEF Park, TypeOK
    <2>3. CASE UndecidedIn(batch[t].asked) # {}
        <3>1. waiter' \in WaiterType
            BY <1>8, <2>1, <2>3 DEF Park, WaiterType
        <3>2. [NoLapse EXCEPT !.pc = "find", !.source = "turn_ended", !.seen = batch[t].pass]
                  \in LapseType
            BY <2>1 DEF NoLapse, LapseType, Lapsed
        <3>3. lapsing' \in [Jobs -> LapseType]
            BY <1>8, <1>t, <2>3, <3>2 DEF Park, TypeOK
        <3> QED BY <1>8, <1>t, <2>3, <3>1, <3>3 DEF Park, TypeOK
    <2> QED BY <2>2, <2>3
<1>9. ASSUME NEW t \in Turns, Stop(t) PROVE TypeOK'
    <2>1. lapsing' \in [Jobs -> LapseType]
        BY <1>9, <1>t, StartLapseType DEF Stop, Jobs, Lapsed, TypeOK
    <2> QED BY <1>9, <1>t, <2>1 DEF Stop, TypeOK
<1>10. ASSUME NEW t \in Turns, EndTurn(t) PROVE TypeOK'
    <2>1. lapsing' \in [Jobs -> LapseType]
        BY <1>10, <1>t, StartLapseType DEF EndTurn, Jobs, Lapsed
    <2> QED BY <1>10, <1>t, <2>1 DEF EndTurn, TypeOK
<1>11. ASSUME NEW q \in Posts, DecideFind(q) PROVE TypeOK'
    <2>1. PICK ok \in BOOLEAN, call \in Calls \cup {NoCall}, given \in 0..MaxPass,
               verdict \in UserVerdict, wide \in BOOLEAN, valid \in BOOLEAN :
          LET view == View(ok)
              named == Named(view, call, wide)
          IN  /\ Call(ok)
              /\ IF ~valid \/ Refuses(view, call, given, verdict, wide)
                 THEN post' = [post EXCEPT ![q].pc = "refused"]
                 ELSE post' = [post EXCEPT ![q] =
                         [NoPost EXCEPT !.pc = "settle", !.verdict = verdict,
                             !.target = IF named = {} THEN NoRec
                                        ELSE CHOOSE r \in named : TRUE,
                             !.todo = IF wide THEN Newest(view) ELSE named]]
        BY <1>11 DEF DecideFind
    <2> DEFINE T == Named(View(ok), call, wide)
               S == IF wide THEN Newest(View(ok)) ELSE T
               target == IF T = {} THEN NoRec ELSE CHOOSE r \in T : TRUE
    <2>2. T \in SUBSET Recs /\ S \in SUBSET Recs /\ target \in Recs \cup {NoRec}
        BY DEF Named, Newest, PendingIn
    <2>3. \/ post' = [post EXCEPT ![q].pc = "refused"]
          \/ post' = [post EXCEPT ![q] = [NoPost EXCEPT !.pc = "settle", !.verdict = verdict,
                                                        !.target = target, !.todo = S]]
        BY <2>1
    <2>4. post' \in [Posts -> PostType]
        <3> HIDE DEF T, S, target
        <3>1. post[q] \in PostType
            BY <1>t DEF TypeOK
        <3>2. /\ [post[q] EXCEPT !.pc = "refused"] \in PostType
              /\ [NoPost EXCEPT !.pc = "settle", !.verdict = verdict,
                                !.target = target, !.todo = S] \in PostType
            BY <2>2, <3>1 DEF PostType, NoPost
        <3>3. \E x \in PostType : post' = [post EXCEPT ![q] = x]
            BY <2>3, <3>2
        <3> QED BY <1>t, <3>3 DEF TypeOK
    <2> QED BY <1>11, <1>t, <2>1, <2>4, CallType DEF DecideFind, TypeOK
<1>12. ASSUME NEW q \in Posts, DecideSettle(q) PROVE TypeOK'
    <2>1. PICK r \in post[q].todo :
          \/ /\ Settle(r, post[q].verdict)
             /\ post' = [post EXCEPT ![q].pc = "deliver", ![q].cur = r,
                                     ![q].todo = @ \ {r}, ![q].won = @ \cup {r}]
             /\ missed' = Missed(r)
             /\ UNCHANGED faults
          \/ /\ post' = [post EXCEPT ![q].todo = @ \ {r}, ![q].pc =
                            IF r = post[q].target THEN "refused"
                            ELSE IF post[q].todo = {r} THEN "done" ELSE "settle"]
             /\ UNCHANGED <<store, missed, faults>>
          \/ /\ Call(FALSE)
             /\ post' = [post EXCEPT ![q].pc = "error"]
             /\ UNCHANGED <<store, missed>>
        BY <1>12 DEF DecideSettle
    <2>2. r \in Recs /\ post[q] \in PostType /\ post[q].verdict \in Settled
        BY <1>t DEF TypeOK, PostType, Settled
    <2>3. Missed(r) \in SUBSET Recs
        BY <1>t, <2>2 DEF Missed, TypeOK
    <2>4. post' \in [Posts -> PostType]
        <3> DEFINE won == [post[q] EXCEPT !.pc = "deliver", !.cur = r,
                                          !.todo = @ \ {r}, !.won = @ \cup {r}]
                   lost == [post[q] EXCEPT !.todo = @ \ {r}, !.pc =
                               IF r = post[q].target THEN "refused"
                               ELSE IF post[q].todo = {r} THEN "done" ELSE "settle"]
                   error == [post[q] EXCEPT !.pc = "error"]
        <3>1. won \in PostType /\ lost \in PostType /\ error \in PostType
            BY <2>2 DEF PostType
        <3>2. \/ post' = [post EXCEPT ![q] = won] \/ post' = [post EXCEPT ![q] = lost]
              \/ post' = [post EXCEPT ![q] = error]
            BY <2>1
        <3> HIDE DEF won, lost, error
        <3> QED BY <1>t, <3>1, <3>2 DEF TypeOK
    <2>5. /\ db' \in [Recs -> Outcomes] /\ memory' \in [Recs -> Outcomes]
          /\ missed' \subseteq Recs /\ faults' \in 0..MaxFault
        BY <1>t, <2>1, <2>2, <2>3, SettleType, CallType DEF TypeOK
    <2> QED BY <1>12, <1>t, <2>4, <2>5 DEF DecideSettle, TypeOK
<1>13. ASSUME NEW q \in Posts, DecideDeliver(q) PROVE TypeOK'
    <2>1. post[q] \in PostType /\ post[q].verdict \in Settled /\ pc \in [Turns -> PCs]
        BY <1>t DEF TypeOK, PostType, Settled, PCs
    <2>2. HandsOver(q) \in SUBSET Recs
        BY <1>13, <1>t, <2>1 DEF DecideDeliver, HandsOver, Inv, HandlersAreRight, PostType
    <2>3. /\ waiter' \in WaiterType \cup {NoWaiter} /\ pc' \in [Turns -> PCs]
          /\ acted' \subseteq [turn : Turns, rec : Recs, as : Settled]
        BY <1>13, <1>t, <2>1, <2>2, DeliverType DEF DecideDeliver
    <2>4. Takes(HandsOver(q)) \in SUBSET Recs
        BY <2>2 DEF Takes
    <2>5. post' \in [Posts -> PostType]
        BY <1>13, <1>t, <2>1, <2>4 DEF DecideDeliver, TypeOK, PostType
    <2> QED BY <1>13, <1>t, <2>3, <2>5 DEF DecideDeliver, TypeOK, PCs
<1>14. ASSUME Crash PROVE TypeOK'
    <2>1. post' \in [Posts -> PostType]
        <3>1. post' = [q \in Posts |->
                 [post[q] EXCEPT !.pc = IF @ \in {"settle", "deliver"} THEN "lost" ELSE @,
                                 !.cur = NoRec, !.todo = {}, !.taken = {},
                                 !.won = {r \in @ : memory[r] = "absent"}]]
            BY <1>14 DEF Crash
        <3>2. ASSUME NEW q \in Posts
              PROVE  [post[q] EXCEPT !.pc = IF @ \in {"settle", "deliver"} THEN "lost" ELSE @,
                                     !.cur = NoRec, !.todo = {}, !.taken = {},
                                     !.won = {r \in @ : memory[r] = "absent"}] \in PostType
            <4>1. post[q] \in PostType
                BY <1>t DEF TypeOK
            <4>2. {r \in post[q].won : memory[r] = "absent"} \in SUBSET Recs
                BY <4>1 DEF PostType
            <4>3. (IF post[q].pc \in {"settle", "deliver"} THEN "lost" ELSE post[q].pc)
                     \in {"new", "settle", "deliver", "done", "refused", "error", "lost"}
                BY <4>1 DEF PostType
            <4> QED BY <4>1, <4>2, <4>3 DEF PostType
        <3> QED BY <3>1, <3>2
    <2>2. lapsing' \in [Jobs -> LapseType]
        <3>1. NoLapse \in LapseType
            BY ApprovalsAssumption DEF NoLapse, LapseType, Lapsed
        <3> QED BY <1>14, <3>1 DEF Crash
    <2>3. crashes' \in 0..MaxCrash
        <3>1. crashes < MaxCrash /\ crashes' = crashes + 1
            BY <1>14 DEF Crash
        <3> QED BY <1>t, <3>1, ApprovalsAssumption DEF TypeOK
    <2>4. /\ memory' \in [Recs -> Outcomes] /\ acted' \subseteq acted
          /\ pc' \in [Turns -> PCs] /\ stopped' \in [Turns -> BOOLEAN]
        BY <1>14, <1>t DEF Crash, TypeOK, Outcomes, PCs
    <2> QED BY <1>14, <1>t, <2>1, <2>2, <2>3, <2>4 DEF Crash, TypeOK, PCs
<1>15. ASSUME NEW t \in Turns, Redrive(t) PROVE TypeOK'
    <2>1. lapsing' \in [Jobs -> LapseType]
        BY <1>15, <1>t, StartLapseType DEF Redrive, Jobs, Lapsed, TypeOK
    <2>2. batch' \in [Turns -> [pass : 0..MaxPass, asked : [Calls -> Known]]]
        BY <1>15, <1>t DEF Redrive, TypeOK, Known
    <2>3. pc' \in [Turns -> PCs]
        BY <1>15, <1>t DEF Redrive, TypeOK, PCs
    <2> QED BY <1>15, <1>t, <2>1, <2>2, <2>3 DEF Redrive, TypeOK, PCs
<1>16. ASSUME Salvage PROVE TypeOK'
    <2>1. faults' \in 0..MaxFault
        BY <1>16, <1>t, CallType DEF Salvage
    <2>2. db' \in [Recs -> Outcomes]
        BY <1>16, <1>t DEF Salvage, TypeOK, Outcomes, Settled, Lapsed
    <2>3. pc' \in [Turns -> PCs]
        BY <1>16, <1>t DEF Salvage, TypeOK, PCs
    <2> QED BY <1>16, <1>t, <2>1, <2>2, <2>3 DEF Salvage, TypeOK, PCs
<1>17. ASSUME UNCHANGED vars PROVE TypeOK'
    BY <1>17, <1>t DEF vars, TypeOK
<1> QED
    BY <1>1, <1>2, <1>3, <1>4, <1>5, <1>6, <1>7, <1>8, <1>9, <1>10, <1>11, <1>12,
       <1>13, <1>14, <1>15, <1>16, <1>17
    DEF Next, LapseStep, TurnStep, PostStep

-----------------------------------------------------------------------------
(* What a step leaves of the store, and what follows from it *)

\* No record is created, no user's verdict changed, nothing moved to memory.
StoreKept ==
    /\ \A r \in Recs : Fresh(r) => Fresh(r)'
    /\ \A r \in Recs : Stored[r] \in UserVerdict => Stored'[r] = Stored[r]
    /\ \A r \in Recs : memory[r] = "absent" => memory'[r] = "absent"

\* Code that does not touch the store keeps it.
LEMMA SameStore ==
    ASSUME UNCHANGED store
    PROVE  StoreKept /\ Stored' = Stored
BY DEF store, StoreKept, Fresh, Stored, View

\* A conditional write changes one pending record, where it is kept.
LEMMA SettleKeeps ==
    ASSUME TypeOK, NEW r \in Recs, NEW outcome \in Settled, Wins(r), Settle(r, outcome)
    PROVE  StoreKept /\ Stored'[r] = outcome
<1>1. \A s \in Recs : s # r => db'[s] = db[s] /\ memory'[s] = memory[s]
    BY DEF Settle, TypeOK
<1>2. Stored[r] = "pending" /\ Stored'[r] = outcome
    BY DEF Wins, Settle, Stored, View, TypeOK, Settled, UserVerdict, Lapsed
<1>3. \A s \in Recs : s # r => Stored'[s] = Stored[s] /\ (Fresh(s) => Fresh(s)')
    BY <1>1 DEF Stored, View, Fresh
<1>4. ~Fresh(r)
    BY <1>2 DEF Fresh, Stored, View
<1>5. memory[r] = "absent" => memory'[r] = "absent"
    BY DEF Settle
<1> QED BY <1>1, <1>2, <1>3, <1>4, <1>5 DEF StoreKept, UserVerdict

\* A turn that goes on opens nothing new, or inserts what it was opening.
GoesOn == \A t \in Turns :
    \/ pc'[t] = pc[t]
    \/ pc'[t] \notin {"opening", "resuming", "inserting", "parking"}
    \/ pc[t] = "opening" /\ pc'[t] = "inserting"

\* Batch ids stay owned while no batch is opened.
LEMMA PassesKept ==
    ASSUME PassesAreOwn, StoreKept, UNCHANGED <<batch, passes>>
    PROVE  PassesAreOwn'
BY DEF PassesAreOwn, StoreKept

\* A record of a turn that is opening a batch.
LEMMA OpenerRec ==
    ASSUME TypeOK, OpenersAreRight, NEW t \in Turns, NEW c \in Calls,
           pc[t] \in {"opening", "resuming", "inserting", "parking"}
    PROVE  <<batch[t].pass, c>> \in Recs
BY ApprovalsAssumption DEF TypeOK, OpenersAreRight, OpenerIsRight, Recs, Passes

\* What the openers read stays right while the store only moves on.
LEMMA OpenersKept ==
    ASSUME TypeOK, OpenersAreRight, StoreKept, UNCHANGED batch, GoesOn
    PROVE  OpenersAreRight'
<1> SUFFICES ASSUME NEW t \in Turns PROVE OpenerIsRight(t)'
    BY DEF OpenersAreRight
<1>1. OpenerIsRight(t)
    BY DEF OpenersAreRight
<1>2. CASE pc'[t] \notin {"opening", "resuming", "inserting", "parking"}
    BY <1>2 DEF OpenerIsRight
<1>3. CASE pc[t] \in {"opening", "resuming", "inserting", "parking"} /\ pc'[t] = pc[t]
    <2>1. \A c \in Calls : <<batch[t].pass, c>> \in Recs
        BY <1>3, OpenerRec
    <2> QED BY <1>1, <1>3, <2>1 DEF OpenerIsRight, StoreKept
<1>4. CASE pc[t] = "opening" /\ pc'[t] = "inserting"
    <2>1. \A c \in Calls : <<batch[t].pass, c>> \in Recs
        BY <1>4, OpenerRec
    <2> QED BY <1>1, <1>4, <2>1 DEF OpenerIsRight, StoreKept, UserVerdict
<1> QED BY <1>2, <1>3, <1>4 DEF GoesOn

\* So does what the waiter was told ...
LEMMA WaiterKept ==
    ASSUME TypeOK, WaiterIsRight, StoreKept, UNCHANGED waiter
    PROVE  WaiterIsRight'
<1>1. waiter # NoWaiter => \A c \in Calls : <<waiter.pass, c>> \in Recs
    BY DEF TypeOK, WaiterType, Recs
<1> QED BY <1>1 DEF WaiterIsRight, StoreKept

\* ... and what the gate has acted on.
LEMMA ActedKept ==
    ASSUME TypeOK, ActsOnStored, StoreKept, UNCHANGED acted
    PROVE  ActsOnStored'
<1>1. \A a \in acted : a.rec \in Recs
    BY DEF TypeOK
<1> QED BY <1>1 DEF ActsOnStored, StoreKept

\* A POST that wins nothing more, and may drop what it won.
LEMMA DecidedKept ==
    ASSUME TypeOK, DecidedOnce, StoreKept,
           \A q \in Posts : \A r \in post'[q].won :
               r \in post[q].won /\ post'[q].verdict = post[q].verdict
    PROVE  DecidedOnce'
<1>1. \A q \in Posts : \A r \in post[q].won : r \in Recs /\ post[q].verdict \in UserVerdict
    BY DEF TypeOK, PostType
<1> QED BY <1>1 DEF DecidedOnce, StoreKept

\* The waiter takes, and the gate acts on, what the store holds.
LEMMA DeliverKeeps ==
    ASSUME TypeOK, WaiterIsRight, ActsOnStored, UNCHANGED store,
           NEW S \in SUBSET Recs, NEW outcome \in Settled,
           outcome \in UserVerdict => \A r \in S : Stored[r] = outcome,
           NEW next \in [Turns -> PCs], Deliver(S, outcome, next)
    PROVE  /\ WaiterIsRight' /\ ActsOnStored'
           /\ \A t \in Turns : pc'[t] = next[t] \/ pc'[t] = "running"
<1>0. StoreKept /\ Stored' = Stored
    BY SameStore
<1>1. CASE Takes(S) = {}
    <2>1. UNCHANGED <<waiter, acted>> /\ pc' = next
        BY <1>1 DEF Deliver
    <2> QED BY <1>0, <2>1, WaiterKept, ActedKept
<1>2. CASE Takes(S) # {}
    <2> DEFINE got == [c \in Calls |-> IF <<waiter.pass, c>> \in Takes(S)
                                       THEN outcome ELSE waiter.got[c]]
    <2>1. waiter \in WaiterType /\ waiter # NoWaiter
        BY <1>2 DEF Takes, TypeOK
    <2>2. \A c \in Calls : got[c] \in UserVerdict => Stored[<<waiter.pass, c>>] = got[c]
        BY <2>1 DEF Takes, WaiterIsRight
    <2>3. CASE UndecidedIn(got) = {}
        <3>1. /\ ActOn(waiter.turn, waiter.pass, got)
              /\ pc' = [next EXCEPT ![waiter.turn] = "running"]
            BY <1>2, <2>3 DEF Deliver
        <3> HIDE DEF got
        <3>2. WaiterIsRight'
            BY <3>1 DEF ActOn, WaiterIsRight
        <3>3. \A a \in acted' : a \in acted \/ \E c \in Calls :
                  a = [turn |-> waiter.turn, rec |-> <<waiter.pass, c>>, as |-> got[c]]
            BY <3>1 DEF ActOn
        <3>4. ActsOnStored'
            BY <1>0, <2>2, <3>3 DEF ActsOnStored
        <3> QED BY <3>1, <3>2, <3>4
    <2>4. CASE UndecidedIn(got) # {}
        <3>1. /\ waiter' = [waiter EXCEPT !.got = got]
              /\ pc' = next /\ acted' = acted
            BY <1>2, <2>4 DEF Deliver
        <3> HIDE DEF got
        <3>2. waiter'.got = got /\ waiter'.pass = waiter.pass
            BY <2>1, <3>1 DEF WaiterType
        <3> QED BY <1>0, <2>2, <3>1, <3>2, ActedKept DEF WaiterIsRight
    <2> QED BY <2>3, <2>4
<1> QED BY <1>1, <1>2

\* The parts of Inv beside the types.
Parts == /\ PassesAreOwn /\ OpenersAreRight /\ WaiterIsRight /\ HandlersAreRight
         /\ DecidedOnce /\ ActsOnStored

\* A step that leaves the store, the POSTs, the waiter and the history alone.
LEMMA QuietStep ==
    ASSUME Inv, UNCHANGED <<store, batch, passes, waiter, acted, post>>, GoesOn,
           ~up' => ~up
    PROVE  Parts'
<1>1. StoreKept
    BY SameStore
<1>2. HandlersAreRight'
    BY DEF Inv, HandlersAreRight, store
<1>3. DecidedOnce'
    BY <1>1, DecidedKept DEF Inv
<1> QED BY <1>1, <1>2, <1>3, PassesKept, OpenersKept, WaiterKept, ActedKept DEF Inv, Parts

\* A batch under an unused id: nothing of it is stored, and nobody has the id.
LEMMA FreshPass ==
    ASSUME TypeOK, Parts, NEW t \in Turns, UNCHANGED store, passes < MaxPass, passes' = passes + 1,
           batch'[t].pass = passes + 1, pc'[t] = "opening",
           \A c \in Calls : batch'[t].asked[c] \in {"out", "missing"},
           \A u \in Turns \ {t} : batch'[u] = batch[u] /\ pc'[u] = pc[u]
    PROVE  PassesAreOwn' /\ OpenersAreRight'
<1>1. passes \in Nat /\ \A r \in Recs : r[1] \in Nat /\ (Fresh(r)' <=> Fresh(r))
    BY ApprovalsAssumption DEF TypeOK, Recs, Passes, Fresh, store
<1>2. \A u \in Turns : batch[u].pass \in Nat
    BY ApprovalsAssumption DEF TypeOK
<1>3. PassesAreOwn'
    BY <1>1, <1>2 DEF Parts, PassesAreOwn
<1>4. OpenerIsRight(t)'
    <2>1. \A c \in Calls : <<passes + 1, c>> \in Recs
        BY <1>1, ApprovalsAssumption DEF Recs, Passes
    <2>2. \A c \in Calls : Fresh(<<passes + 1, c>>)
        <3>1. \A r \in Recs : r[1] > passes => Fresh(r)
            BY DEF Parts, PassesAreOwn
        <3> QED BY <1>1, <2>1, <3>1
    <2>3. \A c \in Calls : Fresh(<<batch[t].pass, c>>)'
        BY <2>2 DEF Fresh, store
    <2> QED BY <1>1, <2>3 DEF OpenerIsRight
<1>5. ASSUME NEW u \in Turns \ {t} PROVE OpenerIsRight(u)'
    BY DEF Parts, OpenersAreRight, OpenerIsRight, Fresh, Stored, View, store
<1> QED BY <1>3, <1>4, <1>5 DEF OpenersAreRight

\* Every action of the registry, its callers and its restarts keeps the parts of Inv.
LEMMA PartsStep == Inv /\ [Next]_vars => Parts'
<1> SUFFICES ASSUME Inv, [Next]_vars PROVE Parts'
    OBVIOUS
<1> USE DEF bounds
<1>t. /\ TypeOK /\ Parts
    BY DEF Inv, Parts
<1>1. ASSUME NEW j \in Jobs, LapseFind(j) PROVE Parts'
    BY <1>1, QuietStep DEF LapseFind, GoesOn
<1>2. ASSUME NEW j \in Jobs, LapseSettle(j) PROVE Parts'
    <2>0. UNCHANGED <<waiter, pc, batch, post, acted, passes, up>>
        BY <1>2 DEF LapseSettle
    <2>1. PICK r \in lapsing[j].todo :
            (Wins(r) /\ Settle(r, lapsing[j].source)) \/ UNCHANGED store
        BY <1>2 DEF LapseSettle
    <2>2. r \in Recs /\ lapsing[j].source \in Settled
        BY <1>t DEF TypeOK, LapseType, Settled
    <2>3. StoreKept
        BY <1>t, <2>1, <2>2, SettleKeeps, SameStore
    <2>4. HandlersAreRight'
        BY <1>t, <2>0, <2>3 DEF Parts, HandlersAreRight, StoreKept
    <2>5. DecidedOnce'
        BY <1>t, <2>0, <2>3, DecidedKept DEF Parts
    <2>6. GoesOn
        BY <2>0 DEF GoesOn
    <2> QED BY <1>t, <2>0, <2>3, <2>4, <2>5, <2>6,
               PassesKept, OpenersKept, WaiterKept, ActedKept DEF Parts
<1>3. ASSUME NEW j \in Jobs, LapseDeliver(j) PROVE Parts'
    <2> DEFINE next == IF j[2] = "own" THEN [pc EXCEPT ![j[1]] = After(j[1])] ELSE pc
    <2>0. UNCHANGED <<store, batch, post, passes, up>>
        BY <1>3 DEF LapseDeliver
    <2>1. lapsing[j].source \in Settled /\ lapsing[j].source \notin UserVerdict
        BY <1>t DEF TypeOK, LapseType, Settled, UserVerdict, Lapsed
    <2>2. next \in [Turns -> PCs] /\ lapsing[j].took \cup Forces(j) \in SUBSET Recs
        BY <1>t DEF TypeOK, After, Jobs, PCs, LapseType, Forces
    <2>3. Deliver(lapsing[j].took \cup Forces(j), lapsing[j].source, next)
        BY <1>3 DEF LapseDeliver
    <2>4. /\ WaiterIsRight' /\ ActsOnStored'
          /\ \A t \in Turns : pc'[t] = next[t] \/ pc'[t] = "running"
        <3> HIDE DEF next
        <3> QED BY <1>t, <2>0, <2>1, <2>2, <2>3, DeliverKeeps DEF Parts
    <2>5. GoesOn
        <3>1. \A t \in Turns : \/ next[t] = pc[t]
                               \/ next[t] \in {"running", "over"}
                               \/ (pc[t] = "opening" /\ next[t] = "inserting")
            <4>1. ASSUME NEW t \in Turns
                  PROVE  \/ After(t) = pc[t] \/ After(t) = "running" \/ After(t) = "over"
                         \/ pc[t] = "opening" /\ After(t) = "inserting"
                BY Zenon DEF After
            <4>2. next = pc \/ \E u \in Turns : next = [pc EXCEPT ![u] = After(u)]
                BY DEF Jobs
            <4>3. pc \in [Turns -> PCs]
                BY <1>t DEF TypeOK, PCs
            <4> HIDE DEF next
            <4>4. ASSUME NEW t \in Turns, NEW u \in Turns, next = [pc EXCEPT ![u] = After(u)]
                  PROVE  next[t] = pc[t] \/ (t = u /\ next[t] = After(t))
                BY <4>3, <4>4
            <4> QED BY <4>1, <4>2, <4>4
        <3> QED BY <2>4, <3>1 DEF GoesOn
    <2>6. StoreKept
        BY <2>0, SameStore
    <2>7. HandlersAreRight' /\ DecidedOnce'
        BY <1>t, <2>0, <2>6, DecidedKept DEF Parts, HandlersAreRight, StoreKept
    <2> QED BY <1>t, <2>0, <2>4, <2>5, <2>6, <2>7, PassesKept, OpenersKept DEF Parts
<1>4. ASSUME NEW t \in Turns, StartTurn(t) PROVE Parts'
    BY <1>4, <1>t, QuietStep DEF StartTurn, GoesOn, TypeOK
<1>9. ASSUME NEW t \in Turns, Stop(t) PROVE Parts'
    BY <1>9, QuietStep DEF Stop, GoesOn
<1>10. ASSUME NEW t \in Turns, EndTurn(t) PROVE Parts'
    BY <1>10, <1>t, QuietStep DEF EndTurn, GoesOn, TypeOK
<1>11. ASSUME NEW q \in Posts, DecideFind(q) PROVE Parts'
    <2>0. UNCHANGED <<store, waiter, pc, batch, acted, passes, up>>
        BY <1>11 DEF DecideFind
    <2>1. /\ post'[q].pc # "deliver" /\ \A p \in Posts \ {q} : post'[p] = post[p]
          /\ \A r \in post'[q].won : r \in post[q].won /\ post'[q].verdict = post[q].verdict
        <3>1. \/ post' = [post EXCEPT ![q].pc = "refused"]
              \/ \E v \in UserVerdict, target \in Recs \cup {NoRec}, S \in SUBSET Recs :
                    post' = [post EXCEPT ![q] = [NoPost EXCEPT !.pc = "settle", !.verdict = v,
                                                              !.target = target, !.todo = S]]
            <4>1. PICK ok \in BOOLEAN, call \in Calls \cup {NoCall}, given \in 0..MaxPass,
                       verdict \in UserVerdict, wide \in BOOLEAN, valid \in BOOLEAN :
                  LET view == View(ok)
                      named == Named(view, call, wide)
                  IN  /\ Call(ok)
                      /\ IF ~valid \/ Refuses(view, call, given, verdict, wide)
                         THEN post' = [post EXCEPT ![q].pc = "refused"]
                         ELSE post' = [post EXCEPT ![q] =
                                 [NoPost EXCEPT !.pc = "settle", !.verdict = verdict,
                                     !.target = IF named = {} THEN NoRec
                                                ELSE CHOOSE r \in named : TRUE,
                                     !.todo = IF wide THEN Newest(view) ELSE named]]
                BY <1>11 DEF DecideFind
            <4> DEFINE T == Named(View(ok), call, wide)
                       S == IF wide THEN Newest(View(ok)) ELSE T
                       target == IF T = {} THEN NoRec ELSE CHOOSE r \in T : TRUE
            <4>2. S \in SUBSET Recs /\ target \in Recs \cup {NoRec}
                BY DEF Named, Newest, PendingIn
            <4>3. \/ post' = [post EXCEPT ![q].pc = "refused"]
                  \/ post' = [post EXCEPT ![q] = [NoPost EXCEPT !.pc = "settle",
                                 !.verdict = verdict, !.target = target, !.todo = S]]
                BY <4>1
            <4> HIDE DEF T, S, target
            <4> QED BY <4>2, <4>3
        <3>2. CASE post' = [post EXCEPT ![q].pc = "refused"]
            BY <1>t, <3>2 DEF TypeOK, PostType
        <3>3. ASSUME NEW v \in UserVerdict, NEW target \in Recs \cup {NoRec}, NEW S \in SUBSET Recs,
                     post' = [post EXCEPT ![q] = [NoPost EXCEPT !.pc = "settle", !.verdict = v,
                                                               !.target = target, !.todo = S]]
              PROVE  /\ post'[q].pc # "deliver" /\ post'[q].won = {}
                     /\ \A p \in Posts \ {q} : post'[p] = post[p]
            BY <1>t, <3>3 DEF TypeOK, NoPost
        <3> QED BY <3>1, <3>2, <3>3
    <2>2. StoreKept /\ GoesOn
        BY <2>0, SameStore DEF GoesOn
    <2>3. DecidedOnce'
        BY <1>t, <2>1, <2>2, DecidedKept DEF Parts
    <2>4. HandlersAreRight'
        BY <1>t, <2>0, <2>1 DEF Parts, HandlersAreRight, store
    <2> QED BY <1>t, <2>0, <2>2, <2>3, <2>4,
               PassesKept, OpenersKept, WaiterKept, ActedKept DEF Parts
<1>12. ASSUME NEW q \in Posts, DecideSettle(q) PROVE Parts'
    <2>0. UNCHANGED <<waiter, pc, batch, acted, passes, up>>
        BY <1>12 DEF DecideSettle
    <2>1. PICK r \in post[q].todo :
          \/ /\ Wins(r) /\ Settle(r, post[q].verdict)
             /\ post' = [post EXCEPT ![q].pc = "deliver", ![q].cur = r,
                                     ![q].todo = @ \ {r}, ![q].won = @ \cup {r}]
          \/ /\ post' = [post EXCEPT ![q].todo = @ \ {r}, ![q].pc =
                            IF r = post[q].target THEN "refused"
                            ELSE IF post[q].todo = {r} THEN "done" ELSE "settle"]
             /\ UNCHANGED store
          \/ /\ post' = [post EXCEPT ![q].pc = "error"]
             /\ UNCHANGED store
        BY <1>12 DEF DecideSettle
    <2>2. /\ r \in Recs /\ post[q] \in PostType /\ post[q].verdict \in UserVerdict
          /\ post[q].verdict \in Settled
        BY <1>t DEF TypeOK, PostType, Settled
    <2>3. StoreKept
        BY <1>t, <2>1, <2>2, SettleKeeps, SameStore
    <2>4. GoesOn
        BY <2>0 DEF GoesOn
    <2>5. DecidedOnce' /\ HandlersAreRight'
        <3>1. CASE /\ Wins(r) /\ Settle(r, post[q].verdict)
                   /\ post' = [post EXCEPT ![q].pc = "deliver", ![q].cur = r,
                                           ![q].todo = @ \ {r}, ![q].won = @ \cup {r}]
            <4>1. Stored'[r] = post[q].verdict
                BY <1>t, <2>2, <3>1, SettleKeeps
            <4>2. /\ post'[q].pc = "deliver" /\ post'[q].cur = r
                  /\ post'[q].won = post[q].won \cup {r} /\ post'[q].verdict = post[q].verdict
                  /\ \A p \in Posts \ {q} : post'[p] = post[p]
                BY <1>t, <2>2, <3>1 DEF TypeOK, PostType
            <4>3. \A p \in Posts : r \notin post[p].won
                <5>1. \A p \in Posts : post[p].verdict # "pending"
                    BY <1>t DEF TypeOK, PostType, UserVerdict
                <5> QED BY <1>t, <3>1, <5>1 DEF Parts, DecidedOnce, Wins
            <4>4. \A p \in Posts : \A x \in post[p].won :
                     x \in Recs /\ Stored'[x] = post[p].verdict
                BY <1>t, <2>3 DEF Parts, DecidedOnce, StoreKept, TypeOK, PostType
            <4>5. DecidedOnce'
                BY <1>t, <4>1, <4>2, <4>3, <4>4 DEF Parts, DecidedOnce
            <4>6. HandlersAreRight'
                BY <1>t, <2>0, <2>3, <4>2 DEF Parts, HandlersAreRight, StoreKept
            <4> QED BY <4>5, <4>6
        <3>2. CASE /\ post' = [post EXCEPT ![q].todo = @ \ {r}, ![q].pc =
                                   IF r = post[q].target THEN "refused"
                                   ELSE IF post[q].todo = {r} THEN "done" ELSE "settle"]
                   /\ UNCHANGED store
            <4>1. /\ post'[q].pc # "deliver"
                  /\ post'[q].won = post[q].won /\ post'[q].verdict = post[q].verdict
                  /\ \A p \in Posts \ {q} : post'[p] = post[p]
                BY <1>t, <2>2, <3>2 DEF TypeOK, PostType
            <4> QED BY <1>t, <2>0, <2>3, <4>1, DecidedKept
                    DEF Parts, HandlersAreRight, StoreKept
        <3>3. CASE post' = [post EXCEPT ![q].pc = "error"] /\ UNCHANGED store
            <4>1. /\ post'[q].pc # "deliver"
                  /\ post'[q].won = post[q].won /\ post'[q].verdict = post[q].verdict
                  /\ \A p \in Posts \ {q} : post'[p] = post[p]
                BY <1>t, <2>2, <3>3 DEF TypeOK, PostType
            <4> QED BY <1>t, <2>0, <2>3, <4>1, DecidedKept
                    DEF Parts, HandlersAreRight, StoreKept
        <3> QED BY <2>1, <3>1, <3>2, <3>3
    <2> QED BY <1>t, <2>0, <2>3, <2>4, <2>5,
               PassesKept, OpenersKept, WaiterKept, ActedKept DEF Parts
<1>5. ASSUME NEW t \in Turns, Open(t) PROVE Parts'
    <2>0. /\ UNCHANGED <<store, waiter, post, acted, up>>
          /\ passes < MaxPass /\ passes' = passes + 1
          /\ pc' = [pc EXCEPT ![t] = "opening"]
        BY <1>5 DEF Open
    <2>1. PICK S \in SUBSET Calls \ {{}} :
             batch' = [batch EXCEPT ![t] =
                          [pass |-> passes + 1,
                           asked |-> [c \in Calls |-> IF c \in S THEN "missing" ELSE "out"]]]
        BY <1>5 DEF Open
    <2>2. /\ batch'[t].pass = passes + 1
          /\ \A c \in Calls : batch'[t].asked[c] \in {"out", "missing"}
          /\ \A u \in Turns \ {t} : batch'[u] = batch[u] /\ pc'[u] = pc[u]
          /\ pc'[t] = "opening"
        BY <1>t, <2>0, <2>1 DEF TypeOK
    <2>3. StoreKept /\ Stored' = Stored
        BY <2>0, SameStore
    <2>4. PassesAreOwn' /\ OpenersAreRight'
        BY <1>t, <2>0, <2>2, <2>3, FreshPass
    <2>5. HandlersAreRight' /\ DecidedOnce'
        BY <1>t, <2>0, <2>3, DecidedKept DEF Parts, HandlersAreRight, StoreKept
    <2> QED BY <1>t, <2>0, <2>3, <2>4, <2>5, WaiterKept, ActedKept DEF Parts
<1>6. ASSUME NEW t \in Turns, ResumeFind(t) PROVE Parts'
    <2>0. /\ UNCHANGED <<store, waiter, post, acted, up>> /\ pc[t] = "resuming"
        BY <1>6 DEF ResumeFind
    <2>1. PICK ok \in BOOLEAN :
             \/ /\ \E c \in Calls : Reread(t, View(ok))[c] \notin {"out", "missing"}
                /\ batch' = [batch EXCEPT ![t].asked = Reread(t, View(ok))]
                /\ pc' = [pc EXCEPT ![t] = "inserting"]
                /\ UNCHANGED passes
             \/ /\ passes < MaxPass
                /\ batch' = [batch EXCEPT ![t].pass = passes + 1]
                /\ passes' = passes + 1
                /\ pc' = [pc EXCEPT ![t] = "opening"]
        BY <1>6 DEF ResumeFind
    <2>2. OpenerIsRight(t) /\ batch[t] \in [pass : 0..MaxPass, asked : [Calls -> Known]]
        BY <1>t DEF Parts, OpenersAreRight, TypeOK
    <2>3. StoreKept /\ Stored' = Stored
        BY <2>0, SameStore
    <2>4. PassesAreOwn' /\ OpenersAreRight'
        <3>1. CASE /\ \E c \in Calls : Reread(t, View(ok))[c] \notin {"out", "missing"}
                   /\ batch' = [batch EXCEPT ![t].asked = Reread(t, View(ok))]
                   /\ pc' = [pc EXCEPT ![t] = "inserting"]
                   /\ UNCHANGED passes
            <4>1. /\ batch'[t].pass = batch[t].pass /\ batch'[t].asked = Reread(t, View(ok))
                  /\ \A u \in Turns \ {t} : batch'[u] = batch[u] /\ pc'[u] = pc[u]
                  /\ pc'[t] = "inserting"
                BY <1>t, <3>1 DEF TypeOK
            <4>2. \A c \in Calls : /\ <<batch[t].pass, c>> \in Recs
                                   /\ memory[<<batch[t].pass, c>>] = "absent"
                BY <1>t, <2>0, <2>2, OpenerRec DEF OpenerIsRight, Parts
            <4>3. ok = TRUE
                <5> SUFFICES ASSUME ok = FALSE PROVE FALSE
                    OBVIOUS
                <5>1. \A c \in Calls : View(ok)[<<batch[t].pass, c>>] = "absent"
                    BY <4>2 DEF View
                <5> QED BY <3>1, <5>1 DEF Reread
            <4>4. OpenerIsRight(t)'
                <5>1. \A c \in Calls : Reread(t, View(ok))[c] = "missing" =>
                         Fresh(<<batch[t].pass, c>>)
                    <6> SUFFICES ASSUME NEW c \in Calls, Reread(t, View(ok))[c] = "missing"
                                 PROVE  db[<<batch[t].pass, c>>] = "absent"
                        BY <4>2 DEF Fresh
                    <6>1. Stored[<<batch[t].pass, c>>] \in {"absent", "missing"}
                        BY <4>3 DEF Reread, Recalls, Stored
                    <6>2. Stored[<<batch[t].pass, c>>] # "missing"
                        BY <1>t, <4>2, StoredType DEF TypeOK, Outcomes, Settled, UserVerdict, Lapsed
                    <6> QED BY <4>2, <6>1, <6>2 DEF Stored, View
                <5>2. \A c \in Calls : Reread(t, View(ok))[c] \in UserVerdict =>
                         Stored[<<batch[t].pass, c>>] = Reread(t, View(ok))[c]
                    BY <4>3 DEF Reread, Recalls, Stored, UserVerdict
                <5>3. \A r \in Recs : Fresh(r) => Fresh(r)'
                    BY <2>3 DEF StoreKept
                <5>4. batch[t].pass >= 1
                    BY <2>0, <2>2 DEF OpenerIsRight
                <5> QED BY <2>3, <4>1, <4>2, <5>1, <5>2, <5>3, <5>4 DEF OpenerIsRight
            <4>5. PassesAreOwn'
                BY <1>t, <2>3, <3>1, <4>1 DEF Parts, PassesAreOwn, StoreKept
            <4>6. ASSUME NEW u \in Turns \ {t} PROVE OpenerIsRight(u)'
                BY <1>t, <2>0, <4>1 DEF Parts, OpenersAreRight, OpenerIsRight, Fresh, Stored, View, store
            <4> QED BY <4>4, <4>5, <4>6 DEF OpenersAreRight
        <3>2. CASE /\ passes < MaxPass
                   /\ batch' = [batch EXCEPT ![t].pass = passes + 1]
                   /\ passes' = passes + 1
                   /\ pc' = [pc EXCEPT ![t] = "opening"]
            <4>1. /\ batch'[t].pass = passes + 1 /\ batch'[t].asked = batch[t].asked
                  /\ \A u \in Turns \ {t} : batch'[u] = batch[u] /\ pc'[u] = pc[u]
                  /\ pc'[t] = "opening"
                BY <1>t, <3>2 DEF TypeOK
            <4>2. \A c \in Calls : batch'[t].asked[c] \in {"out", "missing"}
                BY <2>0, <2>2, <4>1 DEF OpenerIsRight
            <4> QED BY <1>t, <2>0, <3>2, <4>1, <4>2, FreshPass
        <3> QED BY <2>1, <3>1, <3>2
    <2>5. HandlersAreRight' /\ DecidedOnce'
        BY <1>t, <2>0, <2>3, DecidedKept DEF Parts, HandlersAreRight, StoreKept
    <2> QED BY <1>t, <2>0, <2>3, <2>4, <2>5, WaiterKept, ActedKept DEF Parts
<1>7. ASSUME up, NEW t \in Turns, InsertMissing(t) PROVE Parts'
    <2> DEFINE S == {<<batch[t].pass, c>> : c \in {d \in Calls : batch[t].asked[d] = "missing"}}
    <2>0. /\ UNCHANGED <<waiter, post, acted, passes, up>> /\ pc[t] = "inserting"
          /\ Insert(S)
        BY <1>7 DEF InsertMissing
    <2>1. /\ batch'[t].pass = batch[t].pass /\ batch'[t].asked = AsInserted(batch[t].asked)
          /\ \A u \in Turns \ {t} : batch'[u] = batch[u] /\ pc'[u] = pc[u]
          /\ pc'[t] = "parking"
        BY <1>7, <1>t DEF InsertMissing, TypeOK
    <2>2. /\ OpenerIsRight(t) /\ batch[t].pass >= 1 /\ batch[t].pass <= passes
          /\ \A u \in Turns \ {t} : batch[u].pass # batch[t].pass
        BY <1>t, <2>0 DEF Parts, OpenersAreRight, OpenerIsRight, PassesAreOwn
    <2>3. \A r \in S : r \in Recs /\ Fresh(r) /\ r[1] = batch[t].pass /\ Stored[r] = "absent"
        <3>1. \A c \in Calls : <<batch[t].pass, c>> \in Recs
            BY <1>t, <2>0, OpenerRec DEF Parts
        <3> QED BY <2>0, <2>2, <3>1 DEF OpenerIsRight, Fresh, Stored, View
    <2>4. \A r \in Recs \ S : db'[r] = db[r] /\ memory'[r] = memory[r]
        BY <2>0 DEF Insert
    <2>5. \A r \in Recs \ S : Stored'[r] = Stored[r] /\ (Fresh(r) => Fresh(r)')
        BY <2>4 DEF Stored, View, Fresh
    <2> HIDE DEF S
    <2>6. PassesAreOwn'
        <3>1. passes \in Nat /\ \A r \in Recs : r[1] \in Nat
            BY <1>t, ApprovalsAssumption DEF TypeOK, Recs, Passes
        <3>2. \A r \in Recs : r[1] > passes => r \notin S
            BY <2>2, <2>3, <3>1
        <3>3. \A u \in Turns : batch'[u].pass = batch[u].pass
            BY <2>1
        <3> QED BY <1>t, <2>0, <2>5, <3>2, <3>3 DEF Parts, PassesAreOwn
    <2>7. OpenerIsRight(t)'
        <3>1. \A c \in Calls : /\ batch'[t].asked[c] # "missing"
                               /\ batch'[t].asked[c] \in UserVerdict =>
                                     batch'[t].asked[c] = batch[t].asked[c]
            BY <2>1 DEF AsInserted, UserVerdict
        <3>2. \A c \in Calls : batch[t].asked[c] \in UserVerdict =>
                 <<batch[t].pass, c>> \in Recs \ S
            <4>1. \A c \in Calls : <<batch[t].pass, c>> \in Recs
                BY <1>t, <2>0, OpenerRec DEF Parts
            <4>2. \A c \in Calls : batch[t].asked[c] \in UserVerdict =>
                     Stored[<<batch[t].pass, c>>] = batch[t].asked[c]
                BY <2>0, <2>2 DEF OpenerIsRight
            <4> QED BY <2>3, <4>1, <4>2 DEF UserVerdict
        <3> QED BY <2>0, <2>1, <2>2, <2>5, <3>1, <3>2 DEF OpenerIsRight
    <2>8. ASSUME NEW u \in Turns \ {t} PROVE OpenerIsRight(u)'
        <3>1. OpenerIsRight(u) /\ batch'[u] = batch[u] /\ pc'[u] = pc[u]
            BY <1>t, <2>1 DEF Parts, OpenersAreRight
        <3>2. CASE pc[u] \in {"opening", "resuming", "inserting", "parking"}
            <4>1. \A c \in Calls : <<batch[u].pass, c>> \in Recs \ S
                BY <1>t, <2>2, <2>3, <3>2, OpenerRec DEF Parts
            <4> QED BY <2>4, <2>5, <3>1, <4>1 DEF OpenerIsRight
        <3>3. CASE pc[u] \notin {"opening", "resuming", "inserting", "parking"}
            BY <3>1, <3>3 DEF OpenerIsRight
        <3> QED BY <3>2, <3>3
    <2>9. WaiterIsRight' /\ ActsOnStored' /\ DecidedOnce'
        <3>1. \A r \in Recs : Stored[r] \in UserVerdict => Stored'[r] = Stored[r]
            BY <2>3, <2>5 DEF UserVerdict
        <3>2. waiter # NoWaiter => \A c \in Calls : <<waiter.pass, c>> \in Recs
            BY <1>t DEF TypeOK, WaiterType, Recs
        <3>3. \A a \in acted : a.rec \in Recs
            BY <1>t DEF TypeOK
        <3>4. \A q \in Posts : \A r \in post[q].won : r \in Recs /\ post[q].verdict \in UserVerdict
            BY <1>t DEF TypeOK, PostType
        <3> QED BY <1>t, <2>0, <3>1, <3>2, <3>3, <3>4
                DEF Parts, WaiterIsRight, ActsOnStored, DecidedOnce
    <2>10. HandlersAreRight'
        BY <1>7, <1>t, <2>0 DEF Parts, HandlersAreRight
    <2> QED BY <2>6, <2>7, <2>8, <2>9, <2>10 DEF Parts, OpenersAreRight
<1>8. ASSUME NEW t \in Turns, Park(t) PROVE Parts'
    <2>0. UNCHANGED <<store, batch, post, passes, up>> /\ pc[t] = "parking"
        BY <1>8 DEF Park
    <2>1. StoreKept /\ Stored' = Stored
        BY <2>0, SameStore
    <2>2. pc' = [pc EXCEPT ![t] = "running"] \/ pc' = [pc EXCEPT ![t] = "waiting"]
        BY <1>8 DEF Park
    <2>3. GoesOn
        BY <1>t, <2>2 DEF GoesOn, TypeOK
    <2>4. \A c \in Calls : batch[t].asked[c] \in UserVerdict =>
             Stored[<<batch[t].pass, c>>] = batch[t].asked[c]
        BY <1>t, <2>0 DEF Parts, OpenersAreRight, OpenerIsRight
    <2>5. WaiterIsRight'
        <3>1. \/ waiter' = waiter
              \/ waiter' = [turn |-> t, pass |-> batch[t].pass, got |-> batch[t].asked]
            BY <1>8 DEF Park
        <3> QED BY <1>t, <2>1, <2>4, <3>1, WaiterKept DEF Parts, WaiterIsRight
    <2>6. ActsOnStored'
        <3>1. \A a \in acted' : a \in acted \/ \E c \in Calls :
                 a = [turn |-> t, rec |-> <<batch[t].pass, c>>, as |-> batch[t].asked[c]]
            BY <1>8 DEF Park
        <3> QED BY <1>t, <2>1, <2>4, <3>1 DEF Parts, ActsOnStored
    <2>7. HandlersAreRight' /\ DecidedOnce'
        BY <1>t, <2>0, <2>1, DecidedKept DEF Parts, HandlersAreRight, StoreKept
    <2> QED BY <1>t, <2>0, <2>1, <2>3, <2>5, <2>6, <2>7, PassesKept, OpenersKept DEF Parts
<1>13. ASSUME NEW q \in Posts, DecideDeliver(q) PROVE Parts'
    <2>0. UNCHANGED <<store, batch, passes, up>> /\ post[q].pc = "deliver"
        BY <1>13 DEF DecideDeliver
    <2>1. StoreKept
        BY <2>0, SameStore
    <2>2. /\ post[q] \in PostType /\ pc \in [Turns -> PCs]
          /\ post[q].verdict \in Settled
        BY <1>t DEF TypeOK, PostType, PCs, Settled
    <2>3. HandsOver(q) \in SUBSET Recs /\ \A r \in HandsOver(q) : Stored[r] = post[q].verdict
        BY <1>t, <2>0, <2>2 DEF HandsOver, Parts, HandlersAreRight, DecidedOnce, PostType
    <2>4. /\ WaiterIsRight' /\ ActsOnStored'
          /\ \A t \in Turns : pc'[t] = pc[t] \/ pc'[t] = "running"
        BY <1>13, <1>t, <2>0, <2>2, <2>3, DeliverKeeps DEF DecideDeliver, Parts
    <2>5. GoesOn
        BY <2>4 DEF GoesOn
    <2>6. /\ post'[q].pc # "deliver"
          /\ post'[q].won = post[q].won /\ post'[q].verdict = post[q].verdict
          /\ \A p \in Posts \ {q} : post'[p] = post[p]
        BY <1>13, <1>t, <2>2 DEF DecideDeliver, TypeOK, PostType
    <2>7. HandlersAreRight' /\ DecidedOnce'
        BY <1>t, <2>0, <2>1, <2>6, DecidedKept DEF Parts, HandlersAreRight, StoreKept
    <2> QED BY <1>t, <2>0, <2>1, <2>4, <2>5, <2>7, PassesKept, OpenersKept DEF Parts
<1>14. ASSUME Crash PROVE Parts'
    <2>0. /\ UNCHANGED <<db, batch, passes>> /\ waiter' = NoWaiter
          /\ memory' = [r \in Recs |-> "absent"]
          /\ acted' = {a \in acted : memory[a.rec] = "absent"}
          /\ pc' = [t \in Turns |-> IF pc[t] \in {"new", "over"} THEN pc[t] ELSE "dead"]
          /\ post' = [q \in Posts |->
                [post[q] EXCEPT !.pc = IF @ \in {"settle", "deliver"} THEN "lost" ELSE @,
                                !.cur = NoRec, !.todo = {}, !.taken = {},
                                !.won = {r \in @ : memory[r] = "absent"}]]
        BY <1>14 DEF Crash
    <2>1. \A r \in Recs : /\ Fresh(r) => Fresh(r)'
                          /\ memory[r] = "absent" => Stored'[r] = Stored[r]
        BY <2>0 DEF Fresh, Stored, View
    <2>2. PassesAreOwn'
        BY <1>t, <2>0, <2>1 DEF Parts, PassesAreOwn
    <2>3. OpenersAreRight'
        <3>1. \A t \in Turns : pc'[t] \in {"new", "over", "dead"}
            BY <2>0
        <3> QED BY <3>1 DEF OpenersAreRight, OpenerIsRight
    <2>4. WaiterIsRight'
        BY <2>0 DEF WaiterIsRight
    <2>5. ActsOnStored'
        <3>1. \A a \in acted : a.rec \in Recs
            BY <1>t DEF TypeOK
        <3> QED BY <1>t, <2>0, <2>1, <3>1 DEF Parts, ActsOnStored
    <2>6. \A q \in Posts : /\ post'[q].pc # "deliver" /\ post'[q].verdict = post[q].verdict
                           /\ post'[q].won = {r \in post[q].won : memory[r] = "absent"}
        <3> TAKE q \in Posts
        <3>1. post[q] \in PostType
            BY <1>t DEF TypeOK
        <3> QED BY <2>0, <3>1 DEF PostType
    <2>7. DecidedOnce'
        <3>1. \A q \in Posts : post[q].won \in SUBSET Recs
            BY <1>t DEF TypeOK, PostType
        <3> QED BY <1>t, <2>1, <2>6, <3>1 DEF Parts, DecidedOnce
    <2>8. HandlersAreRight'
        BY <2>0, <2>6 DEF HandlersAreRight
    <2> QED BY <2>2, <2>3, <2>4, <2>5, <2>7, <2>8 DEF Parts
<1>15. ASSUME NEW t \in Turns, Redrive(t) PROVE Parts'
    <2>0. UNCHANGED <<store, waiter, post, acted, passes>> /\ ~up /\ up'
        BY <1>15 DEF Redrive
    <2>1. StoreKept /\ Stored' = Stored
        BY <2>0, SameStore
    <2>2. \A u \in Turns : batch'[u].pass = batch[u].pass
        BY <1>15, <1>t DEF Redrive, TypeOK
    <2>3. PassesAreOwn'
        BY <1>t, <2>0, <2>1, <2>2 DEF Parts, PassesAreOwn, StoreKept
    <2>4. OpenersAreRight'
        <3>1. CASE UNCHANGED batch /\ pc' = [u \in Turns |-> IF u = t THEN "retiring"
                                         ELSE IF pc[u] = "dead" THEN "over" ELSE pc[u]]
            <4>1. GoesOn
                BY <3>1 DEF GoesOn
            <4> QED BY <1>t, <2>1, <3>1, <4>1, OpenersKept DEF Parts
        <3>2. CASE /\ batch[t].pass > 0
                   /\ \E S \in SUBSET Calls \ {{}} :
                         batch' = [batch EXCEPT ![t].asked =
                                      [c \in Calls |-> IF c \in S THEN "missing" ELSE "out"]]
                   /\ pc' = [u \in Turns |-> IF u = t THEN "resuming"
                                             ELSE IF pc[u] = "dead" THEN "over" ELSE pc[u]]
            <4>1. /\ \A c \in Calls : batch'[t].asked[c] \in {"out", "missing"}
                  /\ \A u \in Turns \ {t} : batch'[u] = batch[u]
                  /\ pc'[t] = "resuming"
                BY <1>t, <3>2 DEF TypeOK
            <4>2. batch[t].pass >= 1 /\ batch[t].pass \in Passes
                BY <1>t, <3>2, ApprovalsAssumption DEF TypeOK, Passes
            <4>3. \A c \in Calls : memory'[<<batch'[t].pass, c>>] = "absent"
                BY <1>t, <2>0, <2>2, <4>2 DEF Parts, HandlersAreRight, store, Recs
            <4>4. OpenerIsRight(t)'
                BY <2>2, <4>1, <4>2, <4>3 DEF OpenerIsRight
            <4>5. ASSUME NEW u \in Turns \ {t} PROVE OpenerIsRight(u)'
                <5>1. OpenerIsRight(u) /\ batch'[u] = batch[u]
                    BY <1>t, <4>1 DEF Parts, OpenersAreRight
                <5>2. pc'[u] = pc[u] \/ pc'[u] = "over"
                    BY <3>2
                <5>3. CASE pc'[u] = pc[u]
                    BY <2>0, <5>1, <5>3 DEF OpenerIsRight, Fresh, Stored, View, store
                <5>4. CASE pc'[u] = "over"
                    BY <5>4 DEF OpenerIsRight
                <5> QED BY <5>2, <5>3, <5>4
            <4> QED BY <4>4, <4>5 DEF OpenersAreRight
        <3> QED BY <1>15, <3>1, <3>2 DEF Redrive
    <2>5. HandlersAreRight' /\ DecidedOnce'
        BY <1>t, <2>0, <2>1, DecidedKept DEF Parts, HandlersAreRight, StoreKept
    <2> QED BY <1>t, <2>0, <2>1, <2>3, <2>4, <2>5, WaiterKept, ActedKept DEF Parts
<1>16. ASSUME Salvage PROVE Parts'
    <2>0. /\ UNCHANGED <<memory, waiter, batch, post, acted, passes>> /\ ~up /\ up'
          /\ pc' = [u \in Turns |-> IF pc[u] = "dead" THEN "over" ELSE pc[u]]
        BY <1>16 DEF Salvage
    <2>1. PICK S \in SUBSET PendingIn(Stored) :
             db' = [r \in Recs |-> IF r \in S THEN "turn_ended" ELSE db[r]]
        BY <1>16 DEF Salvage
    <2>2. StoreKept
        <3>1. \A r \in Recs : r \in S => Stored[r] = "pending"
            BY DEF PendingIn
        <3>2. \A r \in Recs : r \notin S => Stored'[r] = Stored[r] /\ (Fresh(r) => Fresh(r)')
            BY <2>0, <2>1 DEF Stored, View, Fresh
        <3>3. \A r \in Recs : Stored[r] = "pending" => ~Fresh(r)
            BY DEF Stored, View, Fresh
        <3> QED BY <2>0, <3>1, <3>2, <3>3 DEF StoreKept, UserVerdict
    <2>3. GoesOn
        BY <2>0 DEF GoesOn
    <2>4. HandlersAreRight' /\ DecidedOnce'
        BY <1>t, <2>0, <2>2, DecidedKept DEF Parts, HandlersAreRight
    <2> QED BY <1>t, <2>0, <2>2, <2>3, <2>4,
               PassesKept, OpenersKept, WaiterKept, ActedKept DEF Parts
<1>17. ASSUME UNCHANGED vars PROVE Parts'
    BY <1>17, QuietStep DEF vars, GoesOn
<1> QED
    BY <1>1, <1>2, <1>3, <1>4, <1>5, <1>6, <1>7, <1>8, <1>9, <1>10, <1>11, <1>12,
       <1>13, <1>14, <1>15, <1>16, <1>17
    DEF Next, LapseStep, TurnStep, PostStep

-----------------------------------------------------------------------------
(* The theorems *)

\* Inv is inductive: every state the registry, its callers and its restarts
\* can reach satisfies it.
THEOREM Invariance == Spec => []Inv
<1>1. Inv /\ [Next]_vars => Inv'
    BY TypeStep, PartsStep DEF Inv, Parts
<1> QED BY InitInv, <1>1, PTL DEF Spec

\* Every variable keeps its type, for every number of calls, turns and POSTs.
THEOREM TypeCorrect == Spec => []TypeOK
<1>1. Inv => TypeOK
    BY DEF Inv
<1> QED BY Invariance, <1>1, PTL

\* However many POSTs race for a call, through lapses, failed calls, crashes
\* and overlapping turns, one of them decides it, and the store keeps that.
THEOREM OneDecision == Spec => []DecidedOnce
<1>1. Inv => DecidedOnce
    BY DEF Inv
<1> QED BY Invariance, <1>1, PTL

\* The gate acts on the verdict the store holds, for every interleaving.
THEOREM ActsFaithfully == Spec => []ActsOnStored
<1>1. Inv => ActsOnStored
    BY DEF Inv
<1> QED BY Invariance, <1>1, PTL
-----------------------------------------------------------------------------
(* The store refines DecisionBoard *)

Volatile == {r \in Recs : memory[r] # "absent"}

\* A step that leaves the store alone is a stutter of the board.
LEMMA BoardStutter ==
    ASSUME UNCHANGED store
    PROVE  UNCHANGED Board!board
BY SameStore DEF store, Board!board

\* A conditional write that wins is a decision of the board.
LEMMA BoardDecides ==
    ASSUME TypeOK, NEW r \in Recs, NEW outcome \in Settled, Wins(r), Settle(r, outcome)
    PROVE  Board!Decide({r}, outcome)
<1>1. Stored'[r] = outcome /\ \A s \in Recs : s # r => Stored'[s] = Stored[s]
    <2>1. \A s \in Recs : s # r => db'[s] = db[s] /\ memory'[s] = memory[s]
        BY DEF Settle, TypeOK
    <2> QED BY <2>1, SettleKeeps DEF Stored, View
<1>2. Stored' = [s \in Recs |-> IF s \in {r} THEN outcome ELSE Stored[s]]
    BY <1>1 DEF Stored, View
<1>3. Volatile' = Volatile
    BY DEF Settle, TypeOK, Volatile, Settled, UserVerdict, Lapsed
<1> QED BY <1>2, <1>3 DEF Board!Decide, Wins, Volatile

\* An insert of fresh records, all or none of them durable, asks for them.
LEMMA BoardAsks ==
    ASSUME TypeOK, NEW S \in SUBSET Recs, Insert(S), \A r \in S : Fresh(r)
    PROVE  \E V \in SUBSET S : Board!Ask(S, V)
<1>0. \A r \in S : Stored[r] = "absent"
    BY DEF Fresh, Stored, View
<1>1. CASE /\ db' = [r \in Recs |-> IF r \in S THEN "pending" ELSE db[r]]
           /\ UNCHANGED memory
    <2>1. Stored' = [r \in Recs |-> IF r \in S THEN "pending" ELSE Stored[r]]
        BY <1>1 DEF Stored, View, Fresh
    <2>2. Volatile' = Volatile \cup {}
        BY <1>1 DEF Volatile
    <2> QED BY <1>0, <2>1, <2>2 DEF Board!Ask, Volatile
<1>2. CASE /\ memory' = [r \in Recs |-> IF r \in S THEN "pending" ELSE memory[r]]
           /\ \E W \in SUBSET S :
                 db' = [r \in Recs |-> IF r \in W THEN "pending" ELSE db[r]]
    <2>1. \A r \in Recs \ S : memory'[r] = memory[r] /\ db'[r] = db[r]
        BY <1>2
    <2>2. \A r \in S : memory'[r] = "pending"
        BY <1>2
    <2>3. Stored' = [r \in Recs |-> IF r \in S THEN "pending" ELSE Stored[r]]
        BY <2>1, <2>2 DEF Stored, View
    <2>4. Volatile' = Volatile \cup S
        BY <2>1, <2>2 DEF Volatile
    <2> QED BY <1>0, <2>3, <2>4 DEF Board!Ask, Volatile
<1> QED BY <1>1, <1>2 DEF Insert

\* The steps that write the store.
LEMMA Writers ==
    ASSUME [Next]_vars, ~UNCHANGED store
    PROVE  \/ \E j \in Jobs : LapseSettle(j)
           \/ \E q \in Posts : DecideSettle(q)
           \/ \E t \in Turns : InsertMissing(t)
           \/ Crash \/ Salvage
BY DEF Next, LapseStep, TurnStep, PostStep, LapseFind, LapseDeliver, StartTurn, Open,
       ResumeFind, Park, Stop, EndTurn, DecideFind, DecideDeliver, Redrive, store, vars

\* A record kept in memory was never settled in the database, so a crash takes
\* it back to before its decision and to nothing else.
MemoryShadows == \A r \in Recs : memory[r] # "absent" => db[r] \in {"absent", "pending"}

\* Only an insert puts a record in memory, and settle() writes where it is kept.
LEMMA ShadowStep == Inv /\ MemoryShadows /\ [Next]_vars => MemoryShadows'
<1> SUFFICES ASSUME Inv, MemoryShadows, [Next]_vars PROVE MemoryShadows'
    OBVIOUS
<1>t. TypeOK /\ OpenersAreRight /\ HandlersAreRight
    BY DEF Inv
<1>1. CASE UNCHANGED store
    BY <1>1 DEF MemoryShadows, store
<1>2. ASSUME NEW r \in Recs, NEW outcome \in Settled, Settle(r, outcome) PROVE MemoryShadows'
    BY <1>t, <1>2 DEF MemoryShadows, Settle, TypeOK
<1>3. ASSUME NEW j \in Jobs, LapseSettle(j), ~UNCHANGED store PROVE MemoryShadows'
    <2>1. PICK r \in lapsing[j].todo : Settle(r, lapsing[j].source)
        BY <1>3 DEF LapseSettle, store
    <2>2. r \in Recs /\ lapsing[j].source \in Settled
        BY <1>t, <2>1 DEF TypeOK, LapseType, Settled
    <2> QED BY <2>1, <2>2, <1>2
<1>4. ASSUME NEW q \in Posts, DecideSettle(q), ~UNCHANGED store PROVE MemoryShadows'
    <2>1. PICK r \in post[q].todo : Settle(r, post[q].verdict)
        BY <1>4 DEF DecideSettle, store
    <2>2. r \in Recs /\ post[q].verdict \in Settled
        BY <1>t, <2>1 DEF TypeOK, PostType, Settled
    <2> QED BY <2>1, <2>2, <1>2
<1>5. ASSUME NEW t \in Turns, InsertMissing(t) PROVE MemoryShadows'
    <2> DEFINE S == {<<batch[t].pass, c>> : c \in {d \in Calls : batch[t].asked[d] = "missing"}}
    <2>1. pc[t] = "inserting" /\ Insert(S)
        BY <1>5 DEF InsertMissing
    <2>2. \A r \in S : Fresh(r)
        BY <1>t, <2>1 DEF OpenersAreRight, OpenerIsRight
    <2> HIDE DEF S
    <2> QED BY <2>1, <2>2 DEF MemoryShadows, Insert, Fresh
<1>6. CASE Crash \/ Salvage
    BY <1>t, <1>6 DEF MemoryShadows, Crash, Salvage, HandlersAreRight
<1> QED BY <1>1, <1>3, <1>4, <1>5, <1>6, Writers

\* Every step of the registry and its callers is a step of the board.
LEMMA BoardStep == Inv /\ MemoryShadows /\ [Next]_vars => [Board!Next]_(Board!board)
<1> SUFFICES ASSUME Inv, MemoryShadows, [Next]_vars PROVE Board!Next \/ UNCHANGED Board!board
    OBVIOUS
<1>t. TypeOK /\ OpenersAreRight
    BY DEF Inv
<1>1. CASE UNCHANGED store
    BY <1>1, BoardStutter
<1>2. ASSUME NEW j \in Jobs, LapseSettle(j), ~UNCHANGED store PROVE Board!Next
    <2>1. PICK r \in lapsing[j].todo : Wins(r) /\ Settle(r, lapsing[j].source)
        BY <1>2 DEF LapseSettle, store
    <2>2. r \in Recs /\ lapsing[j].source \in Settled
        BY <1>t, <2>1 DEF TypeOK, LapseType, Settled
    <2>3. Board!Decide({r}, lapsing[j].source)
        BY <1>t, <2>1, <2>2, BoardDecides
    <2> QED BY <2>2, <2>3 DEF Board!Next
<1>3. ASSUME NEW q \in Posts, DecideSettle(q), ~UNCHANGED store PROVE Board!Next
    <2>1. PICK r \in post[q].todo : Wins(r) /\ Settle(r, post[q].verdict)
        BY <1>3 DEF DecideSettle, store
    <2>2. r \in Recs /\ post[q].verdict \in Settled
        BY <1>t, <2>1 DEF TypeOK, PostType, Settled
    <2>3. Board!Decide({r}, post[q].verdict)
        BY <1>t, <2>1, <2>2, BoardDecides
    <2> QED BY <2>2, <2>3 DEF Board!Next
<1>4. ASSUME NEW t \in Turns, InsertMissing(t) PROVE Board!Next
    <2> DEFINE S == {<<batch[t].pass, c>> : c \in {d \in Calls : batch[t].asked[d] = "missing"}}
    <2>1. pc[t] = "inserting" /\ Insert(S)
        BY <1>4 DEF InsertMissing
    <2>2. S \in SUBSET Recs
        BY <1>t, <2>1, OpenerRec
    <2>3. \A r \in S : Fresh(r)
        BY <1>t, <2>1 DEF OpenersAreRight, OpenerIsRight
    <2>4. \E V \in SUBSET S : Board!Ask(S, V)
        <3> HIDE DEF S
        <3> QED BY <1>t, <2>1, <2>2, <2>3, BoardAsks
    <2> QED BY <2>2, <2>4 DEF Board!Next
<1>5. ASSUME Crash PROVE Board!Next
    <2>1. db' = db /\ memory' = [r \in Recs |-> "absent"]
        BY <1>5 DEF Crash
    <2>2. \A r \in Recs : Stored'[r] # Stored[r] => r \in Volatile
        BY <2>1 DEF Stored, View, Volatile
    <2>3. \A r \in Recs : r \in Volatile /\ Stored'[r] # Stored[r] =>
              Stored'[r] \in {"absent", "pending"}
        BY <2>1 DEF Stored, View, Volatile, MemoryShadows
    <2>4. Volatile' = {}
        BY <2>1 DEF Volatile
    <2> QED BY <2>2, <2>3, <2>4 DEF Board!Next, Board!Forget, Volatile
<1>6. ASSUME Salvage PROVE Board!Next
    <2>1. PICK S \in SUBSET PendingIn(Stored) :
              db' = [r \in Recs |-> IF r \in S THEN "turn_ended" ELSE db[r]]
        BY <1>6 DEF Salvage
    <2>2. UNCHANGED memory /\ \A r \in Recs : memory[r] = "absent"
        BY <1>6 DEF Salvage, Inv, HandlersAreRight
    <2>3. Stored' = [r \in Recs |-> IF r \in S THEN "turn_ended" ELSE Stored[r]]
        BY <2>1, <2>2 DEF Stored, View
    <2>4. S \in SUBSET Recs /\ \A r \in S : Stored[r] = "pending"
        BY <2>1 DEF PendingIn
    <2>5. Board!Decide(S, "turn_ended")
        BY <2>2, <2>3, <2>4 DEF Board!Decide
    <2> QED BY <2>4, <2>5 DEF Board!Next, Settled, Lapsed
<1> QED BY <1>1, <1>2, <1>3, <1>4, <1>5, <1>6, Writers

\* The store keeps what DecisionBoard promises, whatever the registry, its
\* callers, failed database calls and restarts do.
THEOREM StoreRefines == Spec => StoreKeepsPromise
<1>1. Init => Board!Init
    BY DEF Init, Board!Init, Stored, View
<1>2. Init => MemoryShadows
    BY DEF Init, MemoryShadows
<1> QED BY <1>1, <1>2, ShadowStep, BoardStep, Invariance, PTL DEF Spec, StoreKeepsPromise, Board!Spec
-----------------------------------------------------------------------------
(* What holds between turns that do not overlap *)

\* A turn that is neither to come nor over, and a lapse in flight.
Current(t) == pc[t] \notin {"new", "over"}
Lapses(j) == lapsing[j].pc # "off"

\* The waiter is one of a turn that waits on its last batch.
WaiterWaits ==
    waiter # NoWaiter => pc[waiter.turn] = "waiting" /\ waiter.pass = batch[waiter.turn].pass

\* A turn's own lapse is what it is at; its abort listener's, of a stopped turn
\* that opens no more. Nothing is left of a lapse that is over.
LapsesAreDue ==
    /\ \A t \in Turns : Lapses(<<t, "own">>) <=> pc[t] \in {"retiring", "opening", "ending"}
    /\ \A t \in Turns : Lapses(<<t, "abort">>) =>
          stopped[t] /\ pc[t] \in {"waiting", "running", "ending", "over"}
    /\ \A j \in Jobs : ~Lapses(j) => lapsing[j].took = {}

\* A server that is down runs nothing, and one that is up has buried its dead.
DownIsQuiet ==
    /\ up => \A t \in Turns : pc[t] # "dead"
    /\ ~up => /\ waiter = NoWaiter /\ \A j \in Jobs : ~Lapses(j)
              /\ \A t \in Turns : pc[t] \in {"new", "over", "dead"}

\* Without overlap, one turn at a time is neither to come nor over, and only its
\* own lapses are in flight.
Alone == ~Overlap =>
    /\ \A t, u \in Turns : Current(t) /\ Current(u) => t = u
    /\ \A t, u \in Turns : Current(t) /\ Lapses(<<u, "abort">>) => t = u
    /\ \A t \in Turns : pc[t] = "waiting" => waiter # NoWaiter /\ waiter.turn = t
    /\ \A t \in Turns : Lapses(<<t, "abort">>) /\ waiter # NoWaiter =>
          lapsing[<<t, "abort">>].seen = waiter.pass

TurnsInv == WaiterWaits /\ LapsesAreDue /\ DownIsQuiet /\ Alone

\* A POST carries a decision only between its two steps.
CarriesOne == \A q \in Posts : post[q].pc # "deliver" => post[q].cur = NoRec

\* What an opener read as undecided is pending, or was missed.
OpenersHear ==
    \A t \in Turns : pc[t] \in {"inserting", "parking"} => \A c \in Calls :
        batch[t].asked[c] = "undecided" =>
            Stored[<<batch[t].pass, c>>] = "pending" \/ <<batch[t].pass, c>> \in missed

\* So is what the waiter waits for, or its decision is on its way.
WaiterHears ==
    ~Overlap \/ faults = 0 => (waiter # NoWaiter => \A c \in Calls :
        waiter.got[c] = "undecided" =>
            \/ Stored[<<waiter.pass, c>>] = "pending"
            \/ OnItsWay(<<waiter.pass, c>>) \/ <<waiter.pass, c>> \in missed)

HearInv == CarriesOne /\ OpenersHear /\ WaiterHears

\* Before any crash, a lapsed decision is one of a stopped turn.
LapsesOwn == ~Overlap /\ crashes = 0 =>
    /\ up /\ \A t \in Turns : pc[t] # "resuming" /\ \A c \in Calls : batch[t].asked[c] \notin Lapsed
    /\ waiter # NoWaiter => \A c \in Calls : waiter.got[c] \in Lapsed => stopped[waiter.turn]
    /\ LapsesOwnCards

\* A verdict that reached its turn stays reached.
Kept == ~Overlap => DeliveredIsKept

\* What is pending, and the records of a turn's last batch.
Pend == PendingIn(Stored)
Of(t) == {r \in Recs : r[1] = batch[t].pass}

\* Without overlap or failures, what is pending is of the current turn's last
\* batch, unless that one is not inserted yet and what was pending lapses first.
OneBatch == ~Overlap /\ faults = 0 =>
    /\ \A r \in Recs : memory[r] = "absent"
    /\ \A t \in Turns : Current(t) =>
          /\ \/ Pend \subseteq Of(t)
             \/ /\ pc[t] \in {"opening", "retiring", "resuming", "dead"}
                /\ \A r \in Of(t) : Stored[r] = "absent"
          /\ lapsing[<<t, "own">>].pc = "settle" => Pend \subseteq lapsing[<<t, "own">>].todo
    /\ (\A t \in Turns : ~Current(t)) => Pend = {}
    /\ \A r, s \in Pend : r[1] = s[1]
-----------------------------------------------------------------------------
(* TurnsInv, step by step *)

\* A waiter is a record, and NoWaiter is not one of them.
LEMMA ARecord == ASSUME NEW w \in WaiterType PROVE w # NoWaiter
<1>1. "pass" \in DOMAIN w
    BY DEF WaiterType
<1>2. "pass" \notin DOMAIN NoWaiter
    BY DEF NoWaiter
<1> QED BY <1>1, <1>2

\* What deliver() does to the waiter, its turn and the history.
LEMMA Delivers ==
    ASSUME TypeOK, NEW S \in SUBSET Recs, NEW outcome \in Settled,
           NEW next \in [Turns -> PCs], Deliver(S, outcome, next)
    PROVE  \/ Takes(S) = {} /\ UNCHANGED <<waiter, acted>> /\ pc' = next
           \/ /\ waiter \in WaiterType /\ waiter' \in WaiterType
              /\ waiter'.turn = waiter.turn /\ waiter'.pass = waiter.pass
              /\ \A c \in Calls : waiter'.got[c] = IF <<waiter.pass, c>> \in Takes(S) THEN outcome ELSE waiter.got[c]
              /\ pc' = next /\ UNCHANGED acted
           \/ /\ waiter \in WaiterType /\ waiter' = NoWaiter
              /\ pc' = [next EXCEPT ![waiter.turn] = "running"]
              /\ acted \subseteq acted'
              /\ \A c \in Calls : \/ waiter.got[c] = "out"
                                  \/ [turn |-> waiter.turn, rec |-> <<waiter.pass, c>>,
                                      as |-> IF <<waiter.pass, c>> \in Takes(S) THEN outcome
                                             ELSE waiter.got[c]] \in acted'
              /\ \A a \in acted' \ acted : /\ a.turn = waiter.turn
                                           /\ a.as = outcome \/ \E c \in Calls : a.as = waiter.got[c]
<1> DEFINE got == [c \in Calls |-> IF <<waiter.pass, c>> \in Takes(S) THEN outcome ELSE waiter.got[c]]
<1>1. CASE Takes(S) = {}
    BY <1>1 DEF Deliver
<1>2. CASE Takes(S) # {} /\ UndecidedIn(got) = {}
    <2>1. waiter \in WaiterType
        BY <1>2 DEF Takes, TypeOK
    <2>2. /\ acted' = acted \cup {[turn |-> waiter.turn, rec |-> <<waiter.pass, c>>, as |-> got[c]] :
                                     c \in {d \in Calls : got[d] # "out"}}
          /\ waiter' = NoWaiter /\ pc' = [next EXCEPT ![waiter.turn] = "running"]
        BY <1>2 DEF Deliver, ActOn
    <2>3. \A c \in Calls : waiter.got[c] # "out" => got[c] # "out"
        BY DEF Settled, UserVerdict, Lapsed
    <2>4. \A c \in Calls : got[c] = IF <<waiter.pass, c>> \in Takes(S) THEN outcome ELSE waiter.got[c]
        OBVIOUS
    <2> HIDE DEF got
    <2>5. \A c \in Calls : waiter.got[c] = "out" \/
              [turn |-> waiter.turn, rec |-> <<waiter.pass, c>>, as |-> got[c]] \in acted'
        BY <2>2, <2>3
    <2>6. \A a \in acted' \ acted : /\ a.turn = waiter.turn
                                    /\ a.as = outcome \/ \E c \in Calls : a.as = waiter.got[c]
        BY <2>2, <2>4
    <2> QED BY <2>1, <2>2, <2>4, <2>5, <2>6
<1>3. CASE Takes(S) # {} /\ UndecidedIn(got) # {}
    <2>1. waiter \in WaiterType
        BY <1>3 DEF Takes, TypeOK
    <2>2. got \in [Calls -> Known \ {"missing"}]
        BY <2>1 DEF WaiterType, Known, Settled, UserVerdict, Lapsed
    <2>3. waiter' = [waiter EXCEPT !.got = got] /\ pc' = next /\ UNCHANGED acted
        BY <1>3 DEF Deliver
    <2>4. \A c \in Calls : got[c] = IF <<waiter.pass, c>> \in Takes(S) THEN outcome ELSE waiter.got[c]
        OBVIOUS
    <2> HIDE DEF got
    <2>5. waiter' \in WaiterType /\ waiter'.turn = waiter.turn /\ waiter'.pass = waiter.pass /\ waiter'.got = got
        BY <2>1, <2>2, <2>3 DEF WaiterType
    <2> QED BY <2>1, <2>3, <2>4, <2>5
<1> QED BY <1>1, <1>2, <1>3
\* A turn that waits for its own lapse.
AtOwn(t) == pc[t] \in {"retiring", "opening", "ending"}

\* Every lapse is a turn's own or its abort listener's.
LEMMA JobPairs ==
    /\ \A t \in Turns : <<t, "own">> \in Jobs /\ <<t, "abort">> \in Jobs
    /\ \A j \in Jobs : j[1] \in Turns /\ (j = <<j[1], "own">> \/ j = <<j[1], "abort">>)
BY DEF Jobs

\* The parts of TurnsInv, and the types the steps need.
LEMMA TParts ==
    ASSUME Inv, TurnsInv
    PROVE  /\ TypeOK /\ WaiterWaits /\ LapsesAreDue /\ DownIsQuiet /\ Alone
           /\ pc \in [Turns -> PCs] /\ lapsing \in [Jobs -> LapseType] /\ stopped \in [Turns -> BOOLEAN]
           /\ batch \in [Turns -> [pass : 0..MaxPass, asked : [Calls -> Known]]]
           /\ waiter # NoWaiter => waiter \in WaiterType /\ waiter.turn \in Turns
BY DEF Inv, TurnsInv, TypeOK, PCs, WaiterType

\* A lapse goes on, or nothing of the turns moves.
LEMMA TStill ==
    ASSUME TurnsInv, UNCHANGED <<waiter, pc, batch, stopped, up>>,
           \A j \in Jobs : /\ Lapses(j)' <=> Lapses(j)
                           /\ lapsing'[j].seen = lapsing[j].seen
                           /\ ~Lapses(j) => lapsing'[j].took = lapsing[j].took
    PROVE  TurnsInv'
<1>1. WaiterWaits'
    BY DEF TurnsInv, WaiterWaits
<1>2. LapsesAreDue'
    BY JobPairs DEF TurnsInv, LapsesAreDue
<1>3. DownIsQuiet'
    BY DEF TurnsInv, DownIsQuiet
<1>4. Alone'
    BY JobPairs DEF TurnsInv, Alone, Current
<1> QED BY <1>1, <1>2, <1>3, <1>4 DEF TurnsInv

\* A delivery ends the wait of the waiter's turn, or a lapse that a turn was at.
LEMMA TDelivers ==
    ASSUME Inv, TurnsInv, up, UNCHANGED <<batch, stopped, up>>,
           \/ waiter' = waiter
           \/ waiter' \in WaiterType /\ waiter \in WaiterType /\ waiter'.turn = waiter.turn
                  /\ waiter'.pass = waiter.pass
           \/ waiter' = NoWaiter /\ waiter \in WaiterType /\ pc'[waiter.turn] = "running",
           \A t \in Turns :
              \/ pc'[t] = pc[t]
              \/ waiter' = NoWaiter /\ waiter # NoWaiter /\ t = waiter.turn /\ pc'[t] = "running"
              \/ /\ AtOwn(t) /\ pc'[t] \in {"running", "inserting", "over"} /\ ~Lapses(<<t, "own">>)'
                 /\ pc[t] = "ending" => pc'[t] = "over",
           \A j \in Jobs : \/ lapsing'[j] = lapsing[j]
                           \/ lapsing'[j] = NoLapse /\ (j[2] = "own" => ~AtOwn(j[1])')
    PROVE  TurnsInv'
<1>0. WaiterWaits /\ LapsesAreDue /\ DownIsQuiet /\ Alone
    BY TParts
<1>1. \A j \in Jobs : lapsing'[j] = lapsing[j] \/ (~Lapses(j)' /\ lapsing'[j].took = {})
    BY DEF NoLapse, Lapses
<1>2. \A t \in Turns : pc[t] = "waiting" /\ pc'[t] # "waiting" => waiter' = NoWaiter
    BY DEF AtOwn
<1>3. WaiterWaits'
    <2>1. SUFFICES ASSUME waiter' # NoWaiter
                   PROVE  pc'[waiter'.turn] = "waiting" /\ waiter'.pass = batch[waiter'.turn].pass
        BY DEF WaiterWaits
    <2>2. waiter # NoWaiter /\ waiter'.turn = waiter.turn /\ waiter'.pass = waiter.pass /\ waiter.turn \in Turns
        BY <2>1, ARecord, TParts DEF WaiterType
    <2> QED BY <1>0, <1>2, <2>1, <2>2 DEF WaiterWaits
<1>4. LapsesAreDue'
    <2>1. ASSUME NEW t \in Turns PROVE Lapses(<<t, "own">>)' <=> AtOwn(t)'
        <3>1. Lapses(<<t, "own">>) <=> AtOwn(t)
            BY <1>0 DEF LapsesAreDue, AtOwn
        <3>2. <<t, "own">> \in Jobs /\ <<t, "own">>[1] = t /\ <<t, "own">>[2] = "own"
            BY JobPairs
        <3>3. CASE pc'[t] = pc[t]
            BY <1>1, <3>1, <3>2, <3>3 DEF AtOwn, Lapses, NoLapse
        <3>4. CASE pc'[t] # pc[t] /\ waiter # NoWaiter /\ t = waiter.turn /\ pc'[t] = "running"
            BY <1>0, <1>1, <3>1, <3>2, <3>4 DEF AtOwn, Lapses, WaiterWaits
        <3>5. CASE AtOwn(t) /\ pc'[t] \in {"running", "inserting", "over"} /\ ~Lapses(<<t, "own">>)'
            BY <3>5 DEF AtOwn
        <3> QED BY <3>3, <3>4, <3>5
    <2>2. ASSUME NEW t \in Turns, Lapses(<<t, "abort">>)'
          PROVE  stopped[t] /\ pc'[t] \in {"waiting", "running", "ending", "over"}
        <3>1. <<t, "abort">> \in Jobs
            BY JobPairs
        <3>2. Lapses(<<t, "abort">>)
            BY <1>1, <2>2, <3>1 DEF Lapses
        <3> QED BY <1>0, <3>2 DEF LapsesAreDue, AtOwn
    <2>3. \A j \in Jobs : ~Lapses(j)' => lapsing'[j].took = {}
        BY <1>0, <1>1 DEF LapsesAreDue, Lapses
    <2> QED BY <2>1, <2>2, <2>3 DEF LapsesAreDue, AtOwn
<1>5. DownIsQuiet'
    BY <1>0 DEF DownIsQuiet
<1>6. Alone'
    <2>1. SUFFICES ASSUME ~Overlap
                   PROVE  /\ \A t, u \in Turns : Current(t)' /\ Current(u)' => t = u
                          /\ \A t, u \in Turns : Current(t)' /\ Lapses(<<u, "abort">>)' => t = u
                          /\ \A t \in Turns : pc'[t] = "waiting" => waiter' # NoWaiter /\ waiter'.turn = t
                          /\ \A t \in Turns : Lapses(<<t, "abort">>)' /\ waiter' # NoWaiter =>
                                lapsing'[<<t, "abort">>].seen = waiter'.pass
        BY DEF Alone
    <2>2. \A t \in Turns : Current(t)' => Current(t)
        BY <1>0 DEF Current, AtOwn, WaiterWaits
    <2>3. \A t \in Turns : Lapses(<<t, "abort">>)' => 
              Lapses(<<t, "abort">>) /\ lapsing'[<<t, "abort">>] = lapsing[<<t, "abort">>]
        BY <1>1, JobPairs DEF Lapses
    <2>4. \A t \in Turns : pc'[t] = "waiting" => waiter' # NoWaiter /\ waiter'.turn = t
        <3> SUFFICES ASSUME NEW t \in Turns, pc'[t] = "waiting" PROVE waiter' # NoWaiter /\ waiter'.turn = t
            OBVIOUS
        <3>1. pc[t] = "waiting"
            OBVIOUS
        <3>2. waiter # NoWaiter /\ waiter.turn = t
            BY <1>0, <2>1, <3>1 DEF Alone
        <3> QED BY <3>2, ARecord
    <2>5. waiter' # NoWaiter => waiter # NoWaiter /\ waiter'.pass = waiter.pass
        BY ARecord
    <2> QED BY <1>0, <2>1, <2>2, <2>3, <2>4, <2>5 DEF Alone
<1> QED BY <1>3, <1>4, <1>5, <1>6 DEF TurnsInv

\* A lapse that reads or settles moves no turn.
LEMMA TLapseGoes ==
    ASSUME Inv, TurnsInv, NEW j \in Jobs, LapseFind(j) \/ LapseSettle(j)
    PROVE  TurnsInv'
<1>1. lapsing \in [Jobs -> LapseType] /\ Lapses(j) /\ UNCHANGED <<waiter, pc, batch, stopped, up>>
    BY TParts DEF LapseFind, LapseSettle, Lapses, bounds
<1>2. \A k \in Jobs : /\ Lapses(k)' <=> Lapses(k)
                      /\ lapsing'[k].seen = lapsing[k].seen
                      /\ ~Lapses(k) => lapsing'[k].took = lapsing[k].took
    <2>1. CASE LapseFind(j)
        <3>1. PICK ok \in BOOLEAN : lapsing' = [lapsing EXCEPT ![j].pc = "settle", ![j].todo = Finds(j, ok)]
            BY <2>1 DEF LapseFind
        <3> QED BY <1>1, <3>1 DEF Lapses, LapseType
    <2>2. CASE LapseSettle(j)
        <3>1. PICK r \in lapsing[j].todo :
                  \/ lapsing' = [lapsing EXCEPT ![j].todo = @ \ {r}, ![j].took = @ \cup {r}]
                  \/ lapsing' = [lapsing EXCEPT ![j].todo = @ \ {r}]
                  \/ lapsing' = [lapsing EXCEPT ![j].todo = {}, ![j].took = {}]
            BY <2>2 DEF LapseSettle
        <3> QED BY <1>1, <3>1 DEF Lapses, LapseType
    <2> QED BY <2>1, <2>2
<1> QED BY <1>1, <1>2, TStill

\* Nor does a POST that reads or settles.
LEMMA TPostGoes ==
    ASSUME TurnsInv, NEW q \in Posts, DecideFind(q) \/ DecideSettle(q)
    PROVE  TurnsInv'
<1>1. UNCHANGED <<waiter, pc, batch, stopped, up, lapsing>>
    BY DEF DecideFind, DecideSettle, bounds
<1> QED BY <1>1, TStill DEF Lapses

\* A lapse that returns: its turn goes on, or the waiter's does.
LEMMA TLapseDeliver ==
    ASSUME Inv, TurnsInv, NEW j \in Jobs, up, LapseDeliver(j)
    PROVE  TurnsInv'
<1> DEFINE next == IF j[2] = "own" THEN [pc EXCEPT ![j[1]] = After(j[1])] ELSE pc
           S == lapsing[j].took \cup Forces(j)
<1>0. /\ TypeOK /\ WaiterWaits /\ LapsesAreDue /\ DownIsQuiet /\ Alone
      /\ pc \in [Turns -> PCs] /\ lapsing \in [Jobs -> LapseType]
      /\ waiter # NoWaiter => waiter \in WaiterType /\ waiter.turn \in Turns
    BY TParts
<1>1. /\ Lapses(j) /\ Deliver(S, lapsing[j].source, next) /\ lapsing' = [lapsing EXCEPT ![j] = NoLapse]
      /\ UNCHANGED <<batch, stopped, up>> /\ lapsing[j] \in LapseType /\ j[1] \in Turns
    BY <1>0, JobPairs DEF LapseDeliver, Lapses, bounds
<1>2. j[2] = "own" => AtOwn(j[1]) /\ After(j[1]) \in {"running", "inserting", "over"}
                      /\ (pc[j[1]] = "ending" => After(j[1]) = "over")
    BY <1>0, <1>1, JobPairs DEF LapsesAreDue, AtOwn, After
<1>3. next \in [Turns -> PCs]
    BY <1>0, <1>1, <1>2 DEF PCs
<1>4. \A t \in Turns : next[t] = IF j[2] = "own" /\ t = j[1] THEN After(j[1]) ELSE pc[t]
    BY <1>0
<1>5. S \in SUBSET Recs /\ lapsing[j].source \in Settled
    BY <1>1 DEF Forces, LapseType, Settled
<1> HIDE DEF next, S
<1>6. /\ \/ waiter' = waiter
         \/ waiter' \in WaiterType /\ waiter \in WaiterType /\ waiter'.turn = waiter.turn
                /\ waiter'.pass = waiter.pass
         \/ waiter' = NoWaiter /\ waiter \in WaiterType
      /\ \/ pc' = next
         \/ waiter' = NoWaiter /\ waiter \in WaiterType /\ pc' = [next EXCEPT ![waiter.turn] = "running"]
      /\ waiter \in WaiterType /\ waiter' = NoWaiter => pc'[waiter.turn] = "running"
    BY <1>0, <1>1, <1>3, <1>5, Delivers, ARecord
<1>7. \A t \in Turns : waiter # NoWaiter /\ waiter.turn = t => pc[t] = "waiting" /\ ~AtOwn(t)
    BY <1>0 DEF WaiterWaits, AtOwn
<1>8. \A t \in Turns :
              \/ pc'[t] = pc[t]
              \/ waiter' = NoWaiter /\ waiter # NoWaiter /\ t = waiter.turn /\ pc'[t] = "running"
              \/ /\ AtOwn(t) /\ pc'[t] \in {"running", "inserting", "over"} /\ j[2] = "own" /\ j[1] = t
                 /\ pc[t] = "ending" => pc'[t] = "over"
    <2>1. ASSUME NEW t \in Turns, j[2] = "own", t = j[1]
          PROVE  /\ AtOwn(t) /\ pc'[t] \in {"running", "inserting", "over"}
                 /\ pc[t] = "ending" => pc'[t] = "over"
        BY <1>2, <1>3, <1>4, <1>6, <1>7, <2>1, ARecord
    <2>2. ASSUME NEW t \in Turns, ~(j[2] = "own" /\ t = j[1])
          PROVE  \/ pc'[t] = pc[t]
                 \/ waiter' = NoWaiter /\ waiter # NoWaiter /\ t = waiter.turn /\ pc'[t] = "running"
        BY <1>0, <1>3, <1>4, <1>6, <2>2, ARecord
    <2> QED BY <2>1, <2>2
<1>9. \A k \in Jobs : lapsing'[k] = IF k = j THEN NoLapse ELSE lapsing[k]
    BY <1>0, <1>1
<1>10. \A t \in Turns : j[2] = "own" /\ j[1] = t => j = <<t, "own">> /\ ~Lapses(<<t, "own">>)'
    BY <1>9, JobPairs DEF Lapses, NoLapse
<1>11. j[2] = "own" => ~AtOwn(j[1])'
    <2>1. ASSUME j[2] = "own" PROVE pc'[j[1]] \in {"running", "inserting", "over"}
        BY <1>1, <1>2, <1>3, <1>4, <1>6, <1>7, <2>1, ARecord
    <2> QED BY <2>1 DEF AtOwn
<1>12. \A t \in Turns :
              \/ pc'[t] = pc[t]
              \/ waiter' = NoWaiter /\ waiter # NoWaiter /\ t = waiter.turn /\ pc'[t] = "running"
              \/ /\ AtOwn(t) /\ pc'[t] \in {"running", "inserting", "over"} /\ ~Lapses(<<t, "own">>)'
                 /\ pc[t] = "ending" => pc'[t] = "over"
    BY <1>8, <1>10
<1> QED BY <1>1, <1>6, <1>9, <1>11, <1>12, TDelivers

\* A POST that delivers: only the waiter's turn may go on.
LEMMA TDecideDeliver ==
    ASSUME Inv, TurnsInv, NEW q \in Posts, up, DecideDeliver(q)
    PROVE  TurnsInv'
<1>0. TypeOK /\ pc \in [Turns -> PCs] /\ (waiter # NoWaiter => waiter \in WaiterType /\ waiter.turn \in Turns)
    BY TParts
<1>1. /\ Deliver(HandsOver(q), post[q].verdict, pc) /\ UNCHANGED <<batch, stopped, up, lapsing>>
      /\ post[q].verdict \in Settled /\ post[q].cur \in Recs
    BY <1>0 DEF DecideDeliver, bounds, TypeOK, PostType, Settled, UserVerdict, Inv, HandlersAreRight
<1>2. HandsOver(q) \in SUBSET Recs
    BY <1>1 DEF HandsOver
<1>3. /\ \/ waiter' = waiter
         \/ waiter' \in WaiterType /\ waiter \in WaiterType /\ waiter'.turn = waiter.turn
                /\ waiter'.pass = waiter.pass
         \/ waiter' = NoWaiter /\ waiter \in WaiterType
      /\ \/ pc' = pc
         \/ waiter' = NoWaiter /\ waiter \in WaiterType /\ pc' = [pc EXCEPT ![waiter.turn] = "running"]
      /\ waiter \in WaiterType /\ waiter' = NoWaiter => pc'[waiter.turn] = "running"
    BY <1>0, <1>1, <1>2, Delivers, ARecord
<1>4. \A t \in Turns :
              \/ pc'[t] = pc[t]
              \/ waiter' = NoWaiter /\ waiter # NoWaiter /\ t = waiter.turn /\ pc'[t] = "running"
    BY <1>0, <1>3, ARecord
<1> QED BY <1>1, <1>3, <1>4, TDelivers

\* A turn that is not waiting goes on to p, and may begin or end a lapse of its own.
LEMMA TMoves ==
    ASSUME Inv, TurnsInv, up, NEW t \in Turns, NEW p \in PCs \ {"waiting", "dead"},
           UNCHANGED <<waiter, stopped, up>>, pc[t] # "waiting",
           pc' = [pc EXCEPT ![t] = p],
           \A u \in Turns \ {t} : batch'[u] = batch[u],
           \A j \in Jobs : j # <<t, "own">> => lapsing'[j] = lapsing[j],
           Lapses(<<t, "own">>)' <=> p \in {"retiring", "opening", "ending"},
           ~Lapses(<<t, "own">>)' => lapsing'[<<t, "own">>].took = {},
           Lapses(<<t, "abort">>) => p \in {"running", "ending", "over"},
           ~Overlap => Current(t) \/ \A u \in Turns \ {t} : ~Current(u) /\ ~Lapses(<<u, "abort">>)
    PROVE  TurnsInv'
<1>0. /\ WaiterWaits /\ LapsesAreDue /\ DownIsQuiet /\ Alone /\ pc \in [Turns -> PCs]
      /\ waiter # NoWaiter => waiter.turn \in Turns
    BY TParts
<1>1. \A u \in Turns : pc'[u] = IF u = t THEN p ELSE pc[u]
    BY <1>0
<1>2. \A u \in Turns : <<u, "abort">> \in Jobs /\ <<u, "own">> \in Jobs /\ <<u, "abort">> # <<t, "own">>
                       /\ (u # t => <<u, "own">> # <<t, "own">>)
    BY JobPairs
<1>3. \A u \in Turns : (Lapses(<<u, "abort">>)' <=> Lapses(<<u, "abort">>))
                       /\ lapsing'[<<u, "abort">>] = lapsing[<<u, "abort">>]
                       /\ (u # t => (Lapses(<<u, "own">>)' <=> Lapses(<<u, "own">>)))
    BY <1>2 DEF Lapses
<1>4. WaiterWaits'
    BY <1>0, <1>1 DEF WaiterWaits
<1>5. LapsesAreDue'
    <2>1. \A u \in Turns : Lapses(<<u, "own">>)' <=> pc'[u] \in {"retiring", "opening", "ending"}
        BY <1>0, <1>1, <1>3 DEF LapsesAreDue
    <2>2. \A u \in Turns : Lapses(<<u, "abort">>)' =>
              stopped[u] /\ pc'[u] \in {"waiting", "running", "ending", "over"}
        BY <1>0, <1>1, <1>3 DEF LapsesAreDue
    <2>3. \A j \in Jobs : ~Lapses(j)' => lapsing'[j].took = {}
        BY <1>0 DEF LapsesAreDue, Lapses
    <2> QED BY <2>1, <2>2, <2>3 DEF LapsesAreDue
<1>6. DownIsQuiet'
    BY <1>0, <1>1 DEF DownIsQuiet
<1>7. Alone'
    <2>1. SUFFICES ASSUME ~Overlap
                   PROVE  /\ \A v, u \in Turns : Current(v)' /\ Current(u)' => v = u
                          /\ \A v, u \in Turns : Current(v)' /\ Lapses(<<u, "abort">>)' => v = u
                          /\ \A v \in Turns : pc'[v] = "waiting" => waiter' # NoWaiter /\ waiter'.turn = v
                          /\ \A v \in Turns : Lapses(<<v, "abort">>)' /\ waiter' # NoWaiter =>
                                lapsing'[<<v, "abort">>].seen = waiter'.pass
        BY DEF Alone
    <2>2. \A u \in Turns : u # t => (Current(u)' <=> Current(u))
        BY <1>1 DEF Current
    <2>3. \A v, u \in Turns : Current(v)' /\ Current(u)' => v = u
        BY <1>0, <2>1, <2>2 DEF Alone
    <2>4. \A v, u \in Turns : Current(v)' /\ Lapses(<<u, "abort">>)' => v = u
        BY <1>0, <1>3, <2>1, <2>2 DEF Alone
    <2>5. \A v \in Turns : pc'[v] = "waiting" => waiter' # NoWaiter /\ waiter'.turn = v
        BY <1>0, <1>1, <2>1 DEF Alone
    <2> QED BY <1>0, <1>3, <2>1, <2>3, <2>4, <2>5 DEF Alone
<1> QED BY <1>4, <1>5, <1>6, <1>7 DEF TurnsInv

\* What is known of a lapse that has just begun.
LEMMA Started ==
    ASSUME TypeOK, NEW j \in Jobs, NEW source, StartLapse(j, source)
    PROVE  /\ \A k \in Jobs : k # j => lapsing'[k] = lapsing[k]
           /\ lapsing'[j].pc = "find" /\ lapsing'[j].took = {} /\ lapsing'[j].source = source
           /\ lapsing'[j].seen = IF waiter = NoWaiter THEN 0 ELSE waiter.pass
BY DEF StartLapse, NoLapse, TypeOK

\* A turn that is admitted finds no other, unless turns may overlap.
LEMMA TStartTurn ==
    ASSUME Inv, TurnsInv, NEW t \in Turns, StartTurn(t)
    PROVE  TurnsInv'
<1>0. /\ WaiterWaits /\ LapsesAreDue /\ DownIsQuiet /\ Alone /\ pc \in [Turns -> PCs] /\ TypeOK
      /\ waiter # NoWaiter => waiter.turn \in Turns
    BY TParts
<1>1. /\ up /\ pc[t] = "new" /\ Admitted(t) /\ UNCHANGED <<waiter, stopped, up, batch>>
      /\ <<t, "own">> \in Jobs
    BY JobPairs DEF StartTurn, bounds
<1>2. ~Lapses(<<t, "abort">>) /\ ~Lapses(<<t, "own">>)
    BY <1>0, <1>1 DEF LapsesAreDue
<1>3. ASSUME ~Overlap, NEW u \in Turns \ {t} PROVE ~Current(u) /\ ~Lapses(<<u, "abort">>)
    BY <1>0, <1>1, <1>3 DEF Admitted, Current, Lapses, LapsesAreDue
<1>4. CASE waiter # NoWaiter
    <2>1. pc' = [pc EXCEPT ![t] = "running"] /\ lapsing' = lapsing
        BY <1>4 DEF StartTurn
    <2>2. ~Lapses(<<t, "own">>)' /\ lapsing'[<<t, "own">>].took = {}
        BY <1>0, <1>1, <1>2, <2>1 DEF Lapses, LapsesAreDue
    <2> QED BY <1>1, <1>2, <1>3, <2>1, <2>2, TMoves DEF PCs
<1>5. CASE waiter = NoWaiter
    <2>1. pc' = [pc EXCEPT ![t] = "retiring"] /\ StartLapse(<<t, "own">>, "superseded")
        BY <1>5 DEF StartTurn
    <2>2. /\ \A k \in Jobs : k # <<t, "own">> => lapsing'[k] = lapsing[k]
          /\ Lapses(<<t, "own">>)'
        BY <1>0, <1>1, <2>1, Started DEF Lapses
    <2> QED BY <1>1, <1>2, <1>3, <2>1, <2>2, TMoves DEF PCs
<1> QED BY <1>4, <1>5

\* Opening a batch, or ending: the turn begins a lapse of its own.
LEMMA TStarts ==
    ASSUME Inv, TurnsInv, up, NEW t \in Turns, NEW p \in {"opening", "ending"}, NEW source \in Lapsed,
           pc[t] \in {"running", "resuming"}, p = "opening" /\ pc[t] = "running" => ~stopped[t],
           pc' = [pc EXCEPT ![t] = p], StartLapse(<<t, "own">>, source),
           waiter' = waiter, stopped' = stopped, up' = up,
           \A u \in Turns \ {t} : batch'[u] = batch[u]
    PROVE  TurnsInv'
<1>0. LapsesAreDue /\ TypeOK /\ <<t, "own">> \in Jobs /\ Current(t)
    BY TParts, JobPairs DEF Current
<1>1. Lapses(<<t, "abort">>) => p = "ending"
    BY <1>0 DEF LapsesAreDue
<1>2. /\ \A k \in Jobs : k # <<t, "own">> => lapsing'[k] = lapsing[k]
      /\ Lapses(<<t, "own">>)'
    BY <1>0, Started DEF Lapses
<1> QED BY <1>0, <1>1, <1>2, TMoves DEF PCs

\* A step within an opening that leaves the lapses alone.
LEMMA TGoesOn ==
    ASSUME Inv, TurnsInv, up, NEW t \in Turns, NEW p \in {"inserting", "parking", "running"},
           pc[t] \in {"resuming", "inserting", "parking"},
           pc' = [pc EXCEPT ![t] = p], UNCHANGED <<waiter, stopped, up, lapsing>>,
           \A u \in Turns \ {t} : batch'[u] = batch[u]
    PROVE  TurnsInv'
<1>0. LapsesAreDue /\ TypeOK /\ <<t, "own">> \in Jobs /\ Current(t)
    BY TParts, JobPairs DEF Current
<1>1. ~Lapses(<<t, "abort">>) /\ ~Lapses(<<t, "own">>)' /\ lapsing'[<<t, "own">>].took = {}
    BY <1>0 DEF LapsesAreDue, Lapses
<1> QED BY <1>0, <1>1, TMoves DEF PCs

\* The steps of a turn from its running to its parking.
LEMMA TOpens ==
    ASSUME Inv, TurnsInv, up, NEW t \in Turns,
           Open(t) \/ EndTurn(t) \/ ResumeFind(t) \/ InsertMissing(t)
    PROVE  TurnsInv'
<1>0. TypeOK
    BY TParts
<1>1. CASE Open(t)
    <2>1. /\ pc[t] = "running" /\ ~stopped[t] /\ pc' = [pc EXCEPT ![t] = "opening"]
          /\ StartLapse(<<t, "own">>, "superseded") /\ waiter' = waiter /\ stopped' = stopped /\ up' = up
        BY <1>1 DEF Open
    <2>2. \A u \in Turns \ {t} : batch'[u] = batch[u]
        BY <1>0, <1>1 DEF Open, TypeOK
    <2> QED BY <1>0, <2>1, <2>2, TStarts DEF Lapsed
<1>2. CASE EndTurn(t)
    <2>1. /\ pc[t] = "running" /\ pc' = [pc EXCEPT ![t] = "ending"] /\ batch' = batch
          /\ StartLapse(<<t, "own">>, "turn_ended") /\ waiter' = waiter /\ stopped' = stopped /\ up' = up
        BY <1>2 DEF EndTurn, bounds
    <2> QED BY <1>0, <2>1, TStarts DEF Lapsed
<1>3. CASE ResumeFind(t)
    <2>1. PICK ok \in BOOLEAN :
              \/ /\ batch' = [batch EXCEPT ![t].asked = Reread(t, View(ok))]
                 /\ pc' = [pc EXCEPT ![t] = "inserting"]
                 /\ UNCHANGED lapsing
              \/ /\ batch' = [batch EXCEPT ![t].pass = passes + 1]
                 /\ pc' = [pc EXCEPT ![t] = "opening"]
                 /\ StartLapse(<<t, "own">>, "superseded")
        BY <1>3 DEF ResumeFind
    <2>2. pc[t] = "resuming" /\ UNCHANGED <<waiter, stopped, up>>
        BY <1>3 DEF ResumeFind
    <2>3. CASE /\ batch' = [batch EXCEPT ![t].asked = Reread(t, View(ok))]
               /\ pc' = [pc EXCEPT ![t] = "inserting"]
               /\ UNCHANGED lapsing
        <3>1. \A u \in Turns \ {t} : batch'[u] = batch[u]
            BY <1>0, <2>3 DEF TypeOK
        <3> QED BY <2>2, <2>3, <3>1, TGoesOn
    <2>4. CASE /\ batch' = [batch EXCEPT ![t].pass = passes + 1]
               /\ pc' = [pc EXCEPT ![t] = "opening"]
               /\ StartLapse(<<t, "own">>, "superseded")
        <3>1. \A u \in Turns \ {t} : batch'[u] = batch[u]
            BY <1>0, <2>4 DEF TypeOK
        <3> QED BY <1>0, <2>2, <2>4, <3>1, TStarts DEF Lapsed
    <2> QED BY <2>1, <2>3, <2>4
<1>4. CASE InsertMissing(t)
    <2>1. /\ batch' = [batch EXCEPT ![t].asked = AsInserted(@)] /\ pc[t] = "inserting"
          /\ pc' = [pc EXCEPT ![t] = "parking"] /\ UNCHANGED <<waiter, stopped, up, lapsing>>
        BY <1>4 DEF InsertMissing
    <2>2. \A u \in Turns \ {t} : batch'[u] = batch[u]
        BY <1>0, <2>1 DEF TypeOK
    <2> QED BY <2>1, <2>2, TGoesOn
<1> QED BY <1>1, <1>2, <1>3, <1>4

\* A park replaces no waiter of another turn, and cancels at once when stopped.
LEMMA TPark ==
    ASSUME Inv, TurnsInv, up, NEW t \in Turns, Park(t)
    PROVE  TurnsInv'
<1>0. /\ WaiterWaits /\ LapsesAreDue /\ DownIsQuiet /\ Alone /\ pc \in [Turns -> PCs] /\ TypeOK
      /\ lapsing \in [Jobs -> LapseType] /\ batch[t].pass \in Nat
      /\ pc[t] = "parking" /\ UNCHANGED <<batch, stopped, up>>
      /\ waiter # NoWaiter => waiter.turn \in Turns
    BY TParts, ApprovalsAssumption DEF Park, bounds
<1>1. CASE UndecidedIn(batch[t].asked) = {}
    <2>1. pc' = [pc EXCEPT ![t] = "running"] /\ waiter' = waiter /\ lapsing' = lapsing
        BY <1>1 DEF Park
    <2> QED BY <1>0, <2>1, TGoesOn
<1>2. CASE UndecidedIn(batch[t].asked) # {}
    <2>1. /\ waiter' = [turn |-> t, pass |-> batch[t].pass, got |-> batch[t].asked]
          /\ pc' = [pc EXCEPT ![t] = "waiting"]
          /\ IF stopped[t]
             THEN lapsing' = [lapsing EXCEPT ![<<t, "abort">>] =
                      [NoLapse EXCEPT !.pc = "find", !.source = "turn_ended", !.seen = batch[t].pass]]
             ELSE UNCHANGED lapsing
        BY <1>2 DEF Park
    <2>2. waiter'.turn = t /\ waiter'.pass = batch[t].pass
        BY <2>1
    <2>3. waiter' # NoWaiter
        BY <2>1 DEF NoWaiter
    <2>4. \A u \in Turns : pc'[u] = IF u = t THEN "waiting" ELSE pc[u]
        BY <1>0, <2>1
    <2>5. \A k \in Jobs : k # <<t, "abort">> => lapsing'[k] = lapsing[k]
        BY <1>0, <2>1
    <2>6. /\ Lapses(<<t, "abort">>)' <=> stopped[t]
          /\ lapsing'[<<t, "abort">>].took = {}
          /\ stopped[t] => lapsing'[<<t, "abort">>].seen = batch[t].pass
        <3>1. ~Lapses(<<t, "abort">>) /\ <<t, "abort">> \in Jobs
            BY <1>0, JobPairs DEF LapsesAreDue
        <3>2. CASE stopped[t]
            <4>1. lapsing'[<<t, "abort">>] =
                      [NoLapse EXCEPT !.pc = "find", !.source = "turn_ended", !.seen = batch[t].pass]
                BY <1>0, <2>1, <3>1, <3>2
            <4> QED BY <3>2, <4>1 DEF NoLapse, Lapses
        <3>3. CASE ~stopped[t]
            BY <1>0, <2>1, <3>1, <3>3 DEF Lapses, LapsesAreDue
        <3> QED BY <3>2, <3>3
    <2>7. \A u \in Turns : /\ <<u, "own">> \in Jobs /\ <<u, "abort">> \in Jobs /\ <<u, "own">> # <<t, "abort">>
                           /\ u # t => <<u, "abort">> # <<t, "abort">>
        BY JobPairs
    <2>8. \A u \in Turns : /\ Lapses(<<u, "own">>)' <=> Lapses(<<u, "own">>)
                           /\ u # t => (Lapses(<<u, "abort">>)' <=> Lapses(<<u, "abort">>))
                                       /\ lapsing'[<<u, "abort">>] = lapsing[<<u, "abort">>]
        BY <2>5, <2>7 DEF Lapses
    <2>9. WaiterWaits'
        BY <1>0, <2>2, <2>3, <2>4 DEF WaiterWaits
    <2>10. LapsesAreDue'
        <3>1. \A u \in Turns : Lapses(<<u, "own">>)' <=> pc'[u] \in {"retiring", "opening", "ending"}
            BY <1>0, <2>4, <2>8 DEF LapsesAreDue
        <3>2. \A u \in Turns : Lapses(<<u, "abort">>)' =>
                  stopped'[u] /\ pc'[u] \in {"waiting", "running", "ending", "over"}
            BY <1>0, <2>4, <2>6, <2>8 DEF LapsesAreDue
        <3>3. \A j \in Jobs : ~Lapses(j)' => lapsing'[j].took = {}
            BY <1>0, <2>5, <2>6 DEF LapsesAreDue, Lapses
        <3> QED BY <3>1, <3>2, <3>3 DEF LapsesAreDue
    <2>11. DownIsQuiet'
        BY <1>0, <2>4 DEF DownIsQuiet
    <2>12. Alone'
        <3>1. SUFFICES ASSUME ~Overlap
                       PROVE  /\ \A v, u \in Turns : Current(v)' /\ Current(u)' => v = u
                              /\ \A v, u \in Turns : Current(v)' /\ Lapses(<<u, "abort">>)' => v = u
                              /\ \A v \in Turns : pc'[v] = "waiting" => waiter' # NoWaiter /\ waiter'.turn = v
                              /\ \A v \in Turns : Lapses(<<v, "abort">>)' /\ waiter' # NoWaiter =>
                                    lapsing'[<<v, "abort">>].seen = waiter'.pass
            BY DEF Alone
        <3>2. Current(t) /\ \A u \in Turns : Current(u)' <=> Current(u)
            BY <1>0, <2>4 DEF Current
        <3>3. \A u \in Turns : u # t => ~Current(u) /\ ~Lapses(<<u, "abort">>)
            BY <1>0, <3>1, <3>2 DEF Alone
        <3>4. \A v \in Turns : pc'[v] = "waiting" => v = t
            BY <1>0, <2>4, <3>3 DEF Current
        <3> QED BY <2>2, <2>3, <2>6, <2>8, <3>2, <3>3, <3>4
    <2> QED BY <2>9, <2>10, <2>11, <2>12 DEF TurnsInv
<1> QED BY <1>1, <1>2

\* A stop of a waiting turn begins a lapse of the waiter it sees.
LEMMA TStop ==
    ASSUME Inv, TurnsInv, NEW t \in Turns, Stop(t)
    PROVE  TurnsInv'
<1>0. /\ WaiterWaits /\ LapsesAreDue /\ DownIsQuiet /\ Alone /\ pc \in [Turns -> PCs] /\ TypeOK
      /\ UNCHANGED <<batch, waiter, pc, up>> /\ up
      /\ stopped' = [stopped EXCEPT ![t] = TRUE] /\ stopped \in [Turns -> BOOLEAN]
      /\ <<t, "abort">> \in Jobs
    BY TParts, JobPairs DEF Stop, bounds
<1>1. \A u \in Turns : stopped[u] => stopped'[u]
    BY <1>0
<1>2. stopped'[t]
    BY <1>0
<1>3. WaiterWaits' /\ DownIsQuiet'
    BY <1>0 DEF WaiterWaits, DownIsQuiet
<1>4. CASE pc[t] # "waiting"
    <2>1. lapsing' = lapsing
        BY <1>4 DEF Stop
    <2>2. LapsesAreDue' /\ Alone'
        BY <1>0, <1>1, <2>1 DEF LapsesAreDue, Alone, Lapses, Current
    <2> QED BY <1>3, <2>2 DEF TurnsInv
<1>5. CASE pc[t] = "waiting"
    <2>1. /\ \A k \in Jobs : k # <<t, "abort">> => lapsing'[k] = lapsing[k]
          /\ lapsing'[<<t, "abort">>].took = {}
          /\ lapsing'[<<t, "abort">>].seen = IF waiter = NoWaiter THEN 0 ELSE waiter.pass
        BY <1>0, <1>5, Started DEF Stop
    <2>2. \A u \in Turns : /\ <<u, "own">> \in Jobs /\ <<u, "abort">> \in Jobs /\ <<u, "own">> # <<t, "abort">>
                           /\ u # t => <<u, "abort">> # <<t, "abort">>
        BY JobPairs
    <2>3. \A u \in Turns : /\ Lapses(<<u, "own">>)' <=> Lapses(<<u, "own">>)
                           /\ u # t => (Lapses(<<u, "abort">>)' <=> Lapses(<<u, "abort">>))
                                       /\ lapsing'[<<u, "abort">>] = lapsing[<<u, "abort">>]
        BY <2>1, <2>2 DEF Lapses
    <2>4. LapsesAreDue'
        <3>1. \A u \in Turns : Lapses(<<u, "own">>)' <=> pc'[u] \in {"retiring", "opening", "ending"}
            BY <1>0, <2>3 DEF LapsesAreDue
        <3>2. \A u \in Turns : Lapses(<<u, "abort">>)' =>
                  stopped'[u] /\ pc'[u] \in {"waiting", "running", "ending", "over"}
            BY <1>0, <1>1, <1>2, <1>5, <2>3 DEF LapsesAreDue
        <3>3. \A j \in Jobs : ~Lapses(j)' => lapsing'[j].took = {}
            BY <1>0, <2>1 DEF LapsesAreDue, Lapses
        <3> QED BY <3>1, <3>2, <3>3 DEF LapsesAreDue
    <2>5. Alone'
        <3>1. SUFFICES ASSUME ~Overlap
                       PROVE  /\ \A v, u \in Turns : Current(v)' /\ Current(u)' => v = u
                              /\ \A v, u \in Turns : Current(v)' /\ Lapses(<<u, "abort">>)' => v = u
                              /\ \A v \in Turns : pc'[v] = "waiting" => waiter' # NoWaiter /\ waiter'.turn = v
                              /\ \A v \in Turns : Lapses(<<v, "abort">>)' /\ waiter' # NoWaiter =>
                                    lapsing'[<<v, "abort">>].seen = waiter'.pass
            BY DEF Alone
        <3>2. Current(t) /\ \A u \in Turns : Current(u)' <=> Current(u)
            BY <1>0, <1>5 DEF Current
        <3> QED BY <1>0, <2>1, <2>3, <3>1, <3>2 DEF Alone
    <2> QED BY <1>3, <2>4, <2>5 DEF TurnsInv
<1> QED BY <1>4, <1>5

\* A crash leaves no waiter, no lapse, and dead turns.
LEMMA TCrash ==
    ASSUME Inv, TurnsInv, Crash
    PROVE  TurnsInv'
<1>0. /\ DownIsQuiet /\ Alone /\ ~up' /\ waiter' = NoWaiter
      /\ \A t \in Turns : pc'[t] = IF pc[t] \in {"new", "over"} THEN pc[t] ELSE "dead"
      /\ \A j \in Jobs : lapsing'[j] = NoLapse
    BY TParts DEF Crash
<1>1. \A j \in Jobs : ~Lapses(j)' /\ lapsing'[j].took = {}
    BY <1>0 DEF Lapses, NoLapse
<1>2. \A t \in Turns : pc'[t] \in {"new", "over", "dead"} /\ (Current(t)' <=> Current(t))
    BY <1>0 DEF Current
<1>3. \A t \in Turns : ~Lapses(<<t, "own">>)' /\ ~Lapses(<<t, "abort">>)'
    BY <1>1, JobPairs
<1>4. WaiterWaits'
    BY <1>0 DEF WaiterWaits
<1>5. LapsesAreDue'
    BY <1>1, <1>2, <1>3 DEF LapsesAreDue
<1>6. DownIsQuiet'
    BY <1>0, <1>1, <1>2 DEF DownIsQuiet
<1>7. Alone'
    BY <1>0, <1>2, <1>3 DEF Alone
<1> QED BY <1>4, <1>5, <1>6, <1>7 DEF TurnsInv

\* A boot buries the dead, and may re-drive one.
LEMMA TBoots ==
    ASSUME Inv, TurnsInv, Salvage \/ \E t \in Turns : Redrive(t)
    PROVE  TurnsInv'
<1>0. /\ LapsesAreDue /\ DownIsQuiet /\ Alone /\ up' /\ ~up /\ waiter' = waiter /\ waiter = NoWaiter /\ TypeOK
      /\ \A j \in Jobs : ~Lapses(j) /\ lapsing[j].took = {}
      /\ \A t \in Turns : pc[t] \in {"new", "over", "dead"}
    BY TParts DEF Salvage, Redrive, DownIsQuiet, LapsesAreDue
<1>1. WaiterWaits'
    BY <1>0 DEF WaiterWaits
<1>2. CASE Salvage
    <2>1. /\ \A u \in Turns : pc'[u] = IF pc[u] = "dead" THEN "over" ELSE pc[u]
          /\ lapsing' = lapsing
        BY <1>2 DEF Salvage
    <2>2. \A u \in Turns : pc'[u] \in {"new", "over"}
        BY <1>0, <2>1
    <2>3. \A t \in Turns : ~Lapses(<<t, "own">>)' /\ ~Lapses(<<t, "abort">>)'
        BY <1>0, <2>1, JobPairs DEF Lapses
    <2> QED BY <1>0, <1>1, <2>1, <2>2, <2>3 DEF TurnsInv, LapsesAreDue, DownIsQuiet, Alone, Current, Lapses
<1>3. ASSUME NEW t \in Turns, Redrive(t) PROVE TurnsInv'
    <2>1. PICK p \in {"resuming", "retiring"} :
              /\ pc' = [u \in Turns |-> IF u = t THEN p
                                        ELSE IF pc[u] = "dead" THEN "over" ELSE pc[u]]
              /\ p = "resuming" => lapsing' = lapsing
              /\ p = "retiring" => StartLapse(<<t, "own">>, "superseded")
        BY <1>3 DEF Redrive
    <2>2. pc'[t] = p /\ \A u \in Turns : u # t => pc'[u] \in {"new", "over"}
        BY <1>0, <2>1
    <2>3. \A u \in Turns : /\ <<u, "own">> \in Jobs /\ <<u, "abort">> \in Jobs /\ <<u, "abort">> # <<t, "own">>
                           /\ u # t => <<u, "own">> # <<t, "own">>
        BY JobPairs
    <2>4. /\ \A k \in Jobs : lapsing'[k].took = {} /\ (k # <<t, "own">> => lapsing'[k] = lapsing[k])
          /\ Lapses(<<t, "own">>)' <=> p = "retiring"
        <3>1. CASE p = "resuming"
            BY <1>0, <2>1, <2>3, <3>1 DEF Lapses
        <3>2. CASE p = "retiring"
            <4>1. /\ \A k \in Jobs : k # <<t, "own">> => lapsing'[k] = lapsing[k]
                  /\ lapsing'[<<t, "own">>].pc = "find" /\ lapsing'[<<t, "own">>].took = {}
                BY <1>0, <2>1, <2>3, <3>2, Started
            <4> QED BY <1>0, <3>2, <4>1 DEF Lapses
        <3> QED BY <3>1, <3>2
    <2>5. \A u \in Turns : ~Lapses(<<u, "abort">>)' /\ (u # t => ~Lapses(<<u, "own">>)')
        BY <1>0, <2>3, <2>4 DEF Lapses
    <2>6. LapsesAreDue'
        BY <2>2, <2>4, <2>5 DEF LapsesAreDue
    <2>7. DownIsQuiet'
        BY <1>0, <2>2 DEF DownIsQuiet
    <2>8. Alone'
        BY <2>2, <2>5 DEF Alone, Current
    <2> QED BY <1>1, <2>6, <2>7, <2>8 DEF TurnsInv
<1> QED BY <1>2, <1>3

\* TurnsInv is inductive together with Inv.
LEMMA TurnsInit == Init => TurnsInv
<1> SUFFICES ASSUME Init PROVE TurnsInv
    OBVIOUS
<1>1. \A j \in Jobs : ~Lapses(j) /\ lapsing[j].took = {}
    BY DEF Init, Lapses, NoLapse
<1>2. \A t \in Turns : pc[t] = "new" /\ ~Lapses(<<t, "own">>) /\ ~Lapses(<<t, "abort">>)
    BY <1>1, JobPairs DEF Init
<1>3. waiter = NoWaiter /\ up
    BY DEF Init
<1> QED BY <1>1, <1>2, <1>3 DEF TurnsInv, WaiterWaits, LapsesAreDue, DownIsQuiet, Alone, Current

LEMMA TurnsStep == Inv /\ TurnsInv /\ [Next]_vars => TurnsInv'
<1> SUFFICES ASSUME Inv, TurnsInv, [Next]_vars PROVE TurnsInv'
    OBVIOUS
<1>1. CASE UNCHANGED vars
    BY <1>1, TStill DEF vars, bounds, Lapses
<1>2. ASSUME NEW j \in Jobs, LapseStep(j) PROVE TurnsInv'
    BY <1>2, TLapseGoes, TLapseDeliver DEF LapseStep
<1>3. ASSUME NEW t \in Turns, StartTurn(t) \/ Open(t) \/ TurnStep(t) \/ Stop(t) \/ EndTurn(t) PROVE TurnsInv'
    <2>1. ASSUME Open(t) \/ EndTurn(t) PROVE up
        BY <2>1, TParts DEF Open, EndTurn, DownIsQuiet
    <2> QED BY <1>3, <2>1, TStartTurn, TOpens, TPark, TStop DEF TurnStep
<1>4. ASSUME NEW q \in Posts, DecideFind(q) \/ PostStep(q) PROVE TurnsInv'
    BY <1>4, TPostGoes, TDecideDeliver DEF PostStep
<1>5. CASE Crash
    BY <1>5, TCrash
<1>6. CASE Salvage \/ \E t \in Turns : Redrive(t)
    BY <1>6, TBoots
<1> QED BY <1>1, <1>2, <1>3, <1>4, <1>5, <1>6 DEF Next

\* Turns that do not overlap: one at a time is neither to come nor over, it alone
\* waits, and only its own lapses are in flight; every lapse is one its turn is at.
THEOREM TurnsStandAlone == Spec => []TurnsInv
<1>1. Init => Inv /\ TurnsInv
    BY InitInv, TurnsInit
<1>2. Inv /\ TurnsInv /\ [Next]_vars => TurnsInv'
    BY TurnsStep
<1> QED BY <1>1, <1>2, Invariance, PTL DEF Spec
-----------------------------------------------------------------------------
(* DeliveredIsKept *)

\* The verdict has reached the turn: it is in the waiter or was acted on.
Reached(r, verdict) ==
    \/ \E a \in acted : a.rec = r /\ a.as = verdict
    \/ waiter # NoWaiter /\ waiter.pass = r[1] /\ waiter.got[r[2]] = verdict

\* A delivery takes only what is undecided, so what has reached the turn stays.
LEMMA DeliverReaches ==
    ASSUME TypeOK, NEW S \in SUBSET Recs, NEW outcome \in Settled,
           NEW next \in [Turns -> PCs], Deliver(S, outcome, next)
    PROVE  /\ \A r \in Takes(S) : Reached(r, outcome)'
           /\ \A r \in Recs, v \in UserVerdict : Reached(r, v) => Reached(r, v)'
<1>1. /\ Takes(S) = {} \/ waiter # NoWaiter
      /\ \A r \in Takes(S) : r \in S /\ r[1] = waiter.pass /\ waiter.got[r[2]] = "undecided"
    BY DEF Takes
<1>2. \A r \in Recs : r = <<r[1], r[2]>> /\ r[2] \in Calls
    BY DEF Recs
<1>3. CASE Takes(S) = {} /\ UNCHANGED <<waiter, acted>>
    BY <1>3 DEF Reached
<1>4. CASE /\ waiter \in WaiterType /\ waiter' \in WaiterType /\ waiter'.pass = waiter.pass
           /\ \A c \in Calls : waiter'.got[c] = IF <<waiter.pass, c>> \in Takes(S) THEN outcome
                                                ELSE waiter.got[c]
           /\ UNCHANGED acted
    <2>1. waiter' # NoWaiter
        BY <1>4, ARecord
    <2>2. \A r \in Takes(S) : Reached(r, outcome)'
        BY <1>1, <1>2, <1>4, <2>1 DEF Reached
    <2>3. ASSUME NEW r \in Recs, NEW v \in UserVerdict, Reached(r, v) PROVE Reached(r, v)'
        <3>1. v # "undecided"
            BY DEF UserVerdict
        <3> QED BY <1>1, <1>2, <1>4, <2>1, <2>3, <3>1 DEF Reached
    <2> QED BY <2>2, <2>3
<1>5. CASE /\ waiter \in WaiterType /\ acted \subseteq acted'
           /\ \A c \in Calls : \/ waiter.got[c] = "out"
                               \/ [turn |-> waiter.turn, rec |-> <<waiter.pass, c>>,
                                   as |-> IF <<waiter.pass, c>> \in Takes(S) THEN outcome
                                          ELSE waiter.got[c]] \in acted'
    <2>1. ASSUME NEW r \in Takes(S) PROVE Reached(r, outcome)'
        <3>1. r \in Recs /\ r[1] = waiter.pass /\ waiter.got[r[2]] = "undecided"
            BY <1>1
        <3>2. [turn |-> waiter.turn, rec |-> r, as |-> outcome] \in acted'
            BY <1>2, <1>5, <3>1
        <3> QED BY <3>2 DEF Reached
    <2>2. ASSUME NEW r \in Recs, NEW v \in UserVerdict, Reached(r, v) PROVE Reached(r, v)'
        <3>1. CASE \E a \in acted : a.rec = r /\ a.as = v
            BY <1>5, <3>1 DEF Reached
        <3>2. CASE waiter # NoWaiter /\ waiter.pass = r[1] /\ waiter.got[r[2]] = v
            <4>1. v # "undecided" /\ v # "out"
                BY DEF UserVerdict
            <4>2. <<waiter.pass, r[2]>> = r /\ r \notin Takes(S)
                BY <1>1, <1>2, <3>2, <4>1
            <4>3. [turn |-> waiter.turn, rec |-> r, as |-> v] \in acted'
                BY <1>2, <1>5, <3>2, <4>1, <4>2
            <4> QED BY <4>3 DEF Reached
        <3> QED BY <2>2, <3>1, <3>2 DEF Reached
    <2> QED BY <2>1, <2>2
<1> QED BY <1>3, <1>4, <1>5, Delivers

\* A step that takes nothing back, and no POST takes more.
LEMMA ReachedStays ==
    ASSUME TypeOK, DeliveredIsKept,
           \A r \in Recs, v \in UserVerdict : Reached(r, v) => Reached(r, v)',
           \A q \in Posts : \A r \in post'[q].taken :
              \/ r \in post[q].taken /\ post'[q].verdict = post[q].verdict
              \/ \E v \in UserVerdict : v = post'[q].verdict /\ Reached(r, v)'
    PROVE  DeliveredIsKept'
<1>1. \A q \in Posts : \A r \in post[q].taken :
          r \in Recs /\ \E v \in UserVerdict : v = post[q].verdict /\ Reached(r, v)
    BY DEF TypeOK, PostType, DeliveredIsKept, Reached
<1>2. \A q \in Posts : \A r \in post'[q].taken : \E v \in UserVerdict : v = post'[q].verdict /\ Reached(r, v)'
    BY <1>1
<1> QED BY <1>2 DEF DeliveredIsKept, Reached

\* What a POST is once it has read: refused as it was, or about to settle.
LEMMA PostRead ==
    ASSUME TypeOK, NEW q \in Posts, DecideFind(q)
    PROVE  /\ \A p \in Posts : p # q => post'[p] = post[p]
           /\ \/ post'[q] = [post[q] EXCEPT !.pc = "refused"]
              \/ post'[q].pc = "settle" /\ post'[q].taken = {} /\ post'[q].cur = NoRec
<1>0. post \in [Posts -> PostType]
    BY DEF TypeOK
<1>1. \/ post' = [post EXCEPT ![q].pc = "refused"]
      \/ \E verdict, target, todo : post' = [post EXCEPT ![q] =
             [NoPost EXCEPT !.pc = "settle", !.verdict = verdict, !.target = target, !.todo = todo]]
    <2>1. PICK ok \in BOOLEAN, call \in Calls \cup {NoCall}, given \in 0..MaxPass,
              verdict \in UserVerdict, wide \in BOOLEAN, valid \in BOOLEAN :
          LET view == View(ok)
              named == Named(view, call, wide)
          IN  /\ Call(ok)
              /\ IF ~valid \/ Refuses(view, call, given, verdict, wide)
                 THEN post' = [post EXCEPT ![q].pc = "refused"]
                 ELSE post' = [post EXCEPT ![q] =
                         [NoPost EXCEPT !.pc = "settle", !.verdict = verdict,
                             !.target = IF named = {} THEN NoRec
                                        ELSE CHOOSE r \in named : TRUE,
                             !.todo = IF wide THEN Newest(view) ELSE named]]
        BY DEF DecideFind
    <2> DEFINE named == Named(View(ok), call, wide)
               target == IF named = {} THEN NoRec ELSE CHOOSE r \in named : TRUE
               todo == IF wide THEN Newest(View(ok)) ELSE named
    <2>2. \/ post' = [post EXCEPT ![q].pc = "refused"]
          \/ post' = [post EXCEPT ![q] = [NoPost EXCEPT !.pc = "settle", !.verdict = verdict,
                                                       !.target = target, !.todo = todo]]
        BY <2>1, Zenon
    <2> HIDE DEF named, target, todo
    <2> QED BY <2>2
<1>2. CASE post' = [post EXCEPT ![q].pc = "refused"]
    BY <1>0, <1>2
<1>3. ASSUME NEW verdict, NEW target, NEW todo,
             post' = [post EXCEPT ![q] = [NoPost EXCEPT !.pc = "settle", !.verdict = verdict,
                                                        !.target = target, !.todo = todo]]
      PROVE  /\ \A p \in Posts : p # q => post'[p] = post[p]
             /\ post'[q].pc = "settle" /\ post'[q].taken = {} /\ post'[q].cur = NoRec
    BY <1>0, <1>3 DEF NoPost
<1> QED BY <1>1, <1>2, <1>3

\* DeliveredIsKept is inductive together with Inv and TurnsInv.
LEMMA KeptInit == Init => Kept
BY DEF Init, Kept, DeliveredIsKept, NoPost

LEMMA KeptStep == Inv /\ TurnsInv /\ Kept /\ [Next]_vars => Kept'
<1> SUFFICES ASSUME Inv, TurnsInv, ~Overlap, DeliveredIsKept, [Next]_vars PROVE DeliveredIsKept'
    BY DEF Kept
<1>0. /\ TypeOK /\ post \in [Posts -> PostType] /\ pc \in [Turns -> PCs]
      /\ \A q \in Posts : post[q].verdict \in UserVerdict /\ post[q].taken \subseteq Recs
    BY DEF Inv, TypeOK, PCs, PostType
<1>1. ASSUME UNCHANGED <<waiter, acted, post>> PROVE DeliveredIsKept'
    BY <1>1 DEF DeliveredIsKept
<1>2. ASSUME NEW j \in Jobs, LapseDeliver(j) PROVE DeliveredIsKept'
    <2> DEFINE next == IF j[2] = "own" THEN [pc EXCEPT ![j[1]] = After(j[1])] ELSE pc
               S == lapsing[j].took \cup Forces(j)
    <2>1. Deliver(S, lapsing[j].source, next) /\ post' = post
        BY <1>2 DEF LapseDeliver
    <2>2. S \in SUBSET Recs /\ lapsing[j].source \in Settled
        BY <1>0 DEF TypeOK, LapseType, Forces, Settled
    <2>3. next \in [Turns -> PCs]
        BY <1>0 DEF After, PCs
    <2> HIDE DEF S, next
    <2>4. \A r \in Recs, v \in UserVerdict : Reached(r, v) => Reached(r, v)'
        BY <1>0, <2>1, <2>2, <2>3, DeliverReaches
    <2> QED BY <1>0, <2>1, <2>4, ReachedStays
<1>3. ASSUME NEW q \in Posts, DecideDeliver(q) PROVE DeliveredIsKept'
    <2>1. /\ Deliver(HandsOver(q), post[q].verdict, pc)
          /\ post' = [post EXCEPT ![q].pc = IF post[q].todo = {} THEN "done" ELSE "settle",
                                  ![q].cur = NoRec,
                                  ![q].taken = @ \cup Takes(HandsOver(q))]
          /\ post[q].cur \in Recs
        BY <1>0, <1>3 DEF DecideDeliver, PostType, Inv, HandlersAreRight
    <2>2. PICK S \in SUBSET Recs, o \in UserVerdict : S = HandsOver(q) /\ o = post[q].verdict
        BY <1>0, <2>1 DEF HandsOver
    <2>3. /\ \A r \in Takes(S) : Reached(r, o)'
          /\ \A r \in Recs, v \in UserVerdict : Reached(r, v) => Reached(r, v)'
        BY <1>0, <2>1, <2>2, DeliverReaches DEF Settled
    <2>4. /\ \A p \in Posts : post'[p].verdict = post[p].verdict
          /\ \A p \in Posts : p # q => post'[p].taken = post[p].taken
          /\ post'[q].taken = post[q].taken \cup Takes(HandsOver(q))
        BY <1>0, <2>1 DEF PostType
    <2>5. \A p \in Posts : \A r \in post'[p].taken :
              \/ r \in post[p].taken /\ post'[p].verdict = post[p].verdict
              \/ \E v \in UserVerdict : v = post'[p].verdict /\ Reached(r, v)'
        BY <2>2, <2>3, <2>4
    <2> QED BY <1>0, <2>3, <2>5, ReachedStays
<1>4. ASSUME UNCHANGED <<waiter, acted>>,
             \A q \in Posts : \A r \in post'[q].taken : r \in post[q].taken /\ post'[q].verdict = post[q].verdict
      PROVE  DeliveredIsKept'
    BY <1>4 DEF DeliveredIsKept
<1>5. ASSUME NEW q \in Posts, DecideFind(q) PROVE DeliveredIsKept'
    <2>1. /\ \A p \in Posts : p # q => post'[p] = post[p]
          /\ \/ post'[q] = [post[q] EXCEPT !.pc = "refused"]
             \/ post'[q].taken = {}
        BY <1>0, <1>5, PostRead
    <2>2. \A p \in Posts : \A r \in post'[p].taken : r \in post[p].taken /\ post'[p].verdict = post[p].verdict
        <3>1. CASE post'[q].taken = {}
            BY <2>1, <3>1
        <3>2. CASE post'[q] = [post[q] EXCEPT !.pc = "refused"]
            BY <1>0, <2>1, <3>2 DEF PostType
        <3> QED BY <2>1, <3>1, <3>2
    <2> QED BY <1>4, <1>5, <2>2 DEF DecideFind
<1>6. ASSUME NEW q \in Posts, DecideSettle(q) PROVE DeliveredIsKept'
    <2>1. \E r \in post[q].todo : \E p :
              \/ post' = [post EXCEPT ![q].pc = p, ![q].cur = r,
                                      ![q].todo = @ \ {r}, ![q].won = @ \cup {r}]
              \/ post' = [post EXCEPT ![q].todo = @ \ {r}, ![q].pc = p]
              \/ post' = [post EXCEPT ![q].pc = p]
        BY <1>6 DEF DecideSettle
    <2>2. \A o \in Posts : \A s \in post'[o].taken : s \in post[o].taken /\ post'[o].verdict = post[o].verdict
        BY <1>0, <2>1 DEF PostType
    <2> QED BY <1>4, <1>6, <2>2 DEF DecideSettle
<1>7. ASSUME NEW t \in Turns, Park(t) PROVE DeliveredIsKept'
    <2>1. waiter = NoWaiter
        BY <1>7, TParts DEF Park, Alone, WaiterWaits, Current
    <2>2. acted \subseteq acted' /\ post' = post
        BY <1>7 DEF Park
    <2> QED BY <2>1, <2>2 DEF DeliveredIsKept
<1>8. CASE Crash
    <2>1. \A q \in Posts : post'[q].taken = {}
        BY <1>0, <1>8 DEF Crash, PostType
    <2> QED BY <2>1 DEF DeliveredIsKept
<1>9. ASSUME NEW j \in Jobs, LapseStep(j) PROVE DeliveredIsKept'
    BY <1>1, <1>2, <1>9 DEF LapseStep, LapseFind, LapseSettle
<1>10. ASSUME NEW t \in Turns, StartTurn(t) \/ Open(t) \/ TurnStep(t) \/ Stop(t) \/ EndTurn(t)
       PROVE  DeliveredIsKept'
    BY <1>1, <1>7, <1>10 DEF StartTurn, Open, TurnStep, ResumeFind, InsertMissing, Stop, EndTurn
<1>11. ASSUME NEW q \in Posts, DecideFind(q) \/ PostStep(q) PROVE DeliveredIsKept'
    BY <1>3, <1>5, <1>6, <1>11 DEF PostStep
<1>12. ASSUME UNCHANGED vars \/ Salvage \/ \E t \in Turns : Redrive(t) PROVE DeliveredIsKept'
    BY <1>1, <1>12 DEF vars, Salvage, Redrive
<1> QED BY <1>8, <1>9, <1>10, <1>11, <1>12 DEF Next

\* A POST answered "delivered" has reached the turn for good, where turns do not overlap.
THEOREM DeliveriesAreKept == Spec => [](~Overlap => DeliveredIsKept)
<1>1. Init => Kept
    BY KeptInit
<1>2. Inv /\ TurnsInv /\ Kept /\ [Next]_vars => Kept'
    BY KeptStep
<1>3. Kept => (~Overlap => DeliveredIsKept)
    BY DEF Kept
<1> QED BY <1>1, <1>2, <1>3, Invariance, TurnsStandAlone, PTL DEF Spec
-----------------------------------------------------------------------------
(* LapsesOwnCards *)

\* Who hands lapsed decisions to a waiter: the abort listener of its own turn.
LEMMA AbortOfWaiter ==
    ASSUME Inv, TurnsInv, ~Overlap, NEW j \in Jobs, LapseDeliver(j), waiter # NoWaiter
    PROVE  j = <<waiter.turn, "abort">> /\ stopped[waiter.turn] /\ waiter.turn \in Turns
<1>0. /\ WaiterWaits /\ LapsesAreDue /\ Alone /\ waiter.turn \in Turns /\ Lapses(j) /\ j[1] \in Turns
      /\ j = <<j[1], "own">> \/ j = <<j[1], "abort">>
    BY TParts, JobPairs DEF LapseDeliver, Lapses
<1>1. pc[waiter.turn] = "waiting" /\ Current(waiter.turn)
    BY <1>0 DEF WaiterWaits, Current
<1>2. j # <<j[1], "own">>
    <2> SUFFICES ASSUME j = <<j[1], "own">> PROVE FALSE
        OBVIOUS
    <2>1. pc[j[1]] \in {"retiring", "opening", "ending"}
        BY <1>0 DEF LapsesAreDue
    <2> QED BY <1>0, <1>1, <2>1 DEF Alone, Current
<1> QED BY <1>0, <1>1, <1>2 DEF Alone, LapsesAreDue

\* Nothing is known as lapsed before a crash but to a stopped turn.
LapsesKnown ==
    /\ up /\ \A t \in Turns : pc[t] # "resuming" /\ \A c \in Calls : batch[t].asked[c] \notin Lapsed
    /\ waiter # NoWaiter => \A c \in Calls : waiter.got[c] \in Lapsed => stopped[waiter.turn]
    /\ \A a \in acted : a.as \in Lapsed => stopped[a.turn]

\* LapsesOwn is LapsesKnown under its own conditions.
LEMMA OwnIsKnown == LapsesOwn <=> (~Overlap /\ crashes = 0 => LapsesKnown)
BY DEF LapsesOwn, LapsesKnown, LapsesOwnCards

\* A delivery makes known as lapsed only what a stopped turn is handed.
LEMMA OwnDelivers ==
    ASSUME Inv, LapsesKnown, NEW S \in SUBSET Recs, NEW outcome \in Settled,
           NEW next \in [Turns -> PCs], Deliver(S, outcome, next), UNCHANGED <<batch, stopped, up>>,
           \A t \in Turns : next[t] # "resuming",
           waiter # NoWaiter /\ outcome \in Lapsed => stopped[waiter.turn]
    PROVE  LapsesKnown'
<1>0. /\ TypeOK /\ \A a \in acted' \ acted : a.as \in Settled
      /\ waiter \in WaiterType => waiter.turn \in Turns /\ waiter # NoWaiter
    BY DeliverType, ARecord DEF Inv, WaiterType
<1>1. /\ \/ waiter' = waiter
         \/ /\ waiter # NoWaiter /\ waiter' # NoWaiter /\ waiter'.turn = waiter.turn
            /\ \A c \in Calls : waiter'.got[c] \in {outcome, waiter.got[c]}
         \/ waiter' = NoWaiter
      /\ \A a \in acted' :
            \/ a \in acted
            \/ /\ waiter # NoWaiter /\ a.turn = waiter.turn
               /\ a.as = outcome \/ \E c \in Calls : a.as = waiter.got[c]
      /\ \A t \in Turns : pc'[t] = next[t] \/ pc'[t] = "running"
    <2>1. CASE UNCHANGED <<waiter, acted>> /\ pc' = next
        BY <2>1
    <2>2. CASE /\ waiter \in WaiterType /\ waiter' \in WaiterType /\ waiter'.turn = waiter.turn
               /\ \A c \in Calls : waiter'.got[c] = IF <<waiter.pass, c>> \in Takes(S) THEN outcome
                                                    ELSE waiter.got[c]
               /\ pc' = next /\ UNCHANGED acted
        BY <1>0, <2>2, ARecord
    <2>3. CASE /\ waiter \in WaiterType /\ waiter' = NoWaiter
               /\ pc' = [next EXCEPT ![waiter.turn] = "running"]
               /\ \A a \in acted' \ acted :
                     /\ a.turn = waiter.turn
                     /\ a.as = outcome \/ \E c \in Calls : a.as = waiter.got[c]
        <3>1. waiter # NoWaiter /\ \A t \in Turns : pc'[t] = next[t] \/ pc'[t] = "running"
            BY <1>0, <2>3
        <3> QED BY <2>3, <3>1
    <2> QED BY <1>0, <2>1, <2>2, <2>3, Delivers
<1> QED BY <1>1 DEF LapsesKnown

\* LapsesOwn is inductive together with Inv and TurnsInv.
LEMMA OwnInit == Init => LapsesOwn
BY DEF Init, LapsesOwn, LapsesOwnCards, Lapsed

LEMMA OwnStep == Inv /\ TurnsInv /\ LapsesOwn /\ [Next]_vars => LapsesOwn'
<1> SUFFICES ASSUME Inv, TurnsInv, ~Overlap, crashes' = 0, LapsesOwn, [Next]_vars PROVE LapsesKnown'
    BY OwnIsKnown DEF LapsesOwn, LapsesKnown, LapsesOwnCards
<1>0. /\ TypeOK /\ pc \in [Turns -> PCs] /\ stopped \in [Turns -> BOOLEAN] /\ crashes \in Nat
      /\ batch \in [Turns -> [pass : 0..MaxPass, asked : [Calls -> Known]]]
    BY ApprovalsAssumption DEF Inv, TypeOK, PCs
<1>1. ASSUME crashes = 0 PROVE LapsesKnown
    BY <1>1, OwnIsKnown
<1>2. ASSUME crashes' = crashes PROVE LapsesKnown
    BY <1>1, <1>2
<1>3. ASSUME LapsesKnown, UNCHANGED <<waiter, acted, up>>,
             \A t \in Turns : stopped[t] => stopped'[t],
             \A t \in Turns : pc'[t] # "resuming",
             \A t \in Turns, c \in Calls : batch'[t].asked[c] \notin Lapsed
      PROVE  LapsesKnown'
    <2>1. \A a \in acted : a.turn \in Turns
        BY <1>0 DEF TypeOK
    <2>2. waiter # NoWaiter => waiter.turn \in Turns
        BY <1>0 DEF TypeOK, WaiterType
    <2> QED BY <1>3, <2>1, <2>2 DEF LapsesKnown
<1>4. ASSUME UNCHANGED <<waiter, pc, batch, stopped, acted, up, crashes>> PROVE LapsesKnown'
    BY <1>2, <1>4 DEF LapsesKnown
<1>5. ASSUME NEW j \in Jobs, LapseDeliver(j) PROVE LapsesKnown'
    <2> DEFINE next == IF j[2] = "own" THEN [pc EXCEPT ![j[1]] = After(j[1])] ELSE pc
               S == lapsing[j].took \cup Forces(j)
    <2>1. /\ Deliver(S, lapsing[j].source, next) /\ UNCHANGED <<batch, stopped, up>> /\ LapsesKnown
        BY <1>2, <1>5 DEF LapseDeliver, bounds
    <2>2. PICK o \in Settled : S \in SUBSET Recs /\ o = lapsing[j].source
        BY <1>0 DEF TypeOK, LapseType, Forces, Settled
    <2>3. next \in [Turns -> PCs] /\ \A t \in Turns : next[t] # "resuming"
        BY <1>0, <2>1 DEF After, PCs, LapsesKnown
    <2>4. waiter # NoWaiter => stopped[waiter.turn]
        BY <1>5, AbortOfWaiter
    <2> HIDE DEF S, next
    <2> QED BY <2>1, <2>2, <2>3, <2>4, OwnDelivers
<1>6. ASSUME NEW q \in Posts, DecideDeliver(q) PROVE LapsesKnown'
    <2>1. /\ Deliver(HandsOver(q), post[q].verdict, pc) /\ UNCHANGED <<batch, stopped, up>>
          /\ LapsesKnown /\ post[q].cur \in Recs /\ post[q].verdict \in UserVerdict
        BY <1>0, <1>2, <1>6 DEF DecideDeliver, bounds, PostType, Inv, TypeOK, HandlersAreRight
    <2>2. PICK S \in SUBSET Recs, o \in UserVerdict : S = HandsOver(q) /\ o = post[q].verdict
        BY <2>1 DEF HandsOver
    <2>3. o \in Settled /\ o \notin Lapsed /\ \A t \in Turns : pc[t] # "resuming"
        BY <2>1 DEF LapsesKnown, Settled, UserVerdict, Lapsed
    <2> QED BY <1>0, <2>1, <2>2, <2>3, OwnDelivers
<1>7. ASSUME NEW t \in Turns, StartTurn(t) \/ EndTurn(t) PROVE LapsesKnown'
    <2>1. /\ UNCHANGED <<waiter, batch, stopped, acted, up, crashes>>
          /\ \E p \in {"running", "retiring", "ending"} : pc' = [pc EXCEPT ![t] = p]
        BY <1>7 DEF StartTurn, EndTurn, bounds
    <2> QED BY <1>0, <1>2, <1>3, <2>1 DEF LapsesKnown
<1>8. ASSUME NEW t \in Turns, Open(t) PROVE LapsesKnown'
    <2>1. /\ UNCHANGED <<waiter, stopped, acted, up, crashes>> /\ pc' = [pc EXCEPT ![t] = "opening"]
          /\ \E S \in SUBSET Calls : batch' = [batch EXCEPT ![t] =
                       [pass |-> passes + 1,
                        asked |-> [c \in Calls |-> IF c \in S THEN "missing" ELSE "out"]]]
        BY <1>8 DEF Open
    <2>2. \A u \in Turns, c \in Calls : batch'[u].asked[c] \in {"missing", "out", batch[u].asked[c]}
        BY <1>0, <2>1
    <2> QED BY <1>0, <1>2, <1>3, <2>1, <2>2 DEF LapsesKnown, Lapsed
<1>9. ASSUME NEW t \in Turns, ResumeFind(t) PROVE LapsesKnown'
    BY <1>2, <1>9 DEF ResumeFind, LapsesKnown
<1>10. ASSUME NEW t \in Turns, InsertMissing(t) PROVE LapsesKnown'
    <2>1. /\ UNCHANGED <<waiter, stopped, acted, up, crashes>> /\ pc' = [pc EXCEPT ![t] = "parking"]
          /\ batch' = [batch EXCEPT ![t].asked = AsInserted(@)]
        BY <1>10 DEF InsertMissing
    <2>2. \A u \in Turns, c \in Calls : batch'[u].asked[c] \in {"undecided", batch[u].asked[c]}
        BY <1>0, <2>1 DEF AsInserted
    <2> QED BY <1>0, <1>2, <1>3, <2>1, <2>2 DEF LapsesKnown, Lapsed
<1>11. ASSUME NEW t \in Turns, Park(t) PROVE LapsesKnown'
    <2>1. /\ LapsesKnown /\ UNCHANGED <<batch, stopped, up>>
          /\ \E p \in {"running", "waiting"} : pc' = [pc EXCEPT ![t] = p]
          /\ \A c \in Calls : batch[t].asked[c] \notin Lapsed
        BY <1>2, <1>11 DEF Park, bounds, LapsesKnown
    <2>2. \/ waiter' = waiter
          \/ waiter' # NoWaiter /\ waiter'.got = batch[t].asked
        BY <1>11 DEF Park, NoWaiter
    <2>3. \A a \in acted' : a \in acted \/ a.as \notin Lapsed
        BY <1>11, <2>1 DEF Park
    <2> QED BY <1>0, <2>1, <2>2, <2>3 DEF LapsesKnown
<1>12. ASSUME NEW t \in Turns, Stop(t) PROVE LapsesKnown'
    <2>1. /\ UNCHANGED <<waiter, batch, pc, acted, up, crashes>> /\ stopped' = [stopped EXCEPT ![t] = TRUE]
        BY <1>12 DEF Stop, bounds
    <2> QED BY <1>0, <1>2, <1>3, <2>1 DEF LapsesKnown
<1>13. CASE Crash
    <2>1. crashes' = crashes + 1
        BY <1>13 DEF Crash
    <2> QED BY <1>0, <2>1
<1>14. ASSUME Salvage \/ \E t \in Turns : Redrive(t) PROVE LapsesKnown'
    BY <1>2, <1>14 DEF Salvage, Redrive, LapsesKnown
<1>15. ASSUME NEW j \in Jobs, LapseStep(j) PROVE LapsesKnown'
    BY <1>4, <1>5, <1>15 DEF LapseStep, LapseFind, LapseSettle
<1>16. ASSUME NEW q \in Posts, DecideFind(q) \/ PostStep(q) PROVE LapsesKnown'
    BY <1>4, <1>6, <1>16 DEF PostStep, DecideFind, DecideSettle
<1>17. CASE UNCHANGED vars
    BY <1>4, <1>17 DEF vars, bounds
<1> QED BY <1>7, <1>8, <1>9, <1>10, <1>11, <1>12, <1>13, <1>14, <1>15, <1>16, <1>17 DEF Next, TurnStep

\* In one process life, a card lapses under a turn only if that very turn was
\* stopped, where turns do not overlap.
THEOREM LapsesAreOwn == Spec => [](~Overlap => LapsesOwnCards)
<1>1. Init => LapsesOwn
    BY OwnInit
<1>2. Inv /\ TurnsInv /\ LapsesOwn /\ [Next]_vars => LapsesOwn'
    BY OwnStep
<1>3. LapsesOwn => (~Overlap => LapsesOwnCards)
    BY DEF LapsesOwn, LapsesOwnCards
<1> QED BY <1>1, <1>2, <1>3, Invariance, TurnsStandAlone, PTL DEF Spec
-----------------------------------------------------------------------------
(* LostOnlyWhileOpening *)

\* A conditional write changes what is stored of one record.
LEMMA SettlesOne ==
    ASSUME TypeOK, NEW r \in Recs, NEW outcome \in Settled, Wins(r), Settle(r, outcome)
    PROVE  /\ Stored[r] = "pending" /\ Stored'[r] = outcome /\ outcome # "pending" /\ outcome # "absent"
           /\ \A s \in Recs : s # r => Stored'[s] = Stored[s]
<1>1. \A s \in Recs : s # r => db'[s] = db[s] /\ memory'[s] = memory[s]
    BY DEF Settle, TypeOK
<1>2. \A s \in Recs : s # r => Stored'[s] = Stored[s]
    BY <1>1 DEF Stored, View
<1> QED BY <1>2, SettleKeeps DEF Wins, Settled, UserVerdict, Lapsed

\* What a step may do to the records somebody heard of as undecided.
Heard ==
    /\ missed \subseteq missed'
    /\ \A r \in Recs : Stored[r] = "pending" => \/ Stored'[r] = "pending"
                                                \/ OnItsWay(r)' /\ (Opening(r) => r \in missed')

\* A step that writes no record is heard of by nobody.
LEMMA SameHeard ==
    ASSUME UNCHANGED <<store, missed>>
    PROVE  Heard
BY SameStore DEF Heard

\* What openers have read stays true or missed.
LEMMA OpenersHeard ==
    ASSUME Inv, OpenersHear, Heard, UNCHANGED batch,
           \A t \in Turns : \/ pc'[t] = pc[t]
                            \/ pc'[t] \notin {"inserting", "parking"}
                            \/ pc[t] = "opening"
    PROVE  OpenersHear'
<1> SUFFICES ASSUME NEW t \in Turns, pc'[t] \in {"inserting", "parking"}, NEW c \in Calls,
                    batch[t].asked[c] = "undecided"
             PROVE  Stored'[<<batch[t].pass, c>>] = "pending" \/ <<batch[t].pass, c>> \in missed'
    BY DEF OpenersHear
<1>1. pc[t] # "opening"
    BY DEF Inv, OpenersAreRight, OpenerIsRight
<1>2. pc[t] \in {"inserting", "parking"}
    BY <1>1
<1>3. <<batch[t].pass, c>> \in Recs
    BY <1>2, OpenerRec DEF Inv
<1>4. Opening(<<batch[t].pass, c>>)
    BY <1>2 DEF Opening
<1> QED BY <1>2, <1>3, <1>4 DEF OpenersHear, Heard

\* The waiter is the same, and whoever was about to tell it still is.
LEMMA WaiterHeard ==
    ASSUME Inv, WaiterHears, Heard, UNCHANGED waiter, faults' = 0 => faults = 0,
           ~Overlap \/ faults' = 0 => \A c \in Calls :
               waiter # NoWaiter /\ waiter.got[c] = "undecided" /\ OnItsWay(<<waiter.pass, c>>) =>
                   OnItsWay(<<waiter.pass, c>>)'
    PROVE  WaiterHears'
<1> SUFFICES ASSUME ~Overlap \/ faults' = 0, waiter # NoWaiter, NEW c \in Calls, waiter.got[c] = "undecided"
             PROVE  \/ Stored'[<<waiter.pass, c>>] = "pending"
                    \/ OnItsWay(<<waiter.pass, c>>)' \/ <<waiter.pass, c>> \in missed'
    BY DEF WaiterHears
<1>1. <<waiter.pass, c>> \in Recs
    BY DEF Inv, TypeOK, WaiterType, Recs
<1> QED BY <1>1 DEF WaiterHears, Heard

\* HearInv is inductive together with Inv and TurnsInv.
LEMMA HearInit == Init => HearInv
<1> SUFFICES ASSUME Init PROVE HearInv
    OBVIOUS
<1>1. CarriesOne
    BY DEF Init, CarriesOne, NoPost
<1>2. OpenersHear /\ WaiterHears
    BY DEF Init, OpenersHear, WaiterHears
<1> QED BY <1>1, <1>2 DEF HearInv

\* What is on its way to a waiter stays so while nobody drops what they hold.
LEMMA StaysOnItsWay ==
    ASSUME \A q \in Posts : post'[q].cur = post[q].cur \/ post[q].cur = NoRec,
           \A j \in Jobs : Lapses(j) \/ lapsing[j].took # {} =>
                /\ lapsing[j].took \subseteq lapsing'[j].took
                /\ Lapses(j) => Lapses(j)' /\ lapsing'[j].seen = lapsing[j].seen,
           NEW r \in Recs, OnItsWay(r)
    PROVE  OnItsWay(r)'
<1>1. r # NoRec
    BY DEF Recs, Passes, NoRec
<1>2. CASE \E q \in Posts : post[q].cur = r
    BY <1>1, <1>2 DEF OnItsWay
<1>3. CASE \E j \in Jobs : r \in lapsing[j].took \/ (Lapses(j) /\ lapsing[j].seen = r[1])
    BY <1>3 DEF OnItsWay, Lapses
<1> QED BY <1>2, <1>3 DEF OnItsWay, Lapses

\* The lapse that may still tell a waiter, without overlap, is its own turn's.
LEMMA TellsItsOwn ==
    ASSUME Inv, TurnsInv, ~Overlap, waiter # NoWaiter, NEW j \in Jobs, Lapses(j)
    PROVE  lapsing[j].seen = waiter.pass
<1>0. /\ WaiterWaits /\ LapsesAreDue /\ Alone /\ waiter.turn \in Turns /\ j[1] \in Turns
      /\ j = <<j[1], "own">> \/ j = <<j[1], "abort">>
    BY TParts, JobPairs
<1>1. pc[waiter.turn] = "waiting" /\ Current(waiter.turn)
    BY <1>0 DEF WaiterWaits, Current
<1>2. CASE j = <<j[1], "own">>
    <2>1. pc[j[1]] \in {"retiring", "opening", "ending"}
        BY <1>0, <1>2 DEF LapsesAreDue
    <2>2. Current(j[1])
        BY <2>1 DEF Current
    <2> QED BY <1>0, <1>1, <2>1, <2>2 DEF Alone
<1>3. CASE j = <<j[1], "abort">>
    BY <1>0, <1>3 DEF Alone
<1> QED BY <1>0, <1>2, <1>3

\* A lapse that settles carries what it took; one that throws still forces.
LEMMA HLapseSettle ==
    ASSUME Inv, TurnsInv, HearInv, NEW j \in Jobs, LapseSettle(j)
    PROVE  HearInv'
<1>0. /\ TypeOK /\ lapsing \in [Jobs -> LapseType] /\ faults \in Nat /\ Lapses(j)
      /\ UNCHANGED <<waiter, pc, batch, post>>
    BY ApprovalsAssumption DEF Inv, TypeOK, LapseSettle, Lapses
<1>1. PICK r \in lapsing[j].todo :
          \/ /\ Wins(r) /\ Settle(r, lapsing[j].source)
             /\ lapsing' = [lapsing EXCEPT ![j].todo = @ \ {r}, ![j].took = @ \cup {r}]
             /\ missed' = Missed(r) /\ UNCHANGED faults
          \/ /\ lapsing' = [lapsing EXCEPT ![j].todo = @ \ {r}]
             /\ UNCHANGED <<store, missed, faults>>
          \/ /\ Call(FALSE) /\ lapsing' = [lapsing EXCEPT ![j].todo = {}, ![j].took = {}]
             /\ UNCHANGED <<store, missed>>
    BY <1>0 DEF LapseSettle
<1>2. r \in Recs /\ lapsing[j].source \in Settled
    BY <1>0 DEF LapseType, Settled
<1>3. \A k \in Jobs : /\ Lapses(k) => Lapses(k)' /\ lapsing'[k].seen = lapsing[k].seen
                      /\ k # j => lapsing'[k] = lapsing[k]
    <2>1. CASE lapsing' = [lapsing EXCEPT ![j].todo = @ \ {r}, ![j].took = @ \cup {r}]
        BY <1>0, <2>1 DEF LapseType, Lapses
    <2>2. CASE lapsing' = [lapsing EXCEPT ![j].todo = @ \ {r}]
        BY <1>0, <2>2 DEF LapseType, Lapses
    <2>3. CASE lapsing' = [lapsing EXCEPT ![j].todo = {}, ![j].took = {}]
        BY <1>0, <2>3 DEF LapseType, Lapses
    <2> QED BY <1>1, <2>1, <2>2, <2>3
<1>4. CarriesOne'
    BY <1>0 DEF HearInv, CarriesOne
<1>5. CASE /\ Wins(r) /\ Settle(r, lapsing[j].source)
           /\ lapsing' = [lapsing EXCEPT ![j].todo = @ \ {r}, ![j].took = @ \cup {r}]
           /\ missed' = Missed(r) /\ UNCHANGED faults
    <2>1. lapsing'[j].took = lapsing[j].took \cup {r}
        BY <1>0, <1>5 DEF LapseType
    <2>2. OnItsWay(r)'
        BY <2>1 DEF OnItsWay
    <2>3. missed \subseteq missed' /\ (Opening(r) => r \in missed')
        BY <1>5 DEF Missed
    <2>4. PICK o \in Settled : o = lapsing[j].source
        BY <1>2
    <2>5. \A s \in Recs : s # r => Stored'[s] = Stored[s]
        BY <1>0, <1>2, <1>5, <2>4, SettlesOne
    <2>6. Heard
        BY <2>2, <2>3, <2>5 DEF Heard
    <2>7. \A s \in Recs : OnItsWay(s) => OnItsWay(s)'
        BY <1>0, <1>3, <2>1, StaysOnItsWay
    <2>8. \A c \in Calls : waiter # NoWaiter => <<waiter.pass, c>> \in Recs
        BY <1>0 DEF TypeOK, WaiterType, Recs
    <2> QED BY <1>0, <1>4, <1>5, <2>6, <2>7, <2>8, OpenersHeard, WaiterHeard DEF HearInv
<1>6. CASE /\ lapsing' = [lapsing EXCEPT ![j].todo = @ \ {r}]
           /\ UNCHANGED <<store, missed, faults>>
    <2>1. lapsing'[j].took = lapsing[j].took
        BY <1>0, <1>6 DEF LapseType
    <2>2. \A s \in Recs : OnItsWay(s) => OnItsWay(s)'
        BY <1>0, <1>3, <2>1, StaysOnItsWay
    <2>3. \A c \in Calls : waiter # NoWaiter => <<waiter.pass, c>> \in Recs
        BY <1>0 DEF TypeOK, WaiterType, Recs
    <2>4. Heard
        BY <1>6, SameHeard
    <2> QED BY <1>0, <1>4, <1>6, <2>2, <2>3, <2>4, OpenersHeard, WaiterHeard DEF HearInv
<1>7. CASE /\ Call(FALSE) /\ lapsing' = [lapsing EXCEPT ![j].todo = {}, ![j].took = {}]
           /\ UNCHANGED <<store, missed>>
    <2>1. faults' = faults + 1
        BY <1>7 DEF Call
    <2>2. faults' # 0
        BY <1>0, <2>1
    <2>3. ASSUME ~Overlap, waiter # NoWaiter, NEW c \in Calls
          PROVE  OnItsWay(<<waiter.pass, c>>)'
        <3>1. Lapses(j)' /\ lapsing'[j].seen = waiter.pass
            BY <1>0, <1>3, <2>3, TellsItsOwn
        <3> QED BY <1>0, <3>1 DEF OnItsWay, Lapses
    <2>4. Heard
        BY <1>7, SameHeard
    <2> QED BY <1>0, <1>4, <1>7, <2>2, <2>3, <2>4, OpenersHeard, WaiterHeard DEF HearInv
<1> QED BY <1>1, <1>5, <1>6, <1>7

\* A delivery tells the waiter what it hands over; the rest is on its way as before.
LEMMA HDelivers ==
    ASSUME Inv, HearInv, NEW S \in SUBSET Recs, NEW outcome \in Settled,
           NEW next \in [Turns -> PCs], Deliver(S, outcome, next),
           UNCHANGED <<store, missed, faults, batch>>,
           \A t \in Turns : \/ next[t] = pc[t]
                            \/ next[t] \notin {"inserting", "parking"}
                            \/ pc[t] = "opening",
           \A r \in Recs \ S : OnItsWay(r) => OnItsWay(r)'
    PROVE  OpenersHear' /\ WaiterHears'
<1>0. TypeOK /\ Stored' = Stored /\ Heard /\ outcome # "undecided"
    BY SameStore, SameHeard DEF Inv, Settled, UserVerdict, Lapsed
<1>1. \A t \in Turns : pc'[t] = next[t] \/ pc'[t] = "running"
    BY <1>0, Delivers
<1>2. OpenersHear'
    BY <1>0, <1>1, OpenersHeard DEF HearInv
<1>3. ASSUME ~Overlap \/ faults' = 0, waiter' # NoWaiter, NEW c \in Calls, waiter'.got[c] = "undecided"
      PROVE  \/ Stored'[<<waiter'.pass, c>>] = "pending"
             \/ OnItsWay(<<waiter.pass, c>>)' \/ <<waiter'.pass, c>> \in missed'
    <2>1. waiter # NoWaiter /\ waiter'.pass = waiter.pass
        BY <1>0, <1>3, Delivers, ARecord
    <2>2. waiter.got[c] = "undecided" /\ <<waiter.pass, c>> \notin Takes(S)
        <3>1. CASE Takes(S) = {} /\ waiter' = waiter
            BY <1>3, <3>1
        <3>2. CASE \A d \in Calls : waiter'.got[d] = IF <<waiter.pass, d>> \in Takes(S) THEN outcome
                                                    ELSE waiter.got[d]
            BY <1>0, <1>3, <3>2
        <3> QED BY <1>0, <1>3, <3>1, <3>2, Delivers
    <2>3. <<waiter.pass, c>> \in Recs
        BY <1>0, <2>1 DEF TypeOK, WaiterType, Recs
    <2>4. <<waiter.pass, c>> \notin S
        BY <2>1, <2>2 DEF Takes
    <2>5. \/ Stored[<<waiter.pass, c>>] = "pending"
          \/ OnItsWay(<<waiter.pass, c>>) \/ <<waiter.pass, c>> \in missed
        BY <1>3, <2>1, <2>2 DEF HearInv, WaiterHears
    <2>6. PICK r \in Recs \ S : r = <<waiter.pass, c>>
        BY <2>3, <2>4
    <2>7. Stored'[r] = "pending" \/ OnItsWay(r)' \/ r \in missed'
        BY <1>0, <2>5, <2>6
    <2> QED BY <2>1, <2>6, <2>7
<1>4. WaiterHears'
    BY <1>3 DEF WaiterHears
<1> QED BY <1>2, <1>4

\* A lapse that returns tells the waiter all that it took or forces.
LEMMA HLapseDeliver ==
    ASSUME Inv, HearInv, NEW j \in Jobs, LapseDeliver(j)
    PROVE  HearInv'
<1> DEFINE next == IF j[2] = "own" THEN [pc EXCEPT ![j[1]] = After(j[1])] ELSE pc
           S == lapsing[j].took \cup Forces(j)
<1>0. TypeOK /\ lapsing \in [Jobs -> LapseType] /\ pc \in [Turns -> PCs] /\ j[1] \in Turns
    BY JobPairs DEF Inv, TypeOK, PCs
<1>1. /\ Deliver(S, lapsing[j].source, next) /\ UNCHANGED <<store, missed, faults, batch, post>>
      /\ lapsing' = [lapsing EXCEPT ![j] = NoLapse]
    BY DEF LapseDeliver, bounds
<1>2. PICK o \in Settled : S \in SUBSET Recs /\ o = lapsing[j].source
    BY <1>0 DEF LapseType, Forces, Settled
<1>3. /\ next \in [Turns -> PCs]
      /\ \A t \in Turns : \/ next[t] = pc[t]
                          \/ next[t] \notin {"inserting", "parking"}
                          \/ pc[t] = "opening"
    BY <1>0 DEF After, PCs
<1>4. ASSUME NEW r \in Recs \ S, OnItsWay(r) PROVE OnItsWay(r)'
    <2>1. r \notin lapsing[j].took /\ lapsing[j].seen # r[1]
        BY <1>4 DEF Forces
    <2>2. \A k \in Jobs : k # j => lapsing'[k] = lapsing[k]
        BY <1>0, <1>1
    <2>3. CASE \E q \in Posts : post[q].cur = r
        BY <1>1, <2>3 DEF OnItsWay
    <2>4. CASE \E k \in Jobs : k # j /\ (r \in lapsing[k].took \/ (lapsing[k].pc # "off" /\ lapsing[k].seen = r[1]))
        BY <2>2, <2>4 DEF OnItsWay
    <2> QED BY <1>4, <2>1, <2>3, <2>4 DEF OnItsWay
<1>5. CarriesOne'
    BY <1>1 DEF HearInv, CarriesOne
<1> HIDE DEF S, next
<1> QED BY <1>1, <1>2, <1>3, <1>4, <1>5, HDelivers DEF HearInv

\* A POST tells the waiter what it carries.
LEMMA HDecideDeliver ==
    ASSUME Inv, HearInv, NEW q \in Posts, DecideDeliver(q)
    PROVE  HearInv'
<1>0. TypeOK /\ post \in [Posts -> PostType] /\ pc \in [Turns -> PCs]
    BY DEF Inv, TypeOK, PCs
<1>1. /\ Deliver(HandsOver(q), post[q].verdict, pc) /\ UNCHANGED <<store, missed, faults, batch, lapsing>>
      /\ post' = [post EXCEPT ![q].pc = IF post[q].todo = {} THEN "done" ELSE "settle",
                              ![q].cur = NoRec,
                              ![q].taken = @ \cup Takes(HandsOver(q))]
      /\ post[q].cur \in Recs
    BY <1>0 DEF DecideDeliver, bounds, PostType, Inv, HandlersAreRight
<1>2. PICK S \in SUBSET Recs, o \in Settled : S = {post[q].cur} /\ S = HandsOver(q) /\ o = post[q].verdict
    BY <1>0, <1>1 DEF HandsOver, PostType, Settled
<1>3. post'[q].cur = NoRec /\ \A p \in Posts : p # q => post'[p] = post[p]
    BY <1>0, <1>1 DEF PostType
<1>4. ASSUME NEW r \in Recs \ S, OnItsWay(r) PROVE OnItsWay(r)'
    BY <1>1, <1>2, <1>3, <1>4 DEF OnItsWay
<1>5. CarriesOne'
    BY <1>3 DEF HearInv, CarriesOne
<1> QED BY <1>0, <1>1, <1>2, <1>4, <1>5, HDelivers DEF HearInv

\* A POST that reads carries nothing yet.
LEMMA HDecideFind ==
    ASSUME Inv, HearInv, NEW q \in Posts, DecideFind(q)
    PROVE  HearInv'
<1>0. /\ TypeOK /\ UNCHANGED <<store, missed, waiter, batch, pc, lapsing>>
      /\ post \in [Posts -> PostType] /\ post[q].pc = "new" /\ post[q].cur = NoRec
      /\ faults \in Nat /\ faults' \in {faults, faults + 1}
    BY ApprovalsAssumption DEF DecideFind, Inv, TypeOK, HearInv, CarriesOne, Call
<1>1. \A p \in Posts : p # q => post'[p] = post[p]
    BY <1>0, PostRead
<1>2. post'[q].cur = NoRec /\ post'[q].pc # "deliver"
    <2>1. CASE post'[q] = [post[q] EXCEPT !.pc = "refused"]
        BY <1>0, <2>1 DEF PostType
    <2> QED BY <1>0, <2>1, PostRead
<1>3. CarriesOne'
    BY <1>1, <1>2 DEF HearInv, CarriesOne
<1>4. \A r \in Recs : OnItsWay(r) => OnItsWay(r)'
    BY <1>0, <1>1, <1>2, StaysOnItsWay DEF Lapses
<1>5. \A c \in Calls : waiter # NoWaiter => <<waiter.pass, c>> \in Recs
    BY <1>0 DEF TypeOK, WaiterType, Recs
<1>6. Heard /\ (faults' = 0 => faults = 0)
    BY <1>0, SameHeard
<1>7. OpenersHear'
    BY <1>0, <1>6, OpenersHeard DEF HearInv
<1>8. WaiterHears'
    BY <1>0, <1>4, <1>5, <1>6, WaiterHeard DEF HearInv
<1> QED BY <1>3, <1>7, <1>8 DEF HearInv

\* A POST that settles carries what it won.
LEMMA HDecideSettle ==
    ASSUME Inv, HearInv, NEW q \in Posts, DecideSettle(q)
    PROVE  HearInv'
<1>0. /\ TypeOK /\ UNCHANGED <<waiter, batch, pc, lapsing>>
      /\ post \in [Posts -> PostType] /\ post[q].pc = "settle" /\ post[q].cur = NoRec
      /\ faults \in Nat /\ faults' \in {faults, faults + 1}
    BY ApprovalsAssumption DEF DecideSettle, Inv, TypeOK, HearInv, CarriesOne, Call
<1>1. PICK r \in post[q].todo :
          \/ /\ Wins(r) /\ Settle(r, post[q].verdict)
             /\ post' = [post EXCEPT ![q].pc = "deliver", ![q].cur = r,
                                     ![q].todo = @ \ {r}, ![q].won = @ \cup {r}]
             /\ missed' = Missed(r)
          \/ /\ post' = [post EXCEPT ![q].todo = @ \ {r}, ![q].pc =
                            IF r = post[q].target THEN "refused"
                            ELSE IF post[q].todo = {r} THEN "done" ELSE "settle"]
             /\ UNCHANGED <<store, missed>>
          \/ /\ post' = [post EXCEPT ![q].pc = "error"]
             /\ UNCHANGED <<store, missed>>
    BY DEF DecideSettle
<1>2. r \in Recs
    BY <1>0 DEF PostType
<1>3. \A p \in Posts : p # q => post'[p] = post[p]
    BY <1>0, <1>1
<1>4. Heard /\ CarriesOne'
    <2>1. CASE /\ Wins(r) /\ Settle(r, post[q].verdict)
               /\ post' = [post EXCEPT ![q].pc = "deliver", ![q].cur = r,
                                       ![q].todo = @ \ {r}, ![q].won = @ \cup {r}]
               /\ missed' = Missed(r)
        <3>1. post'[q].cur = r /\ post'[q].pc = "deliver"
            BY <1>0, <2>1 DEF PostType
        <3>2. OnItsWay(r)'
            BY <3>1 DEF OnItsWay
        <3>3. missed \subseteq missed' /\ (Opening(r) => r \in missed')
            BY <2>1 DEF Missed
        <3>4. PICK o \in Settled : o = post[q].verdict
            BY <1>0 DEF PostType, Settled
        <3>5. \A s \in Recs : s # r => Stored'[s] = Stored[s]
            BY <1>0, <1>2, <2>1, <3>4, SettlesOne
        <3> QED BY <1>3, <3>1, <3>2, <3>3, <3>5 DEF Heard, HearInv, CarriesOne
    <2>2. ASSUME post'[q].cur = NoRec, UNCHANGED <<store, missed>>
          PROVE  Heard /\ CarriesOne'
        BY <1>3, <2>2, SameHeard DEF HearInv, CarriesOne
    <2>3. CASE post' = [post EXCEPT ![q].todo = @ \ {r}, ![q].pc =
                            IF r = post[q].target THEN "refused"
                            ELSE IF post[q].todo = {r} THEN "done" ELSE "settle"]
                  /\ UNCHANGED <<store, missed>>
        BY <1>0, <2>2, <2>3 DEF PostType
    <2>4. CASE post' = [post EXCEPT ![q].pc = "error"] /\ UNCHANGED <<store, missed>>
        BY <1>0, <2>2, <2>4 DEF PostType
    <2> QED BY <1>1, <2>1, <2>3, <2>4
<1>5. \A s \in Recs : OnItsWay(s) => OnItsWay(s)'
    BY <1>0, <1>3, StaysOnItsWay DEF Lapses
<1>6. \A c \in Calls : waiter # NoWaiter => <<waiter.pass, c>> \in Recs
    BY <1>0 DEF TypeOK, WaiterType, Recs
<1>7. OpenersHear'
    BY <1>0, <1>4, OpenersHeard DEF HearInv
<1>8. WaiterHears'
    BY <1>0, <1>4, <1>5, <1>6, WaiterHeard DEF HearInv
<1> QED BY <1>4, <1>7, <1>8 DEF HearInv

\* A lapse that starts replaces none that anybody is told by.
LEMMA StartLosesNothing ==
    ASSUME TypeOK, LapsesAreDue, NEW j \in Jobs, ~Lapses(j), NEW source, StartLapse(j, source),
           post' = post, NEW r \in Recs, OnItsWay(r)
    PROVE  OnItsWay(r)'
<1>1. \A k \in Jobs : k # j => lapsing'[k] = lapsing[k]
    BY Started
<1>2. lapsing[j].took = {}
    BY DEF LapsesAreDue
<1> QED BY <1>1, <1>2, StaysOnItsWay DEF Lapses

\* A step of a turn that waits for nothing and tells nobody anything.
LEMMA HQuiet ==
    ASSUME Inv, TurnsInv, HearInv, UNCHANGED <<store, missed, waiter, post>>,
           faults' = 0 => faults = 0,
           \/ lapsing' = lapsing
           \/ \E j \in Jobs, source \in Lapsed : ~Lapses(j) /\ StartLapse(j, source)
    PROVE  CarriesOne' /\ WaiterHears' /\ Heard /\ Stored' = Stored
<1>1. CarriesOne' /\ Heard /\ Stored' = Stored
    BY SameHeard, SameStore DEF HearInv, CarriesOne
<1>2. \A r \in Recs : OnItsWay(r) => OnItsWay(r)'
    <2>1. CASE lapsing' = lapsing
        BY <2>1 DEF OnItsWay
    <2>2. ASSUME NEW j \in Jobs, NEW source \in Lapsed, ~Lapses(j), StartLapse(j, source),
                 NEW r \in Recs, OnItsWay(r)
          PROVE  OnItsWay(r)'
        BY <2>2, TParts, StartLosesNothing
    <2> QED BY <2>1, <2>2
<1>3. \A c \in Calls : waiter # NoWaiter => <<waiter.pass, c>> \in Recs
    BY DEF Inv, TypeOK, WaiterType, Recs
<1> QED BY <1>1, <1>2, <1>3, WaiterHeard DEF HearInv

\* A turn's steps that write no record; what a replay re-reads is what is stored.
LEMMA HTurn ==
    ASSUME Inv, TurnsInv, HearInv, NEW t \in Turns, StartTurn(t) \/ Open(t) \/ ResumeFind(t) \/ EndTurn(t) \/ Stop(t)
    PROVE  HearInv'
<1>0. /\ LapsesAreDue /\ TypeOK /\ pc \in [Turns -> PCs] /\ faults \in Nat
      /\ batch \in [Turns -> [pass : 0..MaxPass, asked : [Calls -> Known]]]
      /\ <<t, "own">> \in Jobs /\ <<t, "abort">> \in Jobs
      /\ pc[t] \notin {"retiring", "opening", "ending"} => ~Lapses(<<t, "own">>)
      /\ ~stopped[t] => ~Lapses(<<t, "abort">>)
    BY TParts, JobPairs, ApprovalsAssumption DEF LapsesAreDue, TypeOK
<1>1. UNCHANGED <<store, missed, waiter, post>> /\ (faults' = 0 => faults = 0)
    BY <1>0 DEF StartTurn, Open, ResumeFind, EndTurn, Stop, Call, bounds
<1>2. \/ lapsing' = lapsing
      \/ \E j \in Jobs, source \in Lapsed : ~Lapses(j) /\ StartLapse(j, source)
    BY <1>0 DEF StartTurn, Open, ResumeFind, EndTurn, Stop, Lapsed
<1>3. CarriesOne' /\ WaiterHears' /\ Heard /\ Stored' = Stored
    BY <1>1, <1>2, HQuiet
<1>4. OpenersHear'
    <2>1. CASE StartTurn(t) \/ EndTurn(t) \/ Stop(t)
        <3>1. batch' = batch /\ \A u \in Turns : pc'[u] = pc[u] \/ pc'[u] \notin {"inserting", "parking"}
            BY <1>0, <2>1 DEF StartTurn, EndTurn, Stop
        <3> QED BY <1>3, <3>1, OpenersHeard DEF HearInv
    <2>2. ASSUME \A u \in Turns : u # t => pc'[u] = pc[u] /\ batch'[u] = batch[u],
                 pc'[t] = "opening"
          PROVE  OpenersHear'
        BY <1>1, <1>3, <2>2 DEF HearInv, OpenersHear
    <2>3. CASE Open(t)
        BY <1>0, <2>2, <2>3 DEF Open
    <2>4. CASE ResumeFind(t)
        <3>1. PICK ok \in BOOLEAN :
                  \/ /\ batch' = [batch EXCEPT ![t].asked = Reread(t, View(ok))]
                     /\ pc' = [pc EXCEPT ![t] = "inserting"]
                  \/ /\ batch' = [batch EXCEPT ![t].pass = passes + 1]
                     /\ pc' = [pc EXCEPT ![t] = "opening"]
            BY <2>4 DEF ResumeFind
        <3>2. CASE /\ batch' = [batch EXCEPT ![t].asked = Reread(t, View(ok))]
                   /\ pc' = [pc EXCEPT ![t] = "inserting"]
            <4>1. /\ \A u \in Turns : u # t => pc'[u] = pc[u] /\ batch'[u] = batch[u]
                  /\ batch'[t].pass = batch[t].pass /\ batch'[t].asked = Reread(t, View(ok))
                BY <1>0, <3>2
            <4>2. \A c \in Calls : <<batch[t].pass, c>> \in Recs
                BY <1>0, <2>4, OpenerRec DEF ResumeFind, Inv
            <4>3. ASSUME NEW c \in Calls, Reread(t, View(ok))[c] = "undecided"
                  PROVE  Stored[<<batch[t].pass, c>>] = "pending"
                <5>1. View(ok)[<<batch[t].pass, c>>] = "pending"
                    <6>1. \A r \in Recs : View(ok)[r] \in Outcomes
                        BY <1>0, StoredType DEF TypeOK
                    <6> QED BY <4>2, <4>3, <6>1 DEF Reread, Recalls, Outcomes, Settled, UserVerdict, Lapsed
                <5> QED BY <4>2, <5>1 DEF View, Stored
            <4> QED BY <1>1, <1>3, <4>1, <4>3 DEF HearInv, OpenersHear
        <3>3. CASE /\ batch' = [batch EXCEPT ![t].pass = passes + 1]
                   /\ pc' = [pc EXCEPT ![t] = "opening"]
            BY <1>0, <2>2, <3>3
        <3> QED BY <3>1, <3>2, <3>3
    <2> QED BY <2>1, <2>3, <2>4
<1> QED BY <1>3, <1>4 DEF HearInv

\* What an insert leaves in the stores: the inserted records pending, wherever they are.
LEMMA Inserts ==
    ASSUME TypeOK, NEW S \in SUBSET Recs, \A r \in S : memory[r] = "absent", Insert(S)
    PROVE  /\ \A r \in Recs : Stored'[r] = IF r \in S THEN "pending" ELSE Stored[r]
           /\ faults' = 0 => memory' = memory
<1>1. CASE /\ db' = [r \in Recs |-> IF r \in S THEN "pending" ELSE db[r]]
           /\ UNCHANGED <<memory, faults>>
    BY <1>1 DEF Stored, View
<1>2. CASE /\ Call(FALSE)
           /\ memory' = [r \in Recs |-> IF r \in S THEN "pending" ELSE memory[r]]
           /\ \E W \in SUBSET S : db' = [r \in Recs |-> IF r \in W THEN "pending" ELSE db[r]]
    <2>1. faults' # 0
        BY <1>2, ApprovalsAssumption DEF Call, TypeOK
    <2>2. \A r \in Recs \ S : db'[r] = db[r] /\ memory'[r] = memory[r]
        BY <1>2
    <2>3. \A r \in S : memory'[r] = "pending"
        BY <1>2
    <2> QED BY <2>1, <2>2, <2>3 DEF Stored, View
<1> QED BY <1>1, <1>2 DEF Insert

\* What an opener inserts is pending.
LEMMA HInsert ==
    ASSUME Inv, TurnsInv, HearInv, NEW t \in Turns, InsertMissing(t)
    PROVE  HearInv'
<1> DEFINE S == {<<batch[t].pass, c>> : c \in {d \in Calls : batch[t].asked[d] = "missing"}}
<1>0. /\ TypeOK /\ pc \in [Turns -> PCs] /\ faults \in Nat
      /\ batch \in [Turns -> [pass : 0..MaxPass, asked : [Calls -> Known]]]
      /\ pc[t] = "inserting" /\ UNCHANGED <<waiter, lapsing, post, missed>>
      /\ pc' = [pc EXCEPT ![t] = "parking"] /\ batch' = [batch EXCEPT ![t].asked = AsInserted(@)]
      /\ Insert(S)
    BY ApprovalsAssumption DEF Inv, TypeOK, InsertMissing, PCs
<1>1. /\ S \in SUBSET Recs /\ \A r \in S : memory[r] = "absent"
      /\ \A c \in Calls : <<batch[t].pass, c>> \in Recs
    <2>1. \A c \in Calls : <<batch[t].pass, c>> \in Recs
        BY <1>0, OpenerRec DEF Inv
    <2>2. \A c \in Calls : batch[t].asked[c] = "missing" => memory[<<batch[t].pass, c>>] = "absent"
        BY <1>0 DEF Inv, OpenersAreRight, OpenerIsRight, Fresh
    <2> QED BY <2>1, <2>2
<1>2. \A c \in Calls : batch[t].asked[c] = "missing" => <<batch[t].pass, c>> \in S
    OBVIOUS
<1> HIDE DEF S
<1>3. \A r \in Recs : Stored'[r] = IF r \in S THEN "pending" ELSE Stored[r]
    BY <1>0, <1>1, Inserts
<1>4. Heard /\ CarriesOne' /\ (faults' = 0 => faults = 0)
    BY <1>0, <1>3 DEF Heard, HearInv, CarriesOne, Insert, Call
<1>5. \A u \in Turns : /\ u # t => pc'[u] = pc[u] /\ batch'[u] = batch[u]
                       /\ u = t => batch'[u].pass = batch[u].pass /\ batch'[u].asked = AsInserted(batch[u].asked)
    BY <1>0
<1>6. ASSUME NEW u \in Turns, pc'[u] \in {"inserting", "parking"}, NEW c \in Calls,
             batch'[u].asked[c] = "undecided"
      PROVE  Stored'[<<batch'[u].pass, c>>] = "pending" \/ <<batch'[u].pass, c>> \in missed'
    <2>1. CASE u # t
        <3>1. <<batch[u].pass, c>> \in Recs /\ (Stored[<<batch[u].pass, c>>] = "pending" \/ <<batch[u].pass, c>> \in missed)
            BY <1>0, <1>5, <1>6, <2>1, OpenerRec DEF HearInv, OpenersHear, Inv
        <3> QED BY <1>0, <1>3, <1>5, <2>1, <3>1
    <2>2. CASE u = t
        <3>1. batch[t].asked[c] = "undecided" \/ batch[t].asked[c] = "missing"
            BY <1>5, <1>6, <2>2 DEF AsInserted
        <3>2. CASE batch[t].asked[c] = "undecided"
            BY <1>0, <1>1, <1>3, <1>5, <2>2, <3>2 DEF HearInv, OpenersHear
        <3>3. CASE batch[t].asked[c] = "missing"
            BY <1>1, <1>2, <1>3, <1>5, <2>2, <3>3
        <3> QED BY <3>1, <3>2, <3>3
    <2> QED BY <2>1, <2>2
<1>7. OpenersHear'
    BY <1>6 DEF OpenersHear
<1>8. WaiterHears'
    <2>1. \A r \in Recs : OnItsWay(r) => OnItsWay(r)'
        BY <1>0 DEF OnItsWay
    <2>2. \A c \in Calls : waiter # NoWaiter => <<waiter.pass, c>> \in Recs
        BY <1>0 DEF TypeOK, WaiterType, Recs
    <2> QED BY <1>0, <1>4, <2>1, <2>2, WaiterHeard DEF HearInv
<1> QED BY <1>4, <1>7, <1>8 DEF HearInv

\* A waiter begins with what its opener knows.
LEMMA HPark ==
    ASSUME Inv, TurnsInv, HearInv, NEW t \in Turns, Park(t)
    PROVE  HearInv'
<1>0. /\ TypeOK /\ pc \in [Turns -> PCs] /\ pc[t] = "parking"
      /\ UNCHANGED <<store, missed, batch, post, faults>>
    BY DEF Inv, TypeOK, Park, PCs, bounds
<1>1. CarriesOne' /\ Heard /\ Stored' = Stored
    BY <1>0, SameHeard, SameStore DEF HearInv, CarriesOne
<1>2. \A u \in Turns : pc'[u] = pc[u] \/ pc'[u] \notin {"inserting", "parking"}
    BY <1>0 DEF Park
<1>3. OpenersHear'
    BY <1>0, <1>1, <1>2, OpenersHeard DEF HearInv
<1>4. WaiterHears'
    <2>1. CASE UndecidedIn(batch[t].asked) = {}
        BY <1>0, <2>1, HQuiet DEF Park
    <2>2. CASE UndecidedIn(batch[t].asked) # {}
        <3>1. waiter'.pass = batch[t].pass /\ waiter'.got = batch[t].asked
            BY <2>2 DEF Park
        <3> QED BY <1>0, <1>1, <3>1 DEF WaiterHears, HearInv, OpenersHear
    <2> QED BY <2>1, <2>2
<1> QED BY <1>1, <1>3, <1>4 DEF HearInv

\* After a crash nobody waits.
LEMMA HDown ==
    ASSUME Inv, TurnsInv, HearInv, Crash \/ Salvage \/ \E t \in Turns : Redrive(t)
    PROVE  HearInv'
<1>0. DownIsQuiet /\ TypeOK /\ post \in [Posts -> PostType]
    BY TParts DEF TypeOK
<1>1. waiter' = NoWaiter
    BY <1>0 DEF Crash, Salvage, Redrive, DownIsQuiet
<1>2. \A u \in Turns : pc'[u] \notin {"inserting", "parking"}
    <2>1. CASE Crash
        BY <2>1 DEF Crash
    <2>2. CASE Salvage
        BY <1>0, <2>2 DEF Salvage, DownIsQuiet
    <2>3. ASSUME NEW t \in Turns, Redrive(t) PROVE \A u \in Turns : pc'[u] \notin {"inserting", "parking"}
        BY <1>0, <2>3 DEF Redrive, DownIsQuiet
    <2> QED BY <2>1, <2>2, <2>3
<1>3. \A q \in Posts : post'[q] = post[q] \/ post'[q].cur = NoRec
    <2>1. CASE Crash
        BY <1>0, <2>1 DEF Crash, PostType
    <2> QED BY <2>1 DEF Salvage, Redrive
<1>4. CarriesOne'
    BY <1>3 DEF HearInv, CarriesOne
<1> QED BY <1>1, <1>2, <1>4 DEF HearInv, OpenersHear, WaiterHears

LEMMA HearStep == Inv /\ TurnsInv /\ HearInv /\ [Next]_vars => HearInv'
<1> SUFFICES ASSUME Inv, TurnsInv, HearInv, [Next]_vars PROVE HearInv'
    OBVIOUS
<1>1. CASE UNCHANGED vars
    BY <1>1 DEF vars, bounds, store, HearInv, CarriesOne, OpenersHear, WaiterHears, OnItsWay, Stored, View
<1>2. ASSUME NEW j \in Jobs, LapseFind(j) PROVE HearInv'
    <2>0. /\ TypeOK /\ lapsing \in [Jobs -> LapseType] /\ lapsing[j].pc = "find" /\ faults \in Nat
          /\ UNCHANGED <<store, missed, batch, pc, post, waiter>>
        BY <1>2, ApprovalsAssumption DEF Inv, TypeOK, LapseFind
    <2>1. PICK ok \in BOOLEAN : /\ Call(ok)
                                /\ lapsing' = [lapsing EXCEPT ![j].pc = "settle", ![j].todo = Finds(j, ok)]
        BY <1>2 DEF LapseFind
    <2>2. \A k \in Jobs : /\ lapsing'[k].took = lapsing[k].took /\ lapsing'[k].seen = lapsing[k].seen
                          /\ Lapses(k) => Lapses(k)'
        BY <2>0, <2>1 DEF LapseType, Lapses
    <2>3. \A r \in Recs : OnItsWay(r) => OnItsWay(r)'
        BY <2>0, <2>2, StaysOnItsWay
    <2>4. Heard /\ CarriesOne' /\ (faults' = 0 => faults = 0)
        BY <2>0, <2>1, SameHeard DEF HearInv, CarriesOne, Call
    <2>5. OpenersHear'
        BY <2>0, <2>4, OpenersHeard DEF HearInv
    <2>6. \A c \in Calls : waiter # NoWaiter => <<waiter.pass, c>> \in Recs
        BY <2>0 DEF TypeOK, WaiterType, Recs
    <2>7. WaiterHears'
        BY <2>0, <2>3, <2>4, <2>6, WaiterHeard DEF HearInv
    <2> QED BY <2>4, <2>5, <2>7 DEF HearInv
<1>3. ASSUME NEW j \in Jobs, LapseStep(j) PROVE HearInv'
    BY <1>2, <1>3, HLapseSettle, HLapseDeliver DEF LapseStep
<1>4. ASSUME NEW t \in Turns, StartTurn(t) \/ Open(t) \/ TurnStep(t) \/ Stop(t) \/ EndTurn(t) PROVE HearInv'
    BY <1>4, HTurn, HInsert, HPark DEF TurnStep
<1>5. ASSUME NEW q \in Posts, DecideFind(q) \/ PostStep(q) PROVE HearInv'
    BY <1>5, HDecideFind, HDecideSettle, HDecideDeliver DEF PostStep
<1>6. ASSUME Crash \/ Salvage \/ \E t \in Turns : Redrive(t) PROVE HearInv'
    BY <1>6, HDown
<1> QED BY <1>1, <1>3, <1>4, <1>5, <1>6 DEF Next

\* The decision of a call a turn waits for is on its way to the waiter, unless it
\* fell between the opener's read and its park; where turns do not overlap, or
\* where no database call fails.
THEOREM LostInTheWindow == Spec => [](~Overlap \/ faults = 0 => LostOnlyWhileOpening)
<1>1. Init => HearInv
    BY HearInit
<1>2. Inv /\ TurnsInv /\ HearInv /\ [Next]_vars => HearInv'
    BY HearStep
<1>3. HearInv => (~Overlap \/ faults = 0 => LostOnlyWhileOpening)
    BY DEF HearInv, WaiterHears, LostOnlyWhileOpening, Unheard, Settled, UserVerdict, Lapsed
<1> QED BY <1>1, <1>2, <1>3, Invariance, TurnsStandAlone, PTL DEF Spec
-----------------------------------------------------------------------------
(* OneBatchPending *)

\* What OneBatch says of a turn: everything pending is of its last batch, unless
\* that one has no records yet; what its own lapse has read is all of it.
Covers(t) ==
    /\ \/ Pend \subseteq Of(t)
       \/ pc[t] \in {"opening", "retiring", "resuming", "dead"} /\ \A r \in Of(t) : Stored[r] = "absent"
    /\ lapsing[<<t, "own">>].pc = "settle" => Pend \subseteq lapsing[<<t, "own">>].todo

OneIsOne ==
    /\ \A r \in Recs : memory[r] = "absent"
    /\ \A t \in Turns : Current(t) => Covers(t)
    /\ (\A t \in Turns : ~Current(t)) => Pend = {}
    /\ \A r, s \in Pend : r[1] = s[1]

\* OneBatch is OneIsOne under its own conditions.
LEMMA OneBatchIs == OneBatch <=> (~Overlap /\ faults = 0 => OneIsOne)
BY DEF OneBatch, OneIsOne, Covers

\* Nothing new is pending, or only of the one turn's own batch.
LEMMA OneFollows ==
    ASSUME OneIsOne, \A r \in Recs : memory'[r] = "absent",
           \/ Pend' \subseteq Pend
           \/ \E t \in Turns : Current(t)' /\ Pend' \subseteq Of(t)',
           \A t \in Turns : Current(t)' => Covers(t)',
           (\A t \in Turns : ~Current(t)') => \/ \A t \in Turns : ~Current(t)
                                              \/ Pend' = {}
    PROVE  OneIsOne'
<1>1. \A r, s \in Pend' : r[1] = s[1]
    BY DEF OneIsOne, Of
<1>2. (\A t \in Turns : ~Current(t)') => Pend' = {}
    BY DEF OneIsOne
<1> QED BY <1>1, <1>2 DEF OneIsOne

\* OneBatch is inductive together with Inv and TurnsInv.
LEMMA OneInit == Init => OneBatch
<1> SUFFICES ASSUME Init PROVE OneIsOne
    BY OneBatchIs
<1>1. Pend = {}
    BY DEF Init, Pend, PendingIn, Stored, View
<1>2. \A r \in Recs : memory[r] = "absent"
    BY DEF Init
<1>3. \A t \in Turns : ~Current(t)
    BY DEF Init, Current
<1> QED BY <1>1, <1>2, <1>3 DEF OneIsOne

\* A turn's records after one conditional write: none is there that was not.
LEMMA PendShrinks ==
    ASSUME TypeOK, NEW r \in Recs, NEW outcome \in Settled, Wins(r), Settle(r, outcome),
           \A s \in Recs : memory[s] = "absent"
    PROVE  /\ Pend' = Pend \ {r}
           /\ \A s \in Recs : Stored[s] = "absent" => Stored'[s] = "absent"
           /\ \A s \in Recs : memory'[s] = "absent"
<1>1. /\ Stored[r] = "pending" /\ Stored'[r] = outcome /\ outcome # "pending"
      /\ \A s \in Recs : s # r => Stored'[s] = Stored[s]
    BY SettlesOne
<1>2. memory' = memory
    BY DEF Settle
<1> QED BY <1>1, <1>2 DEF Pend, PendingIn

\* Where turns and lapses stand, and no record appears, a turn covers what it did.
LEMMA CoversLess ==
    ASSUME NEW t \in Turns, Covers(t), Pend' \subseteq Pend,
           \A s \in Recs : Stored[s] = "absent" => Stored'[s] = "absent",
           batch'[t].pass = batch[t].pass,
           \/ pc'[t] = pc[t]
           \/ pc[t] \notin {"opening", "retiring", "resuming", "dead"}
           \/ pc'[t] \in {"opening", "retiring", "resuming", "dead"},
           lapsing'[<<t, "own">>].pc = "settle" => Pend' \subseteq lapsing'[<<t, "own">>].todo
    PROVE  Covers(t)'
BY DEF Covers, Of

\* Nothing is pending any more.
LEMMA ONone ==
    ASSUME Pend' = {}, \A r \in Recs : memory'[r] = "absent"
    PROVE  OneIsOne'
BY DEF OneIsOne, Covers

\* Nobody begins anything, no record appears, and no lapse misses what is pending.
LEMMA OKeeps ==
    ASSUME OneIsOne, \A r \in Recs : memory'[r] = "absent", Pend' \subseteq Pend,
           \A s \in Recs : Stored[s] = "absent" => Stored'[s] = "absent",
           \A t \in Turns : Current(t)' =>
              /\ Current(t) /\ batch'[t].pass = batch[t].pass
              /\ \/ pc'[t] = pc[t]
                 \/ pc[t] \notin {"opening", "retiring", "resuming", "dead"}
                 \/ pc'[t] \in {"opening", "retiring", "resuming", "dead"}
              /\ lapsing'[<<t, "own">>].pc = "settle" => Pend' \subseteq lapsing'[<<t, "own">>].todo,
           \A t \in Turns : Current(t) => Current(t)'
    PROVE  OneIsOne'
<1>1. \A t \in Turns : Current(t)' => Covers(t)'
    BY CoversLess DEF OneIsOne
<1> QED BY <1>1, OneFollows

\* A step that writes no record leaves what is pending.
LEMMA SamePend ==
    ASSUME UNCHANGED store
    PROVE  Pend' = Pend /\ memory' = memory /\ Stored' = Stored
BY SameStore DEF Pend, PendingIn, store

\* A lapse reads all that is pending, and settles nothing else.
LEMMA OLapses ==
    ASSUME Inv, TurnsInv, ~Overlap, faults' = 0, OneIsOne, NEW j \in Jobs, LapseFind(j) \/ LapseSettle(j)
    PROVE  OneIsOne'
<1>0. /\ TypeOK /\ lapsing \in [Jobs -> LapseType] /\ faults \in Nat
      /\ UNCHANGED <<batch, pc>> /\ \A r \in Recs : memory[r] = "absent"
    <2>1. TypeOK /\ faults \in Nat /\ lapsing \in [Jobs -> LapseType]
        BY ApprovalsAssumption DEF Inv, TypeOK
    <2>2. UNCHANGED <<batch, pc>>
        BY DEF LapseFind, LapseSettle
    <2> QED BY <2>1, <2>2 DEF OneIsOne
<1>1. \A t \in Turns : Current(t)' <=> Current(t)
    BY <1>0 DEF Current
<1>2. \A t \in Turns : /\ <<t, "own">> \in Jobs
                       /\ Current(t) /\ lapsing[<<t, "own">>].pc = "settle" => Pend \subseteq lapsing[<<t, "own">>].todo
    BY JobPairs DEF OneIsOne, Covers
<1>3. CASE LapseFind(j)
    <2>1. PICK ok \in BOOLEAN : /\ Call(ok)
                                /\ lapsing' = [lapsing EXCEPT ![j].pc = "settle", ![j].todo = Finds(j, ok)]
        BY <1>3 DEF LapseFind
    <2>2. ok = TRUE
        BY <1>0, <2>1 DEF Call
    <2>3. lapsing'[j].todo = Pend /\ \A k \in Jobs : k # j => lapsing'[k] = lapsing[k]
        BY <1>0, <2>1, <2>2 DEF LapseType, Finds, Pend, Stored
    <2>4. Pend' = Pend /\ memory' = memory /\ Stored' = Stored
        BY <1>3, SamePend DEF LapseFind
    <2> QED BY <1>0, <1>1, <1>2, <2>3, <2>4, OKeeps
<1>4. CASE LapseSettle(j)
    <2>1. PICK r \in lapsing[j].todo :
              \/ /\ Wins(r) /\ Settle(r, lapsing[j].source)
                 /\ lapsing' = [lapsing EXCEPT ![j].todo = @ \ {r}, ![j].took = @ \cup {r}]
              \/ /\ ~Wins(r) /\ UNCHANGED store
                 /\ lapsing' = [lapsing EXCEPT ![j].todo = @ \ {r}]
              \/ Call(FALSE)
        BY <1>4 DEF LapseSettle
    <2>2. ~Call(FALSE)
        BY <1>0 DEF Call
    <2>3. PICK o \in Settled : r \in Recs /\ o = lapsing[j].source
        BY <1>0 DEF LapseType, Settled
    <2>4. lapsing'[j].todo = lapsing[j].todo \ {r} /\ lapsing'[j].pc = lapsing[j].pc
        <3>1. CASE lapsing' = [lapsing EXCEPT ![j].todo = @ \ {r}, ![j].took = @ \cup {r}]
            BY <1>0, <3>1 DEF LapseType
        <3>2. CASE lapsing' = [lapsing EXCEPT ![j].todo = @ \ {r}]
            BY <1>0, <3>2 DEF LapseType
        <3> QED BY <2>1, <2>2, <3>1, <3>2
    <2>5. \A k \in Jobs : k # j => lapsing'[k] = lapsing[k]
        BY <1>0, <2>1, <2>2
    <2>6. /\ Pend' = Pend \ {r} /\ \A s \in Recs : memory'[s] = "absent"
          /\ \A s \in Recs : Stored[s] = "absent" => Stored'[s] = "absent"
        <3>1. CASE Wins(r) /\ Settle(r, lapsing[j].source)
            BY <1>0, <2>3, <3>1, PendShrinks
        <3>2. CASE ~Wins(r) /\ UNCHANGED store
            <4>1. r \notin Pend
                BY <3>2 DEF Wins, Pend, PendingIn
            <4> QED BY <1>0, <3>2, <4>1, SamePend
        <3> QED BY <2>1, <2>2, <3>1, <3>2
    <2>7. \A t \in Turns : Current(t) /\ lapsing'[<<t, "own">>].pc = "settle" =>
              Pend' \subseteq lapsing'[<<t, "own">>].todo
        BY <1>2, <2>4, <2>5, <2>6
    <2> QED BY <1>0, <1>1, <2>6, <2>7, OKeeps
<1> QED BY <1>3, <1>4

\* A delivery wakes a waiting turn, which covers what is pending as before.
LEMMA ODelivers ==
    ASSUME Inv, TurnsInv, ~Overlap, OneIsOne, NEW S \in SUBSET Recs, NEW outcome \in Settled,
           Deliver(S, outcome, pc), UNCHANGED <<store, batch>>,
           \A t \in Turns : lapsing'[<<t, "own">>] = lapsing[<<t, "own">>]
    PROVE  OneIsOne'
<1>0. /\ WaiterWaits /\ pc \in [Turns -> PCs] /\ TypeOK /\ (waiter # NoWaiter => waiter.turn \in Turns)
    BY TParts
<1>1. \A t \in Turns : pc'[t] = pc[t] \/ (pc[t] = "waiting" /\ pc'[t] = "running")
    <2>1. CASE pc' = pc
        BY <2>1
    <2>2. CASE waiter \in WaiterType /\ pc' = [pc EXCEPT ![waiter.turn] = "running"]
        BY <1>0, <2>2, ARecord DEF WaiterWaits
    <2> QED BY <1>0, <2>1, <2>2, Delivers
<1>2. Pend' = Pend /\ memory' = memory /\ Stored' = Stored
    BY SamePend
<1>3. \A t \in Turns : (Current(t)' <=> Current(t)) /\ (pc'[t] = pc[t] \/ pc[t] = "waiting")
    BY <1>1 DEF Current
<1>4. \A r \in Recs : memory[r] = "absent"
    BY DEF OneIsOne
<1>5. \A t \in Turns : Current(t) /\ lapsing'[<<t, "own">>].pc = "settle" => Pend' \subseteq lapsing'[<<t, "own">>].todo
    BY <1>2 DEF OneIsOne, Covers
<1> QED BY <1>2, <1>3, <1>4, <1>5, OKeeps

\* When a turn's own lapse returns, nothing is pending.
LEMMA OLapseDeliver ==
    ASSUME Inv, TurnsInv, ~Overlap, OneIsOne, NEW j \in Jobs, LapseDeliver(j)
    PROVE  OneIsOne'
<1>0. /\ TypeOK /\ lapsing \in [Jobs -> LapseType] /\ LapsesAreDue /\ j[1] \in Turns
      /\ j = <<j[1], "own">> \/ j = <<j[1], "abort">>
      /\ lapsing[j].pc = "settle" /\ lapsing[j].todo = {} /\ lapsing' = [lapsing EXCEPT ![j] = NoLapse]
      /\ UNCHANGED <<store, batch>>
    BY TParts, JobPairs DEF LapseDeliver
<1>1. Pend' = Pend /\ \A r \in Recs : memory'[r] = "absent"
    BY <1>0, SamePend DEF OneIsOne
<1>2. CASE j = <<j[1], "own">>
    <2>1. Current(j[1])
        BY <1>0, <1>2 DEF LapsesAreDue, Lapses, Current
    <2>2. Pend = {}
        BY <1>0, <1>2, <2>1 DEF OneIsOne, Covers
    <2> QED BY <1>1, <2>2, ONone
<1>3. CASE j = <<j[1], "abort">>
    <2>1. j[2] # "own" /\ \A t \in Turns : <<t, "own">> # j /\ <<t, "own">> \in Jobs
        <3>1. PICK u \in Turns : j = <<u, "abort">>
            BY <1>0, <1>3
        <3> QED BY <3>1, JobPairs
    <2>2. Deliver(lapsing[j].took \cup Forces(j), lapsing[j].source, pc)
        BY <2>1 DEF LapseDeliver
    <2>3. PICK S \in SUBSET Recs, o \in Settled : S = lapsing[j].took \cup Forces(j) /\ o = lapsing[j].source
        BY <1>0 DEF LapseType, Forces, Settled
    <2>4. \A t \in Turns : lapsing'[<<t, "own">>] = lapsing[<<t, "own">>]
        BY <1>0, <2>1
    <2> QED BY <1>0, <2>2, <2>3, <2>4, ODelivers
<1> QED BY <1>0, <1>2, <1>3

\* A POST that reads or settles makes nothing pending.
LEMMA OPosts ==
    ASSUME Inv, TurnsInv, ~Overlap, faults' = 0, OneIsOne, NEW q \in Posts, DecideFind(q) \/ DecideSettle(q)
    PROVE  OneIsOne'
<1>0. /\ TypeOK /\ faults \in Nat /\ UNCHANGED <<batch, pc, lapsing>> /\ \A r \in Recs : memory[r] = "absent"
    <2>1. TypeOK /\ faults \in Nat
        BY ApprovalsAssumption DEF Inv, TypeOK
    <2>2. UNCHANGED <<batch, pc, lapsing>>
        BY DEF DecideFind, DecideSettle
    <2> QED BY <2>1, <2>2 DEF OneIsOne
<1>1. /\ Pend' \subseteq Pend /\ \A s \in Recs : memory'[s] = "absent"
      /\ \A s \in Recs : Stored[s] = "absent" => Stored'[s] = "absent"
    <2>1. CASE UNCHANGED store
        BY <1>0, <2>1, SamePend
    <2>2. CASE \E r \in post[q].todo : Wins(r) /\ Settle(r, post[q].verdict)
        <3>1. PICK r \in Recs, o \in Settled : Wins(r) /\ Settle(r, o)
            BY <1>0, <2>2 DEF TypeOK, PostType, Settled
        <3> QED BY <1>0, <3>1, PendShrinks
    <2> QED BY <2>1, <2>2 DEF DecideFind, DecideSettle
<1>2. \A t \in Turns : Current(t)' <=> Current(t)
    BY <1>0 DEF Current
<1>3. \A t \in Turns : Current(t) /\ lapsing'[<<t, "own">>].pc = "settle" => Pend' \subseteq lapsing'[<<t, "own">>].todo
    BY <1>0, <1>1 DEF OneIsOne, Covers
<1> QED BY <1>0, <1>1, <1>2, <1>3, OKeeps

\* A turn opens a batch of its own: nothing of it is stored yet.
LEMMA OOpens ==
    ASSUME Inv, TurnsInv, ~Overlap, OneIsOne, NEW t \in Turns, Current(t), UNCHANGED store,
           pc' = [pc EXCEPT ![t] = "opening"], passes < MaxPass, batch'[t].pass = passes + 1,
           StartLapse(<<t, "own">>, "superseded")
    PROVE  OneIsOne'
<1>0. TypeOK /\ Alone /\ pc \in [Turns -> PCs] /\ <<t, "own">> \in Jobs /\ passes \in Nat
    <2>1. TypeOK /\ Alone /\ pc \in [Turns -> PCs] /\ <<t, "own">> \in Jobs
        BY TParts, JobPairs
    <2> QED BY <2>1, ApprovalsAssumption DEF TypeOK
<1>1. Pend' = Pend /\ Stored' = Stored /\ \A r \in Recs : memory'[r] = "absent"
    BY SamePend DEF OneIsOne
<1>2. \A u \in Turns : u # t => ~Current(u)'
    BY <1>0 DEF Alone, Current
<1>3. Current(t)' /\ pc'[t] = "opening"
    BY <1>0 DEF Current
<1>4. \A r \in Of(t)' : Stored'[r] = "absent"
    <2>1. \A r \in Of(t)' : r \in Recs /\ r[1] = passes + 1
        BY DEF Of
    <2>2. passes + 1 > passes
        BY <1>0
    <2>3. \A r \in Of(t)' : Fresh(r)
        BY <2>1, <2>2 DEF Inv, PassesAreOwn
    <2> QED BY <1>1, <2>1, <2>3 DEF Fresh, Stored, View
<1>5. lapsing'[<<t, "own">>].pc = "find"
    BY <1>0, Started
<1>6. Covers(t)'
    BY <1>3, <1>4, <1>5 DEF Covers
<1> QED BY <1>1, <1>2, <1>3, <1>6, OneFollows

\* An insert makes pending what is of the one turn's own batch.
LEMMA OInsert ==
    ASSUME Inv, TurnsInv, ~Overlap, faults' = 0, OneIsOne, NEW t \in Turns, InsertMissing(t)
    PROVE  OneIsOne'
<1> DEFINE S == {<<batch[t].pass, c>> : c \in {d \in Calls : batch[t].asked[d] = "missing"}}
<1>0. /\ TypeOK /\ pc \in [Turns -> PCs] /\ LapsesAreDue /\ Alone
      /\ batch \in [Turns -> [pass : 0..MaxPass, asked : [Calls -> Known]]]
      /\ pc[t] = "inserting" /\ lapsing' = lapsing
      /\ pc' = [pc EXCEPT ![t] = "parking"] /\ batch' = [batch EXCEPT ![t].asked = AsInserted(@)]
      /\ Insert(S)
    BY TParts DEF InsertMissing
<1>1. S \in SUBSET Recs /\ \A r \in S : r[1] = batch[t].pass
    BY <1>0, OpenerRec DEF Inv
<1>2. \A r \in Recs : memory[r] = "absent"
    BY DEF OneIsOne
<1> HIDE DEF S
<1>3. /\ \A r \in Recs : Stored'[r] = IF r \in S THEN "pending" ELSE Stored[r]
      /\ memory' = memory
    BY <1>0, <1>1, <1>2, Inserts
<1>4. batch'[t].pass = batch[t].pass /\ pc'[t] = "parking" /\ \A u \in Turns : u # t => pc'[u] = pc[u]
    BY <1>0
<1>5. Current(t) /\ Current(t)' /\ \A u \in Turns : u # t => ~Current(u)'
    BY <1>0, <1>4 DEF Current, Alone
<1>6. Pend \subseteq Of(t)
    BY <1>0, <1>5 DEF OneIsOne, Covers
<1>7. Pend' \subseteq Of(t)'
    <2>1. ASSUME NEW r \in Pend' PROVE r \in Recs /\ r[1] = batch[t].pass
        <3>1. r \in Recs /\ Stored'[r] = "pending"
            BY DEF Pend, PendingIn
        <3>2. r \in S \/ r \in Pend
            BY <1>3, <3>1 DEF Pend, PendingIn
        <3> QED BY <1>1, <1>6, <3>1, <3>2 DEF Of
    <2> QED BY <1>4, <2>1 DEF Of
<1>8. ~(lapsing'[<<t, "own">>].pc = "settle")
    BY <1>0 DEF LapsesAreDue, Lapses
<1>9. Covers(t)'
    BY <1>7, <1>8 DEF Covers
<1> QED BY <1>2, <1>3, <1>5, <1>7, <1>9, OneFollows

\* A turn that is not about to open goes on, and its own lapse has read nothing.
LEMMA OGoesOn ==
    ASSUME Inv, OneIsOne, NEW t \in Turns, NEW p \in PCs \ {"new", "over"}, UNCHANGED store,
           Current(t), pc' = [pc EXCEPT ![t] = p], \A u \in Turns : batch'[u].pass = batch[u].pass,
           \/ pc[t] \notin {"opening", "retiring", "resuming", "dead"}
           \/ Pend \subseteq Of(t),
           \A u \in Turns : lapsing'[<<u, "own">>].pc = "settle" => lapsing'[<<u, "own">>] = lapsing[<<u, "own">>]
    PROVE  OneIsOne'
<1>0. pc \in [Turns -> PCs]
    BY DEF Inv, TypeOK, PCs
<1>1. Pend' = Pend /\ Stored' = Stored /\ \A r \in Recs : memory'[r] = "absent"
    BY SamePend DEF OneIsOne
<1>2. \A u \in Turns : pc'[u] = IF u = t THEN p ELSE pc[u]
    BY <1>0
<1>3. \A u \in Turns : Current(u)' <=> Current(u)
    BY <1>2 DEF Current
<1>4. ASSUME NEW u \in Turns, Current(u) PROVE Covers(u)'
    <2>1. Covers(u) /\ batch'[u].pass = batch[u].pass
        BY <1>4 DEF OneIsOne
    <2>2. Of(u)' = Of(u)
        BY <2>1 DEF Of
    <2>3. Pend \subseteq Of(u) \/ (pc'[u] = pc[u] /\ \A r \in Of(u) : Stored[r] = "absent" /\
              pc[u] \in {"opening", "retiring", "resuming", "dead"})
        BY <1>2, <2>1 DEF Covers
    <2> QED BY <1>1, <2>1, <2>2, <2>3 DEF Covers
<1> QED BY <1>1, <1>3, <1>4, OneFollows

\* The other steps of a turn.
LEMMA OTurn ==
    ASSUME Inv, TurnsInv, ~Overlap, faults' = 0, OneIsOne, NEW t \in Turns,
           StartTurn(t) \/ Open(t) \/ ResumeFind(t) \/ EndTurn(t) \/ Stop(t) \/ Park(t)
    PROVE  OneIsOne'
<1>0. /\ TypeOK /\ Alone /\ LapsesAreDue /\ pc \in [Turns -> PCs] /\ UNCHANGED store
      /\ batch \in [Turns -> [pass : 0..MaxPass, asked : [Calls -> Known]]]
      /\ \A u \in Turns : <<u, "own">> \in Jobs /\ <<u, "own">> # <<t, "abort">>
                          /\ (u # t => <<u, "own">> # <<t, "own">>)
      /\ <<t, "abort">> \in Jobs
    BY TParts, JobPairs DEF StartTurn, Open, ResumeFind, EndTurn, Stop, Park
<1>1. Pend' = Pend /\ Stored' = Stored /\ \A r \in Recs : memory'[r] = "absent"
    BY <1>0, SamePend DEF OneIsOne
<1>2. ASSUME StartLapse(<<t, "own">>, "superseded") \/ StartLapse(<<t, "own">>, "turn_ended")
      PROVE  \A u \in Turns : lapsing'[<<u, "own">>].pc = "settle" => lapsing'[<<u, "own">>] = lapsing[<<u, "own">>]
    BY <1>0, <1>2, Started
<1>3. ASSUME lapsing' = lapsing \/ \E b \in LapseType : lapsing' = [lapsing EXCEPT ![<<t, "abort">>] = b]
      PROVE  \A u \in Turns : lapsing'[<<u, "own">>] = lapsing[<<u, "own">>]
    BY <1>0, <1>3 DEF TypeOK
<1>4. CASE StartTurn(t)
    <2>1. \A u \in Turns : ~Current(u)
        BY <1>0, <1>4 DEF StartTurn, Admitted, Current
    <2>2. Pend = {}
        BY <2>1 DEF OneIsOne
    <2> QED BY <1>1, <2>2, ONone
<1>5. CASE Open(t)
    <2>1. /\ pc[t] = "running" /\ passes < MaxPass /\ pc' = [pc EXCEPT ![t] = "opening"]
          /\ StartLapse(<<t, "own">>, "superseded")
        BY <1>5 DEF Open
    <2>2. batch'[t].pass = passes + 1
        BY <1>0, <1>5 DEF Open
    <2>3. Current(t)
        BY <2>1 DEF Current
    <2> QED BY <1>0, <2>1, <2>2, <2>3, OOpens
<1>6. CASE ResumeFind(t)
    <2>1. PICK ok \in BOOLEAN :
              \/ /\ \E c \in Calls : Reread(t, View(ok))[c] \notin {"out", "missing"}
                 /\ batch' = [batch EXCEPT ![t].asked = Reread(t, View(ok))]
                 /\ pc' = [pc EXCEPT ![t] = "inserting"] /\ lapsing' = lapsing
              \/ /\ passes < MaxPass
                 /\ batch' = [batch EXCEPT ![t].pass = passes + 1]
                 /\ pc' = [pc EXCEPT ![t] = "opening"]
                 /\ StartLapse(<<t, "own">>, "superseded")
        BY <1>6 DEF ResumeFind
    <2>2. pc[t] = "resuming" /\ Current(t)
        BY <1>6 DEF ResumeFind, Current
    <2>3. CASE /\ \E c \in Calls : Reread(t, View(ok))[c] \notin {"out", "missing"}
               /\ batch' = [batch EXCEPT ![t].asked = Reread(t, View(ok))]
               /\ pc' = [pc EXCEPT ![t] = "inserting"] /\ lapsing' = lapsing
        <3>1. PICK c \in Calls : Reread(t, View(ok))[c] \notin {"out", "missing"}
            BY <2>3
        <3>2. <<batch[t].pass, c>> \in Recs
            BY <2>2, OpenerRec DEF Inv
        <3>3. View(ok)[<<batch[t].pass, c>>] # "absent"
            BY <3>1 DEF Reread
        <3>4. Stored[<<batch[t].pass, c>>] # "absent"
            BY <3>2, <3>3 DEF Stored, View
        <3>5. Pend \subseteq Of(t)
            BY <2>2, <3>2, <3>4 DEF OneIsOne, Covers, Of
        <3>6. \A u \in Turns : batch'[u].pass = batch[u].pass
            BY <1>0, <2>3
        <3> QED BY <1>0, <2>2, <2>3, <3>5, <3>6, OGoesOn DEF PCs
    <2>4. CASE /\ passes < MaxPass
               /\ batch' = [batch EXCEPT ![t].pass = passes + 1]
               /\ pc' = [pc EXCEPT ![t] = "opening"]
               /\ StartLapse(<<t, "own">>, "superseded")
        <3>1. batch'[t].pass = passes + 1
            BY <1>0, <2>4
        <3> QED BY <1>0, <2>2, <2>4, <3>1, OOpens
    <2> QED BY <2>1, <2>3, <2>4
<1>7. CASE EndTurn(t)
    <2>1. /\ pc[t] = "running" /\ pc' = [pc EXCEPT ![t] = "ending"] /\ batch' = batch
          /\ StartLapse(<<t, "own">>, "turn_ended")
        BY <1>7 DEF EndTurn
    <2>2. Current(t)
        BY <2>1 DEF Current
    <2> QED BY <1>0, <1>2, <2>1, <2>2, OGoesOn DEF PCs
<1>8. CASE Stop(t)
    <2>1. pc' = pc /\ batch' = batch /\ \A u \in Turns : lapsing'[<<u, "own">>] = lapsing[<<u, "own">>]
        <3>1. CASE lapsing' = lapsing
            BY <1>8, <3>1 DEF Stop
        <3>2. CASE StartLapse(<<t, "abort">>, "turn_ended")
            BY <1>0, <1>8, <3>2, Started DEF Stop
        <3> QED BY <1>8, <3>1, <3>2 DEF Stop
    <2>2. \A u \in Turns : Current(u)' <=> Current(u)
        BY <2>1 DEF Current
    <2>3. \A u \in Turns : Current(u) /\ lapsing'[<<u, "own">>].pc = "settle" => Pend' \subseteq lapsing'[<<u, "own">>].todo
        BY <1>1, <2>1 DEF OneIsOne, Covers
    <2> QED BY <1>1, <2>1, <2>2, <2>3, OKeeps
<1>9. CASE Park(t)
    <2>1. /\ pc[t] = "parking" /\ batch' = batch
          /\ \E p \in {"running", "waiting"} : pc' = [pc EXCEPT ![t] = p]
        BY <1>9 DEF Park
    <2>2. \A u \in Turns : lapsing'[<<u, "own">>] = lapsing[<<u, "own">>]
        BY <1>0, <1>9 DEF Park, TypeOK
    <2>3. Current(t)
        BY <2>1 DEF Current
    <2> QED BY <1>0, <2>1, <2>2, <2>3, OGoesOn DEF PCs
<1> QED BY <1>4, <1>5, <1>6, <1>7, <1>8, <1>9

\* A crash, and a boot that salvages all or re-drives the one turn.
LEMMA ODown ==
    ASSUME Inv, TurnsInv, ~Overlap, faults' = 0, OneIsOne, Crash \/ Salvage \/ \E t \in Turns : Redrive(t)
    PROVE  OneIsOne'
<1>0. /\ TypeOK /\ Alone /\ DownIsQuiet /\ faults \in Nat /\ pc \in [Turns -> PCs]
      /\ \A r \in Recs : memory[r] = "absent"
      /\ \A u \in Turns : <<u, "own">> \in Jobs
    <2>1. TypeOK /\ Alone /\ DownIsQuiet /\ pc \in [Turns -> PCs]
        BY TParts
    <2>2. faults \in Nat
        BY <2>1, ApprovalsAssumption DEF TypeOK
    <2> QED BY <2>1, <2>2, JobPairs DEF OneIsOne
<1>1. CASE Crash
    <2>1. /\ db' = db /\ batch' = batch /\ \A r \in Recs : memory'[r] = "absent"
          /\ \A t \in Turns : pc'[t] = IF pc[t] \in {"new", "over"} THEN pc[t] ELSE "dead"
          /\ \A j \in Jobs : lapsing'[j] = NoLapse
        BY <1>1 DEF Crash
    <2>2. \A r \in Recs : Stored'[r] = Stored[r]
        BY <1>0, <2>1 DEF Stored, View
    <2>3. Pend' = Pend
        BY <2>2 DEF Pend, PendingIn
    <2>4. \A t \in Turns : (Current(t)' <=> Current(t)) /\ (Current(t)' => pc'[t] = "dead")
        BY <2>1 DEF Current
    <2>5. \A t \in Turns : lapsing'[<<t, "own">>].pc # "settle"
        <3>1. \A t \in Turns : lapsing'[<<t, "own">>] = NoLapse
            BY <1>0, <2>1
        <3>2. NoLapse.pc # "settle"
            BY DEF NoLapse
        <3> QED BY <3>1, <3>2
    <2> QED BY <2>1, <2>2, <2>3, <2>4, <2>5, OKeeps
<1>2. CASE Salvage
    <2>1. PICK S \in SUBSET Pend : /\ Call(S = Pend)
                                   /\ db' = [r \in Recs |-> IF r \in S THEN "turn_ended" ELSE db[r]]
        BY <1>2 DEF Salvage, Pend
    <2>2. S = Pend /\ memory' = memory
        BY <1>0, <1>2, <2>1 DEF Call, Salvage
    <2>3. \A r \in Recs : Stored'[r] = IF r \in Pend THEN "turn_ended" ELSE Stored[r]
        BY <1>0, <2>1, <2>2 DEF Stored, View
    <2>4. Pend' = {}
        BY <2>3 DEF Pend, PendingIn
    <2> QED BY <1>0, <2>2, <2>4, ONone
<1>3. ASSUME NEW t \in Turns, Redrive(t) PROVE OneIsOne'
    <2>1. PICK p \in {"resuming", "retiring"} :
              /\ pc' = [u \in Turns |-> IF u = t THEN p ELSE IF pc[u] = "dead" THEN "over" ELSE pc[u]]
              /\ lapsing' = lapsing \/ StartLapse(<<t, "own">>, "superseded")
        BY <1>3 DEF Redrive
    <2>2. /\ pc[t] = "dead" /\ Current(t) /\ UNCHANGED store
          /\ \A u \in Turns : ~Lapses(<<u, "own">>) /\ pc[u] \in {"new", "over", "dead"}
        BY <1>0, <1>3 DEF Redrive, Current, DownIsQuiet
    <2>3. \A u \in Turns : batch'[u].pass = batch[u].pass
        <3>1. batch \in [Turns -> [pass : 0..MaxPass, asked : [Calls -> Known]]]
            BY <1>0 DEF TypeOK
        <3>2. CASE batch' = batch
            BY <3>2
        <3>3. CASE \E a : batch' = [batch EXCEPT ![t].asked = a]
            BY <3>1, <3>3
        <3> QED BY <1>3, <3>2, <3>3 DEF Redrive
    <2>4. pc'[t] = p /\ \A u \in Turns : u # t => ~Current(u)' /\ ~Current(u)
        BY <1>0, <2>1, <2>2 DEF Current, Alone
    <2>5. \A u \in Turns : lapsing'[<<u, "own">>].pc # "settle"
        BY <1>0, <2>1, <2>2, Started DEF Lapses
    <2>6. Pend' = Pend /\ Stored' = Stored /\ memory' = memory
        BY <2>2, SamePend
    <2>7. \A u \in Turns : (Current(u)' <=> Current(u)) /\ (Current(u)' => pc'[u] \in {"resuming", "retiring"})
        BY <2>2, <2>4 DEF Current
    <2> QED BY <1>0, <2>3, <2>5, <2>6, <2>7, OKeeps
<1> QED BY <1>1, <1>2, <1>3

LEMMA OneStep == Inv /\ TurnsInv /\ OneBatch /\ [Next]_vars => OneBatch'
<1> SUFFICES ASSUME Inv, TurnsInv, ~Overlap, faults' = 0, OneBatch, [Next]_vars PROVE OneIsOne'
    BY OneBatchIs DEF OneBatch, OneIsOne, Covers
<1>1. faults = 0
    <2>1. faults \in Nat
        BY ApprovalsAssumption DEF Inv, TypeOK
    <2>2. ASSUME NEW j \in Jobs, LapseStep(j) PROVE faults' = faults \/ faults' = faults + 1
        BY <2>2 DEF LapseStep, LapseFind, LapseSettle, LapseDeliver, Call, bounds
    <2>3. ASSUME NEW t \in Turns, StartTurn(t) \/ Open(t) \/ TurnStep(t) \/ Stop(t) \/ EndTurn(t)
          PROVE  faults' = faults \/ faults' = faults + 1
        BY <2>3 DEF StartTurn, Open, TurnStep, Stop, EndTurn, ResumeFind, InsertMissing, Insert, Park, Call, bounds
    <2>4. ASSUME NEW q \in Posts, DecideFind(q) \/ PostStep(q) PROVE faults' = faults \/ faults' = faults + 1
        BY <2>4 DEF PostStep, DecideFind, DecideSettle, DecideDeliver, Call, bounds
    <2>5. ASSUME UNCHANGED vars \/ Crash \/ Salvage \/ \E t \in Turns : Redrive(t)
          PROVE  faults' = faults \/ faults' = faults + 1
        BY <2>5 DEF vars, bounds, Crash, Salvage, Redrive, Call
    <2>6. faults' = faults \/ faults' = faults + 1
        BY <2>2, <2>3, <2>4, <2>5 DEF Next
    <2> QED BY <2>1, <2>6
<1>2. OneIsOne
    BY <1>1, OneBatchIs
<1>3. CASE UNCHANGED vars
    BY <1>2, <1>3, SamePend DEF vars, OneIsOne, Covers, Of, Current
<1>4. ASSUME NEW j \in Jobs, LapseStep(j) PROVE OneIsOne'
    BY <1>2, <1>4, OLapses, OLapseDeliver DEF LapseStep
<1>5. ASSUME NEW t \in Turns, StartTurn(t) \/ Open(t) \/ TurnStep(t) \/ Stop(t) \/ EndTurn(t) PROVE OneIsOne'
    BY <1>2, <1>5, OTurn, OInsert DEF TurnStep
<1>6. ASSUME NEW q \in Posts, DecideDeliver(q) PROVE OneIsOne'
    <2>1. /\ Deliver(HandsOver(q), post[q].verdict, pc) /\ UNCHANGED <<store, batch, lapsing>>
          /\ post[q].cur \in Recs /\ post[q].verdict \in Settled
        BY <1>6 DEF DecideDeliver, Inv, TypeOK, PostType, HandlersAreRight, Settled
    <2>2. PICK S \in SUBSET Recs, o \in Settled : S = HandsOver(q) /\ o = post[q].verdict
        BY <2>1 DEF HandsOver
    <2> QED BY <1>2, <2>1, <2>2, ODelivers
<1>7. ASSUME NEW q \in Posts, DecideFind(q) \/ PostStep(q) PROVE OneIsOne'
    BY <1>2, <1>6, <1>7, OPosts DEF PostStep
<1>8. ASSUME Crash \/ Salvage \/ \E t \in Turns : Redrive(t) PROVE OneIsOne'
    BY <1>2, <1>8, ODown
<1> QED BY <1>3, <1>4, <1>5, <1>7, <1>8 DEF Next

\* Short of a failed write or an overlapping turn, no two batches are ever both
\* pending, through lapses, stops, crashes and restarts.
THEOREM BatchesComeOneByOne == Spec => []OneBatchPending
<1>1. Init => OneBatch
    BY OneInit
<1>2. Inv /\ TurnsInv /\ OneBatch /\ [Next]_vars => OneBatch'
    BY OneStep
<1>3. OneBatch => OneBatchPending
    BY DEF OneBatch, OneBatchPending, Pend
<1> QED BY <1>1, <1>2, <1>3, Invariance, TurnsStandAlone, PTL DEF Spec
=============================================================================
