---------------------------- MODULE VaultDb_proofs ----------------------------
(* What concurrent calls can do to each other's writes, for any number of   *)
(* calls, requests and crashes.                                             *)
EXTENDS VaultDb, FiniteSetTheorems, TLAPS

(***************************************************************************)
(* The inductive invariant.  Two calls that are under way have met, so the *)
(* one whose exit rolls back is known to all who lose something by it.  An *)
(* executed statement is in the connection's view of the vault until then, *)
(* and a transaction is open only while such a statement's call is.        *)
(***************************************************************************)
Shape ==
    /\ call \in [Call -> [stage : Stage, request : Request \cup {NoRequest}, raised : BOOLEAN]]
    /\ company \in [Call -> SUBSET Call]
    /\ queue \in Seq(Call)

Met == \A t, u \in UnderWay : t # u => u \in company[t]

\* Somebody who overlapped with t was refused.
Spoiled(t) == \E u \in company[t] : call[u].stage = "refused"

Executed(t) == call[t].stage \in {"fetch", "close", "exit"}

ExecutedIsInWork ==
    \A t \in Call : Executed(t) /\ ~call[t].raised => t \in work.writes \/ Spoiled(t)

AnsweredIsInSaved ==
    \A t \in Call : call[t].stage = "answered" => t \in saved.writes \/ Spoiled(t)

WorkExtendsSaved == saved.writes \subseteq work.writes

Transaction ==
    /\ open => \E t \in Call : Executed(t)
    /\ ~open => work = saved

RefsInside(v) == v.refs \subseteq v.nodes \X v.nodes

LossInv == Shape /\ Met /\ ExecutedIsInWork /\ AnsweredIsInSaved /\ WorkExtendsSaved

LingerInv == Shape /\ Transaction

RefsInv == RefsInside(work) /\ RefsInside(saved)

-----------------------------------------------------------------------------
\* Where the next job of a call leads to.
LEMMA FollowingStages ==
    ASSUME NEW t \in Call, call[t].stage \in {"enter", "cursor", "execute", "fetch", "close"}
    PROVE  /\ call[t].stage = "enter" => Following(t) = "cursor"
           /\ call[t].stage = "cursor" => Following(t) = "execute"
           /\ call[t].stage = "execute" => Following(t) \in {"fetch", "close"}
           /\ call[t].stage = "fetch" => Following(t) = "close"
           /\ call[t].stage = "close" => Following(t) = "exit"
BY DEF Following, Steps

\* The queue's parts are what they should be.
LEMMA HeadIsCall ==
    ASSUME Shape, queue # <<>>
    PROVE  Head(queue) \in Call /\ Tail(queue) \in Seq(Call)
BY DEF Shape

LEMMA ShapeHolds == ASSUME Shape, [Next]_vars PROVE Shape'
<1>1. CASE UNCHANGED vars
  BY <1>1 DEF Shape, vars
<1>2. ASSUME NEW t \in Call, NEW r \in Request, Arrive(t, r) PROVE Shape'
  <2>1. call' \in [Call -> [stage : Stage, request : Request \cup {NoRequest}, raised : BOOLEAN]]
    BY <1>2 DEF Arrive, Shape, Stage
  <2>2. company' \in [Call -> SUBSET Call]
    BY <1>2 DEF Arrive, Shape, UnderWay
  <2>3. queue' \in Seq(Call)
    BY <1>2 DEF Arrive, Shape
  <2> QED BY <2>1, <2>2, <2>3 DEF Shape
<1>3. CASE Proceed
  <2>1. Head(queue) \in Call /\ queue' \in Seq(Call)
    BY <1>3, HeadIsCall DEF Proceed, Requeue
  <2>2. Following(Head(queue)) \in Stage
    BY <1>3, <2>1, FollowingStages DEF Proceed, Stage
  <2>3. call' \in [Call -> [stage : Stage, request : Request \cup {NoRequest}, raised : BOOLEAN]]
    BY <1>3, <2>1, <2>2 DEF Proceed, Shape
  <2> QED BY <1>3, <2>1, <2>3 DEF Shape, Proceed
<1>4. CASE Execute
  <2>1. Head(queue) \in Call /\ queue' \in Seq(Call)
    BY <1>4, HeadIsCall DEF Execute, Requeue
  <2>2. Following(Head(queue)) \in Stage
    BY <1>4, <2>1, FollowingStages DEF Execute, Stage
  <2>3. Succeeds(work, call[Head(queue)].request) \in BOOLEAN
    BY DEF Succeeds
  <2>4. PICK fine \in BOOLEAN :
          call' = [call EXCEPT ![Head(queue)].stage = IF fine THEN Following(Head(queue)) ELSE "close",
                               ![Head(queue)].raised = ~fine]
    BY <1>4, <2>3 DEF Execute
  <2>5. call' \in [Call -> [stage : Stage, request : Request \cup {NoRequest}, raised : BOOLEAN]]
    <3>1. PICK stage \in Stage : stage = IF fine THEN Following(Head(queue)) ELSE "close"
      BY <2>2 DEF Stage
    <3>2. PICK raised \in BOOLEAN : raised = ~fine
      OBVIOUS
    <3>3. call' = [call EXCEPT ![Head(queue)].stage = stage, ![Head(queue)].raised = raised]
      BY <2>4, <3>1, <3>2
    <3> QED BY <2>1, <3>3 DEF Shape
  <2> QED BY <1>4, <2>1, <2>5 DEF Shape, Execute
<1>5. CASE Exit
  <2>1. Head(queue) \in Call /\ queue' \in Seq(Call)
    BY <1>5, HeadIsCall DEF Exit
  <2>2. Verdict(Head(queue)) \in Stage
    BY DEF Verdict, Stage
  <2>3. call' = [call EXCEPT ![Head(queue)].stage = Verdict(Head(queue))]
    BY <1>5 DEF Exit
  <2>4. call' \in [Call -> [stage : Stage, request : Request \cup {NoRequest}, raised : BOOLEAN]]
    BY <2>1, <2>2, <2>3 DEF Shape
  <2> QED BY <1>5, <2>1, <2>4 DEF Shape, Exit
<1>6. CASE Crash
  BY <1>6 DEF Crash, Shape, Stage
<1> QED BY <1>1, <1>2, <1>3, <1>4, <1>5, <1>6 DEF Next, Job

-----------------------------------------------------------------------------
(* Losses.                                                                 *)

\* Who is under way, and what a call's step does to that.
LEMMA UnderWayStages ==
    \A t \in Call : t \in UnderWay <=>
        call[t].stage \in {"enter", "cursor", "execute", "fetch", "close", "exit"}
BY DEF UnderWay

\* A step of one call's that keeps it under way, or ends it, preserves Met.
LEMMA MetHolds == ASSUME Shape, Met, [Next]_vars PROVE Met'
<1>1. CASE UNCHANGED vars
  BY <1>1 DEF Met, UnderWay, vars
<1>2. ASSUME NEW t \in Call, NEW r \in Request, Arrive(t, r) PROVE Met'
  <2>1. UnderWay' = UnderWay \cup {t}
    BY <1>2 DEF Arrive, UnderWay, Shape
  <2>2. t \notin UnderWay
    BY <1>2 DEF Arrive, UnderWay
  <2>3. \A u \in Call : company'[u] = IF u = t THEN UnderWay
                                      ELSE IF u \in UnderWay THEN company[u] \cup {t}
                                      ELSE company[u]
    BY <1>2 DEF Arrive
  <2>4. UnderWay \subseteq Call
    BY DEF UnderWay
  <2> QED BY <2>1, <2>2, <2>3, <2>4 DEF Met
<1>3. ASSUME UnderWay' \subseteq UnderWay, company' = company PROVE Met'
  BY <1>3 DEF Met
<1>4. CASE Proceed
  <2>1. Head(queue) \in Call
    BY <1>4, HeadIsCall DEF Proceed
  <2>2. UnderWay' \subseteq UnderWay
    BY <1>4, <2>1 DEF Proceed, UnderWay, Shape
  <2> QED BY <1>3, <1>4, <2>2 DEF Proceed
<1>5. CASE Execute
  <2>1. Head(queue) \in Call
    BY <1>5, HeadIsCall DEF Execute
  <2>2. /\ call[Head(queue)].stage = "execute"
        /\ \A u \in Call : u # Head(queue) => call'[u] = call[u]
    BY <1>5, <2>1 DEF Execute, Shape
  <2>3. UnderWay' \subseteq UnderWay
    BY <2>2 DEF UnderWay
  <2> QED BY <1>3, <1>5, <2>3 DEF Execute
<1>6. CASE Exit
  <2>1. Head(queue) \in Call
    BY <1>6, HeadIsCall DEF Exit
  <2>2. /\ call[Head(queue)].stage = "exit"
        /\ \A u \in Call : u # Head(queue) => call'[u] = call[u]
    BY <1>6, <2>1 DEF Exit, Shape
  <2>3. UnderWay' \subseteq UnderWay
    BY <2>2 DEF UnderWay
  <2> QED BY <1>3, <1>6, <2>3 DEF Exit
<1>7. CASE Crash
  <2>1. UnderWay' \subseteq UnderWay
    <3>1. \A t \in Call : call'[t] = IF t \in UnderWay THEN [call[t] EXCEPT !.stage = "lost"]
                                    ELSE call[t]
      BY <1>7 DEF Crash
    <3>2. \A t \in Call : t \notin UnderWay => t \notin UnderWay'
      BY <3>1 DEF UnderWay
    <3> QED BY <3>2 DEF UnderWay
  <2> QED BY <1>3, <1>7, <2>1 DEF Crash
<1> QED BY <1>1, <1>2, <1>4, <1>5, <1>6, <1>7 DEF Next, Job

\* A refusal stays, and so does the company of a call that has begun.
LEMMA SpoiledForGood ==
    ASSUME Shape, [Next]_vars, NEW t \in Call, Spoiled(t), call[t].stage # "idle"
    PROVE  Spoiled(t)'
<1>1. PICK u \in company[t] : call[u].stage = "refused"
  BY DEF Spoiled
<1>2. u \in Call
  BY <1>1 DEF Shape
<1>3. CASE UNCHANGED vars
  BY <1>1, <1>3 DEF Spoiled, vars
<1>4. ASSUME NEW v \in Call, NEW r \in Request, Arrive(v, r) PROVE Spoiled(t)'
  <2>1. v # t /\ v # u
    BY <1>1, <1>4 DEF Arrive
  <2>2. call'[u] = call[u]
    BY <1>2, <1>4, <2>1 DEF Arrive, Shape
  <2>3. u \in company'[t]
    BY <1>1, <1>4, <2>1 DEF Arrive
  <2> QED BY <1>1, <2>2, <2>3 DEF Spoiled
<1>5. ASSUME call'[u] = call[u], company' = company PROVE Spoiled(t)'
  BY <1>1, <1>5 DEF Spoiled
<1>6. CASE Proceed
  <2>1. Head(queue) \in Call /\ Head(queue) # u
    BY <1>1, <1>6, HeadIsCall DEF Proceed
  <2> QED BY <1>2, <1>5, <1>6, <2>1 DEF Proceed, Shape
<1>7. CASE Execute
  <2>1. Head(queue) \in Call /\ Head(queue) # u
    BY <1>1, <1>7, HeadIsCall DEF Execute
  <2>2. call'[u] = call[u]
    BY <1>2, <1>7, <2>1 DEF Execute, Shape
  <2> QED BY <1>5, <1>7, <2>2 DEF Execute
<1>8. CASE Exit
  <2>1. Head(queue) \in Call /\ Head(queue) # u
    BY <1>1, <1>8, HeadIsCall DEF Exit
  <2>2. call'[u] = call[u]
    BY <1>2, <1>8, <2>1 DEF Exit, Shape
  <2> QED BY <1>5, <1>8, <2>2 DEF Exit
<1>9. CASE Crash
  <2>1. u \notin UnderWay
    BY <1>1 DEF UnderWay
  <2> QED BY <1>2, <1>5, <1>9, <2>1 DEF Crash
<1> QED BY <1>3, <1>4, <1>6, <1>7, <1>8, <1>9 DEF Next, Job

-----------------------------------------------------------------------------
LEMMA LossInvInit == ASSUME RequestsAssumption, Init PROVE LossInv
<1>1. Shape
  BY DEF Init, Shape, Stage
<1>2. Met /\ ExecutedIsInWork /\ AnsweredIsInSaved
  BY DEF Init, Met, UnderWay, ExecutedIsInWork, AnsweredIsInSaved, Executed
<1>3. WorkExtendsSaved
  BY DEF Init, WorkExtendsSaved
<1> QED BY <1>1, <1>2, <1>3 DEF LossInv

\* A statement that was executed and not undone.
Intact(t) == Executed(t) /\ ~call[t].raised => t \in work.writes \/ Spoiled(t)

Kept(t) == call[t].stage = "answered" => t \in saved.writes \/ Spoiled(t)

LEMMA LossInvStep == ASSUME LossInv, [Next]_vars PROVE LossInv'
<1> USE DEF LossInv
<1>1. Shape' /\ Met'
  BY ShapeHolds, MetHolds
<1>grow. WorkExtendsSaved'
  <2>1. CASE Execute
    BY <2>1 DEF Execute, Execution, WorkExtendsSaved
  <2>2. CASE Exit
    BY <2>2 DEF Exit, Undone, WorkExtendsSaved
  <2>3. CASE Crash
    BY <2>3 DEF Crash, Recovered, WorkExtendsSaved
  <2> QED BY <2>1, <2>2, <2>3 DEF Next, Job, Arrive, Proceed, WorkExtendsSaved, vars
<1>2. \A t \in Call : Intact(t) /\ Kept(t)
  BY DEF Intact, Kept, ExecutedIsInWork, AnsweredIsInSaved
<1>3. \A t \in Call : Spoiled(t) /\ call[t].stage # "idle" => Spoiled(t)'
  BY SpoiledForGood
<1>4. SUFFICES ASSUME NEW t \in Call PROVE Intact(t)' /\ Kept(t)'
  BY <1>1, <1>grow DEF Intact, Kept, ExecutedIsInWork, AnsweredIsInSaved
<1>5. ASSUME call'[t] = call[t], work' = work, saved' = saved
      PROVE  Intact(t)' /\ Kept(t)'
  BY <1>2, <1>3, <1>5 DEF Intact, Kept, Executed
<1>6. CASE UNCHANGED vars
  BY <1>5, <1>6 DEF vars
<1>7. ASSUME NEW v \in Call, NEW r \in Request, Arrive(v, r)
      PROVE  Intact(t)' /\ Kept(t)'
  <2>1. CASE v = t
    <3>1. call'[t].stage = "enter"
      BY <1>7, <2>1 DEF Arrive, Shape
    <3> QED BY <1>7, <3>1 DEF Intact, Kept, Executed, Arrive
  <2>2. CASE v # t
    BY <1>5, <1>7, <2>2 DEF Arrive, Shape
  <2> QED BY <2>1, <2>2
<1>8. CASE Proceed
  <2> DEFINE h == Head(queue)
  <2>1. h \in Call /\ call[h].stage \in {"enter", "cursor", "fetch", "close"}
    BY <1>8, HeadIsCall DEF Proceed
  <2>2. call' = [call EXCEPT ![h].stage = Following(h)] /\ work' = work /\ saved' = saved
    BY <1>8 DEF Proceed
  <2>3. CASE t = h
    <3>1. call'[t].stage = Following(t) /\ call'[t].raised = call[t].raised
      BY <2>1, <2>2, <2>3 DEF Shape
    <3>2. /\ call'[t].stage # "answered"
          /\ Executed(t)' => Executed(t)
      BY <2>1, <2>3, <3>1, FollowingStages DEF Executed
    <3>3. Spoiled(t) => Spoiled(t)'
      BY <1>3, <2>1, <2>3
    <3> QED BY <1>2, <2>2, <3>1, <3>2, <3>3 DEF Intact, Kept
  <2>4. CASE t # h
    BY <1>5, <2>1, <2>2, <2>4 DEF Shape
  <2> QED BY <2>3, <2>4
<1>9. CASE Execute
  <2> DEFINE h == Head(queue)
             fine == Succeeds(work, call[h].request)
  <2>1. h \in Call /\ call[h].stage = "execute"
    BY <1>9, HeadIsCall DEF Execute
  <2>2. /\ work' = IF fine THEN Execution(work, h, call[h].request) ELSE work
        /\ saved' = saved
        /\ call' = [call EXCEPT ![h].stage = IF fine THEN Following(h) ELSE "close",
                                ![h].raised = ~fine]
    BY <1>9 DEF Execute
  <2>3. /\ work.writes \subseteq work'.writes
        /\ fine => h \in work'.writes
    BY <2>2 DEF Execution
  <2>5. CASE t = h
    <3>1. call'[t].stage \in {"fetch", "close"}
      <4>1. call'[t].stage = IF fine THEN Following(h) ELSE "close"
        BY <2>1, <2>2, <2>5 DEF Shape
      <4> QED BY <2>1, <4>1, FollowingStages
    <3>2. call'[t].raised = ~fine
      BY <2>1, <2>2, <2>5 DEF Shape
    <3> QED BY <2>3, <2>5, <3>1, <3>2 DEF Intact, Kept
  <2>6. CASE t # h
    <3>1. call'[t] = call[t]
      BY <2>1, <2>2, <2>6 DEF Shape
    <3>2. Executed(t) => call[t].stage # "idle"
      BY DEF Executed
    <3>3. Intact(t)'
      BY <1>2, <1>3, <2>3, <3>1, <3>2 DEF Intact, Executed
    <3>4. Kept(t)'
      BY <1>2, <1>3, <2>2, <3>1 DEF Kept
    <3> QED BY <3>3, <3>4
  <2> QED BY <2>5, <2>6
<1>10. CASE Exit
  <2> DEFINE h == Head(queue)
  <2>1. h \in Call /\ call[h].stage = "exit"
    BY <1>10, HeadIsCall DEF Exit
  <2>2. /\ work' = IF RollsBack(h) THEN saved ELSE work
        /\ saved' = IF RollsBack(h) THEN saved ELSE work
        /\ call' = [call EXCEPT ![h].stage = Verdict(h)]
        /\ company' = company
    BY <1>10 DEF Exit, Undone
  <2>4. saved.writes \subseteq saved'.writes
    BY <2>2 DEF WorkExtendsSaved
  <2>5. CASE t = h
    <3>1. call'[t].stage = IF RollsBack(t) THEN "refused" ELSE "answered"
      BY <2>1, <2>2, <2>5 DEF Shape, Verdict
    <3>2. Intact(t)'
      BY <3>1 DEF Intact, Executed
    <3>3. Kept(t)'
      <4>1. CASE RollsBack(t)
        BY <3>1, <4>1 DEF Kept
      <4>2. CASE ~RollsBack(t)
        <5>1. Executed(t) /\ ~call[t].raised
          BY <2>1, <2>5, <4>2 DEF RollsBack, Executed
        <5>2. t \in work.writes \/ Spoiled(t)
          BY <1>2, <5>1 DEF Intact
        <5>3. Spoiled(t) => Spoiled(t)'
          BY <1>3, <2>1, <2>5
        <5> QED BY <2>2, <2>5, <4>2, <5>2, <5>3 DEF Kept
      <4> QED BY <4>1, <4>2
    <3> QED BY <3>2, <3>3
  <2>6. CASE t # h
    <3>1. call'[t] = call[t]
      BY <2>1, <2>2, <2>6 DEF Shape
    <3>2. Kept(t)'
      BY <1>2, <1>3, <2>4, <3>1 DEF Kept
    <3>3. Intact(t)'
      <4>1. SUFFICES ASSUME Executed(t), ~call[t].raised PROVE (t \in work.writes)' \/ Spoiled(t)'
        BY <3>1 DEF Intact, Executed
      <4>2. CASE ~RollsBack(h)
        <5>1. work' = work
          BY <2>2, <4>2
        <5> QED BY <1>2, <1>3, <4>1, <5>1 DEF Intact, Executed
      <4>3. CASE RollsBack(h)
        <5>1. h \in company[t]
          BY <2>1, <2>6, <4>1 DEF Met, UnderWay, Executed
        <5>2. call'[h].stage = "refused"
          BY <2>1, <2>2, <4>3 DEF Shape, Verdict
        <5> QED BY <2>2, <5>1, <5>2 DEF Spoiled
      <4> QED BY <4>2, <4>3
    <3> QED BY <3>2, <3>3
  <2> QED BY <2>5, <2>6
<1>11. CASE Crash
  <2>1. /\ work' = saved /\ saved' = saved
        /\ call'[t] = IF t \in UnderWay THEN [call[t] EXCEPT !.stage = "lost"] ELSE call[t]
    BY <1>11 DEF Crash, Recovered
  <2>3. CASE t \in UnderWay
    <3>1. call'[t].stage = "lost"
      BY <2>1, <2>3 DEF Shape
    <3> QED BY <3>1 DEF Intact, Kept, Executed
  <2>4. CASE t \notin UnderWay
    <3>1. call'[t] = call[t] /\ ~Executed(t)
      BY <2>1, <2>4 DEF UnderWay, Executed
    <3> QED BY <1>2, <1>3, <2>1, <3>1 DEF Intact, Kept, Executed
  <2> QED BY <2>3, <2>4
<1> QED BY <1>6, <1>7, <1>8, <1>9, <1>10, <1>11 DEF Next, Job

\* A write that was reported as done is committed, unless a call that
\* overlapped with it was refused: state.py's methods lose nothing to calls
\* that succeed, to calls before or after them, or to a crash.
THEOREM LossesNeedRefusals == Spec => []LossNeedsRefusal
<1>1. LossInv => LossNeedsRefusal
  BY DEF LossInv, LossNeedsRefusal, AnsweredIsInSaved, Spoiled
<1>2. Init => LossInv
  BY LossInvInit, RequestsAssumption
<1>3. LossInv /\ [Next]_vars => LossInv'
  BY LossInvStep
<1> QED BY <1>1, <1>2, <1>3, PTL DEF Spec

\* A commit is for good: no rollback and no crash removes a committed write.
THEOREM CommitsAreForGood == Spec => SavedForGood
<1>1. LossInv /\ [Next]_vars => [saved.writes \subseteq saved'.writes]_vars
  <2>1. SUFFICES ASSUME LossInv, Next PROVE saved.writes \subseteq saved'.writes
    OBVIOUS
  <2>2. CASE Exit
    BY <2>1, <2>2 DEF Exit, Undone, LossInv, WorkExtendsSaved
  <2>3. CASE Crash
    BY <2>3 DEF Crash, Recovered
  <2> QED BY <2>1, <2>2, <2>3 DEF Next, Job, Arrive, Proceed, Execute
<1>2. Init => LossInv
  BY LossInvInit, RequestsAssumption
<1>3. LossInv /\ [Next]_vars => LossInv'
  BY LossInvStep
<1> QED BY <1>1, <1>2, <1>3, PTL DEF Spec, SavedForGood

-----------------------------------------------------------------------------
(* Transactions and references.                                            *)

LEMMA TransactionStep == ASSUME LingerInv, [Next]_vars PROVE Transaction'
<1> USE DEF LingerInv
<1>1. CASE UNCHANGED vars
  BY <1>1 DEF Transaction, Executed, vars
<1>2. ASSUME NEW v \in Call, NEW r \in Request, Arrive(v, r) PROVE Transaction'
  <2>1. \A t \in Call : Executed(t) => Executed(t)'
    BY <1>2 DEF Arrive, Executed, Shape
  <2> QED BY <1>2, <2>1 DEF Transaction, Arrive
<1>3. CASE Proceed
  <2>1. PICK h \in Call : h = Head(queue)
    BY <1>3, HeadIsCall DEF Proceed
  <2>2. /\ call[h].stage \in {"enter", "cursor", "fetch", "close"}
        /\ call' = [call EXCEPT ![h].stage = Following(h)]
    BY <1>3, <2>1 DEF Proceed
  <2>3. \A t \in Call : t # h => (Executed(t) => Executed(t)')
    BY <2>2 DEF Executed, Shape
  <2>4. Executed(h) => Executed(h)'
    <3>1. call'[h].stage = Following(h)
      BY <2>2 DEF Shape
    <3> QED BY <2>2, <3>1, FollowingStages DEF Executed
  <2> QED BY <1>3, <2>3, <2>4 DEF Transaction, Proceed
<1>4. CASE Execute
  <2>1. PICK h \in Call : h = Head(queue)
    BY <1>4, HeadIsCall DEF Execute
  <2>2. /\ call[h].stage = "execute"
        /\ open' = TRUE
        /\ call'[h].stage = IF Succeeds(work, call[h].request) THEN Following(h) ELSE "close"
    BY <1>4, <2>1 DEF Execute, Shape
  <2>3. call'[h].stage \in {"fetch", "close"}
    BY <2>2, FollowingStages
  <2> QED BY <2>2, <2>3 DEF Transaction, Executed
<1>5. CASE Exit
  BY <1>5 DEF Exit, Undone, Transaction
<1>6. CASE Crash
  BY <1>6 DEF Crash, Recovered, Transaction
<1> QED BY <1>1, <1>2, <1>3, <1>4, <1>5, <1>6 DEF Next, Job

\* The connection is never left in a transaction: when no call is under way,
\* everything that was written is committed.
THEOREM TransactionsEnd == Spec => []NothingLingers
<1>1. LingerInv => NothingLingers
  BY DEF LingerInv, Transaction, NothingLingers, UnderWay, Executed
<1>2. Init => LingerInv
  BY LossInvInit, RequestsAssumption DEF LingerInv, LossInv, Init, Transaction
<1>3. LingerInv /\ [Next]_vars => LingerInv'
  BY ShapeHolds, TransactionStep DEF LingerInv
<1> QED BY <1>1, <1>2, <1>3, PTL DEF Spec

LEMMA ExecutionKeepsRefs ==
    ASSUME NEW v, NEW t, NEW r, RefsInside(v), Succeeds(v, r),
           r.kind \in {"create", "update", "delete", "addRef", "removeRef"}
    PROVE  RefsInside(Execution(v, t, r))
<1>1. CASE r.kind = "create"
  BY <1>1 DEF RefsInside, Execution
<1>2. CASE r.kind = "update"
  BY <1>2 DEF RefsInside, Execution
<1>3. CASE r.kind = "delete"
  <2>1. \A ref \in v.refs : ref \in v.nodes \X v.nodes /\ r.node \notin {ref[1], ref[2]}
    BY <1>3 DEF RefsInside, Succeeds
  <2>2. v.refs \subseteq (v.nodes \ {r.node}) \X (v.nodes \ {r.node})
    BY <2>1
  <2> QED BY <1>3, <2>2 DEF RefsInside, Execution
<1>4. CASE r.kind = "addRef"
  <2>1. <<r.node, r.child>> \in v.nodes \X v.nodes
    BY <1>4 DEF Succeeds
  <2> QED BY <1>4, <2>1 DEF RefsInside, Execution
<1>5. CASE r.kind = "removeRef"
  BY <1>5 DEF RefsInside, Execution
<1> QED BY <1>1, <1>2, <1>3, <1>4, <1>5

\* References lead from node to node, in what is committed and in what the
\* calls see of each other.
THEOREM ReferencesResolve == Spec => []RefsResolve
<1>1. RefsInv => RefsResolve
  BY DEF RefsInv, RefsInside, RefsResolve
<1>2. Init => RefsInv
  BY DEF Init, Fresh, RefsInv, RefsInside
<1>3. RefsInv /\ [Next]_vars => RefsInv'
  <2>1. SUFFICES ASSUME RefsInv, [Next]_vars PROVE RefsInv'
    OBVIOUS
  <2>2. CASE Execute
    <3> DEFINE r == call[Head(queue)].request
    <3>1. /\ saved' = saved
          /\ work' = IF Succeeds(work, r) THEN Execution(work, Head(queue), r) ELSE work
      BY <2>2 DEF Execute
    <3>2. Succeeds(work, r) => r.kind \in {"create", "update", "delete", "addRef", "removeRef"}
      BY DEF Succeeds
    <3>3. RefsInside(work')
      BY <2>1, <3>1, <3>2, ExecutionKeepsRefs DEF RefsInv
    <3> QED BY <2>1, <3>1, <3>3 DEF RefsInv, RefsInside
  <2>3. CASE Exit
    BY <2>1, <2>3 DEF Exit, Undone, RefsInv, RefsInside
  <2>4. CASE Crash
    BY <2>1, <2>4 DEF Crash, Recovered, RefsInv, RefsInside
  <2> QED BY <2>1, <2>2, <2>3, <2>4
          DEF Next, Job, Arrive, Proceed, RefsInv, RefsInside, vars
<1> QED BY <1>1, <1>2, <1>3, PTL DEF Spec

-----------------------------------------------------------------------------
(* Types.  The nodes of a vault stay finitely many, so there is a largest  *)
(* identifier for the next node to follow.                                 *)

TypeInv == TypeOK /\ IsFiniteSet(work.nodes) /\ IsFiniteSet(saved.nodes)

\* The last element of a finite set of numbers: none of the others is above it.
LEMMA MaxIsLast ==
    ASSUME NEW S \in SUBSET Nat, S # {}, IsFiniteSet(S)
    PROVE  Max(S) \in S /\ \A n \in S : Max(S) >= n
<1> DEFINE Above(n) == {m \in S : m > n}
<1> DEFINE T == {Above(n) : n \in S}
<1>1. T \subseteq FiniteSubsetsOf(Nat) /\ T # {}
  <2>1. ASSUME NEW n \in S PROVE Above(n) \in SUBSET Nat /\ IsFiniteSet(Above(n))
    BY FS_Subset
  <2> QED BY <2>1 DEF FiniteSubsetsOf
<1>2. \A n \in S : Above(n) \in T
  OBVIOUS
<1>3. \A x \in T : \E n \in S : x = Above(n)
  OBVIOUS
<1> HIDE DEF T
<1>4. PICK x \in T : \A y \in T : ~(<<y, x>> \in StrictSubsetOrdering(Nat))
  BY <1>1, FS_StrictSubsetOrderingWellFounded, WFMin
<1>5. PICK n \in S : x = Above(n)
  BY <1>3
<1>6. ASSUME NEW m \in S PROVE n >= m
  <2> SUFFICES ASSUME m > n PROVE FALSE
    OBVIOUS
  <2>1. Above(m) \subseteq Above(n) /\ m \in Above(n) /\ m \notin Above(m)
    <3>1. m \in Nat /\ n \in Nat
      OBVIOUS
    <3>2. m \in Above(n) /\ m \notin Above(m)
      BY <3>1
    <3>3. ASSUME NEW k \in Above(m) PROVE k \in Above(n)
      <4>1. k \in S /\ k > m
        OBVIOUS
      <4>2. k \in Nat
        BY <4>1
      <4>3. k > n
        BY <3>1, <4>1, <4>2
      <4> QED BY <4>1, <4>3
    <3> QED BY <3>2, <3>3
  <2>2. Above(m) \in SUBSET Nat /\ Above(n) \in SUBSET Nat
    OBVIOUS
  <2>3. <<Above(m), Above(n)>> \in StrictSubsetOrdering(Nat)
    BY <2>1, <2>2 DEF StrictSubsetOrdering
  <2> QED BY <1>2, <1>4, <1>5, <2>3
<1> QED BY <1>6 DEF Max

\* A statement leaves a vault a vault, with finitely many nodes.
LEMMA ExecutionTypes ==
    ASSUME RequestsAssumption, NEW v \in Vault, IsFiniteSet(v.nodes),
           NEW t \in Call, NEW r \in Request
    PROVE  Execution(v, t, r) \in Vault /\ IsFiniteSet(Execution(v, t, r).nodes)
<1>1. r.node \in Nat /\ r.child \in Nat
  BY DEF RequestsAssumption
<1>2. NewNode(v) \in Nat
  <2>1. v.nodes \cup {0} \in SUBSET Nat /\ v.nodes \cup {0} # {}
    BY DEF Vault
  <2>2. IsFiniteSet(v.nodes \cup {0})
    BY FS_AddElement
  <2>3. Max(v.nodes \cup {0}) \in Nat
    BY <2>1, <2>2, MaxIsLast
  <2> QED BY <2>3 DEF NewNode
<1>3. IsFiniteSet(v.nodes \cup {NewNode(v)}) /\ IsFiniteSet(v.nodes \ {r.node})
  BY FS_AddElement, FS_RemoveElement
<1>4. PICK nodes \in SUBSET Nat :
        /\ IsFiniteSet(nodes)
        /\ nodes = CASE r.kind = "create" -> v.nodes \cup {NewNode(v)}
                     [] r.kind = "delete" -> v.nodes \ {r.node}
                     [] OTHER -> v.nodes
  BY <1>2, <1>3 DEF Vault
<1>5. PICK refs \in SUBSET (Nat \X Nat) :
        refs = CASE r.kind = "addRef" -> v.refs \cup {<<r.node, r.child>>}
                 [] r.kind = "removeRef" -> v.refs \ {<<r.node, r.child>>}
                 [] OTHER -> v.refs
  <2>1. v.refs \in SUBSET (Nat \X Nat) /\ <<r.node, r.child>> \in Nat \X Nat
    BY <1>1 DEF Vault
  <2>2. /\ v.refs \cup {<<r.node, r.child>>} \in SUBSET (Nat \X Nat)
        /\ v.refs \ {<<r.node, r.child>>} \in SUBSET (Nat \X Nat)
    BY <2>1
  <2>3. (CASE r.kind = "addRef" -> v.refs \cup {<<r.node, r.child>>}
           [] r.kind = "removeRef" -> v.refs \ {<<r.node, r.child>>}
           [] OTHER -> v.refs) \in SUBSET (Nat \X Nat)
    <3>1. CASE r.kind = "addRef"
      BY <2>2, <3>1
    <3>2. CASE r.kind = "removeRef"
      BY <2>2, <3>2
    <3>3. CASE r.kind \notin {"addRef", "removeRef"}
      BY <2>1, <3>3
    <3> QED BY <3>1, <3>2, <3>3
  <2> QED BY <2>3
<1>6. Execution(v, t, r) = [nodes |-> nodes, refs |-> refs, writes |-> v.writes \cup {t}]
  BY <1>4, <1>5 DEF Execution
<1> QED BY <1>4, <1>5, <1>6 DEF Vault

\* Both views of the vault, the queue and the calls stay of their types, and a
\* node that is created has an identifier (ServerState's writing methods).
THEOREM TypeCorrect == Spec => []TypeOK
<1>1. TypeInv => TypeOK
  BY DEF TypeInv
<1>2. Init => TypeInv
  <2> SUFFICES ASSUME Init PROVE TypeInv
    OBVIOUS
  <2>1. Fresh \in Vault /\ IsFiniteSet(Fresh.nodes)
    BY RequestsAssumption DEF RequestsAssumption, Fresh, Vault
  <2>2. call \in [Call -> [stage : Stage, request : Request \cup {NoRequest}, raised : BOOLEAN]]
    BY DEF Init, Stage
  <2>3. company \in [Call -> SUBSET Call] /\ queue \in Seq(Call)
    BY DEF Init
  <2>4. open = FALSE /\ crashes \in 0..MaxCrash
    <3>1. crashes = 0 /\ open = FALSE
      BY DEF Init
    <3> QED BY <3>1, RequestsAssumption DEF RequestsAssumption
  <2> QED BY <2>1, <2>2, <2>3, <2>4 DEF Init, TypeInv, TypeOK
<1>3. TypeInv /\ [Next]_vars => TypeInv'
  <2> SUFFICES ASSUME TypeInv, [Next]_vars PROVE TypeInv'
    OBVIOUS
  <2>1. Shape'
    BY ShapeHolds DEF TypeInv, TypeOK, Shape
  <2>2. /\ work' \in Vault /\ IsFiniteSet(work'.nodes)
        /\ saved' \in Vault /\ IsFiniteSet(saved'.nodes)
        /\ open' \in BOOLEAN /\ crashes' \in 0..MaxCrash
    <3>1. CASE Execute
      <4>1. PICK t \in Call : t = Head(queue)
        BY <3>1, HeadIsCall DEF Execute, TypeInv, TypeOK, Shape
      <4>2. PICK r \in Request \cup {NoRequest} : r = call[t].request
        BY DEF TypeInv, TypeOK
      <4>3. /\ saved' = saved /\ open' = TRUE /\ crashes' = crashes
            /\ work' = IF Succeeds(work, r) THEN Execution(work, t, r) ELSE work
        BY <3>1, <4>1, <4>2 DEF Execute
      <4>4. Succeeds(work, r) => r \in Request
        BY <4>2 DEF Succeeds, NoRequest
      <4>5. Succeeds(work, r) => work' \in Vault /\ IsFiniteSet(work'.nodes)
        BY <4>3, <4>4, ExecutionTypes, RequestsAssumption DEF TypeInv, TypeOK
      <4> QED BY <4>3, <4>5 DEF TypeInv, TypeOK
    <3>2. CASE Exit
      BY <3>2 DEF Exit, Undone, TypeInv, TypeOK
    <3>3. CASE Crash
      <4>1. work' = saved /\ saved' = saved /\ open' = FALSE
        BY <3>3 DEF Crash, Recovered
      <4>2. crashes' \in 0..MaxCrash
        <5>1. crashes \in Nat /\ crashes < MaxCrash /\ crashes' = crashes + 1
          BY <3>3 DEF Crash, TypeInv, TypeOK
        <5> QED BY <5>1, RequestsAssumption DEF RequestsAssumption
      <4> QED BY <4>1, <4>2 DEF TypeInv, TypeOK
    <3>4. ASSUME UNCHANGED <<work, saved, open, crashes>>
          PROVE  /\ work' \in Vault /\ IsFiniteSet(work'.nodes)
                 /\ saved' \in Vault /\ IsFiniteSet(saved'.nodes)
                 /\ open' \in BOOLEAN /\ crashes' \in 0..MaxCrash
      BY <3>4 DEF TypeInv, TypeOK
    <3>5. \/ Execute \/ Exit \/ Crash
          \/ UNCHANGED <<work, saved, open, crashes>>
      BY DEF Next, Job, Arrive, Proceed, vars
    <3> QED BY <3>1, <3>2, <3>3, <3>4, <3>5
  <2> QED BY <2>1, <2>2 DEF Shape, TypeInv, TypeOK
<1> QED BY <1>1, <1>2, <1>3, PTL DEF Spec
=============================================================================
