------------------------ MODULE ActionManagerProofs ------------------------
(***************************************************************************)
(* Proofs about ActionManager, for any set of goals and any durations.     *)
(***************************************************************************)
EXTENDS ActionManager, TLAPS

\* A goal that has a worker in execute_goal is not terminal yet; a goal has a
\* server state once it arrived.
WorkerInv ==
  \A g \in Goals :
    /\ pc[g] = "none" <=> state[g] = "none"
    /\ pc[g] \notin {"none", "end"} => state[g] \in {"executing", "canceling"}
    /\ cancelledBeforeCheck[g] /\ pc[g] # "end" => state[g] = "canceling"

\* What the checks before success established is kept until the goal succeeds.
CheckInv ==
  \A g \in Goals :
    /\ pc[g] = "recheck" => age[g] >= Work
    /\ pc[g] = "succeed" \/ state[g] = "succeeded" =>
         /\ checkedAt[g] >= Work /\ ~Expired(checkedAt[g])
         /\ ~cancelledBeforeCheck[g]

\* Only the result callback of a success publishes, and it runs once.
ClientInv ==
  \A g \in Goals :
    IF client[g] = "succeeded"
    THEN published[g] = 1 /\ state[g] = "succeeded"
    ELSE published[g] = 0

IInv == TypeOK /\ WorkerInv /\ CheckInv /\ ClientInv /\ SleepWithinBudget

-----------------------------------------------------------------------------
\* A planned wait ends within the work and within the timeout.
LEMMA WaitBounded ==
  ASSUME NEW t \in Nat, timeout \in Nat, NextWait(t) > 0
  PROVE  /\ NextWait(t) \in Nat
         /\ t + NextWait(t) <= Work
         /\ Enabled => t + NextWait(t) <= timeout
  BY DurationsAssumption DEF NextWait, Least, Positive, Enabled

LEMMA WaitType ==
  ASSUME NEW t \in Nat, timeout \in Nat
  PROVE  NextWait(t) \in Nat
  BY DurationsAssumption DEF NextWait, Least, Positive, Enabled

LEMMA InitIInv == Init => IInv
  <1>. SUFFICES ASSUME Init PROVE IInv
    OBVIOUS
  <1>1. TypeOK
    <2>1. Blank \in [message : Outcomes, event : Outcomes, stage : Outcomes]
      BY DEF Blank, Outcomes
    <2>2. report \in [Goals -> [message : Outcomes, event : Outcomes, stage : Outcomes]]
      BY <2>1 DEF Init
    <2>3. 0 \in 0..MaxAge
      BY DurationsAssumption
    <2>. QED  BY <2>2, <2>3 DEF Init, TypeOK
  <1>2. WorkerInv /\ CheckInv /\ ClientInv /\ SleepWithinBudget
    BY DEF Init, WorkerInv, CheckInv, ClientInv, SleepWithinBudget
  <1>. QED  BY <1>1, <1>2 DEF IInv

\* Types are preserved: each action stores values of the right kind.
LEMMA TypeStep ==
  ASSUME TypeOK, NEW g \in Goals,
         Executor(g) \/ HandleCancel(g) \/ Worker(g)
  PROVE  TypeOK'
  <1>1. report' \in [Goals -> [message : Outcomes, event : Outcomes, stage : Outcomes]]
    <2>. DEFINE R == [message : Outcomes, event : Outcomes, stage : Outcomes]
    <2>1. /\ report[g] \in R
          /\ [message |-> "cancelled", event |-> "cancelled", stage |-> "cancelled"] \in R
          /\ [message |-> "timeout", event |-> "timeout", stage |-> "timeout"] \in R
      BY DEF TypeOK, Outcomes
    <2>2. /\ [report[g] EXCEPT !.message = Outcome(g)] \in R
          /\ [report[g] EXCEPT !.event = Outcome(g)] \in R
          /\ [report[g] EXCEPT !.stage = Outcome(g)] \in R
      BY <2>1 DEF Outcome, Outcomes
    <2>. HIDE DEF R
    <2>3. report \in [Goals -> R]
      BY DEF TypeOK, R
    <2>4. \/ UNCHANGED report
          \/ \E r \in R : report' = [report EXCEPT ![g] = r]
      BY <2>1, <2>2
      DEF Executor, HandleCancel, Worker, OnPlannerCommand, HandleGoal, GoalResponse,
          ResultCallback, Start, LoopTest, CancelSeen, DeadlineSeen, Abort, PlanWait, Sleep,
          Recheck, FailMessage, FailEvent, FailStage, FailSettle, Succeed, Report
    <2>5. report' \in [Goals -> R]
      BY <2>3, <2>4
    <2>. QED  BY <2>5 DEF R
  <1>2. age' \in [Goals -> 0..MaxAge] /\ wake' \in [Goals -> 0..MaxAge]
        /\ checkedAt' \in [Goals -> 0..MaxAge]
    <2>1. age[g] \in Nat /\ age[g] \in 0..MaxAge /\ timeout \in Nat
      BY DurationsAssumption DEF TypeOK
    <2>2. NextWait(age[g]) > 0 => age[g] + NextWait(age[g]) \in 0..MaxAge
      BY <2>1, WaitBounded, WaitType, DurationsAssumption
    <2>3. /\ UNCHANGED age \/ age' = [age EXCEPT ![g] = 0]
          /\ \/ UNCHANGED wake
             \/ /\ NextWait(age[g]) > 0
                /\ wake' = [wake EXCEPT ![g] = age[g] + NextWait(age[g])]
          /\ UNCHANGED checkedAt \/ checkedAt' = [checkedAt EXCEPT ![g] = age[g]]
      BY DEF Executor, HandleCancel, Worker, OnPlannerCommand, HandleGoal, GoalResponse,
          ResultCallback, Start, LoopTest, CancelSeen, DeadlineSeen, Abort, PlanWait, Sleep,
          Recheck, FailMessage, FailEvent, FailStage, FailSettle, Succeed, Clock, History
    <2>4. 0 \in 0..MaxAge
      BY DurationsAssumption
    <2>5. age' \in [Goals -> 0..MaxAge]
      BY <2>3, <2>4 DEF TypeOK
    <2>6. wake' \in [Goals -> 0..MaxAge]
      BY <2>2, <2>3 DEF TypeOK
    <2>7. checkedAt' \in [Goals -> 0..MaxAge]
      BY <2>1, <2>3 DEF TypeOK
    <2>. QED  BY <2>5, <2>6, <2>7
  <1>3. UNCHANGED <<timeout, life>>
    BY DEF Executor, HandleCancel, Worker, OnPlannerCommand, HandleGoal, GoalResponse,
          ResultCallback, Start, LoopTest, CancelSeen, DeadlineSeen, Abort, PlanWait, Sleep,
          Recheck, FailMessage, FailEvent, FailStage, FailSettle, Succeed, Idle
  <1>5. client' \in [Goals -> {"new", "unavailable", "sent", "accepted", "succeeded",
                               "failed"}]
    BY DEF TypeOK, Executor, HandleCancel, Worker, OnPlannerCommand, HandleGoal, GoalResponse,
          ResultCallback, Start, LoopTest, CancelSeen, DeadlineSeen, Abort, PlanWait, Sleep,
          Recheck, FailMessage, FailEvent, FailStage, FailSettle, Succeed, Idle
  <1>6. state' \in [Goals -> {"none", "executing", "canceling"} \cup Terminal]
    <2>1. \/ UNCHANGED state
          \/ \E s \in {"executing", "canceling", "succeeded", "canceled", "aborted"} :
               state' = [state EXCEPT ![g] = s]
      BY DEF Executor, HandleCancel, Worker, OnPlannerCommand, HandleGoal, GoalResponse,
          ResultCallback, Start, LoopTest, CancelSeen, DeadlineSeen, Abort, PlanWait, Sleep,
          Recheck, FailMessage, FailEvent, FailStage, FailSettle, Succeed, Settle
    <2>. QED  BY <2>1 DEF TypeOK, Terminal
  <1>7. published' \in [Goals -> Nat] /\ cancelledBeforeCheck' \in [Goals -> BOOLEAN]
    <2>1. \/ UNCHANGED published
          \/ published' = [published EXCEPT ![g] = @ + 1]
      BY DEF Executor, HandleCancel, Worker, OnPlannerCommand, HandleGoal, GoalResponse,
          ResultCallback, Start, LoopTest, CancelSeen, DeadlineSeen, Abort, PlanWait, Sleep,
          Recheck, FailMessage, FailEvent, FailStage, FailSettle, Succeed, Idle
    <2>2. \/ UNCHANGED cancelledBeforeCheck
          \/ \E b \in BOOLEAN : cancelledBeforeCheck' = [cancelledBeforeCheck EXCEPT ![g] = b]
      BY DEF Executor, HandleCancel, Worker, OnPlannerCommand, HandleGoal, GoalResponse,
          ResultCallback, Start, LoopTest, CancelSeen, DeadlineSeen, Abort, PlanWait, Sleep,
          Recheck, FailMessage, FailEvent, FailStage, FailSettle, Succeed, History
    <2>3. published' \in [Goals -> Nat]
      BY <2>1 DEF TypeOK
    <2>4. cancelledBeforeCheck \in [Goals -> BOOLEAN]
      BY DEF TypeOK
    <2>5. cancelledBeforeCheck' \in [Goals -> BOOLEAN]
      BY <2>2, <2>4
    <2>. QED  BY <2>3, <2>5
  <1>4. pc' \in [Goals -> {"none", "start", "loop", "iterate", "deadline", "abort", "feedback",
                           "sleep", "recheck", "message", "event", "stage", "fail", "succeed",
                           "end", "gone"}]
    <2>1. \/ UNCHANGED pc
          \/ \E p \in {"start", "loop", "iterate", "deadline", "abort", "feedback", "sleep",
                        "recheck", "message", "event", "stage", "fail", "succeed", "end",
                        "gone"} :
               pc' = [pc EXCEPT ![g] = p]
      BY DEF Executor, HandleCancel, Worker, OnPlannerCommand, HandleGoal, GoalResponse,
          ResultCallback, Start, LoopTest, CancelSeen, DeadlineSeen, Abort, PlanWait, Sleep,
          Recheck, FailMessage, FailEvent, FailStage, FailSettle, Succeed, Settle, Goto
    <2>. QED  BY <2>1 DEF TypeOK
  <1>. QED  BY <1>1, <1>2, <1>3, <1>4, <1>5, <1>6, <1>7 DEF TypeOK

Rest == WorkerInv /\ CheckInv /\ ClientInv /\ SleepWithinBudget

\* The other conjuncts: one step per action.
LEMMA GoalStep ==
  ASSUME IInv, NEW g \in Goals, TypeOK',
         Executor(g) \/ HandleCancel(g) \/ Worker(g)
  PROVE  Rest'
  <1>. USE DEF IInv, TypeOK, Rest, WorkerInv, CheckInv, ClientInv, SleepWithinBudget,
               Terminal, Clock, History, Enabled, Expired
  <1>1. CASE OnPlannerCommand(g)
    BY <1>1 DEF OnPlannerCommand
  <1>2. CASE HandleGoal(g)
    BY <1>2 DEF HandleGoal
  <1>3. CASE GoalResponse(g)
    BY <1>3 DEF GoalResponse
  <1>4. CASE ResultCallback(g)
    BY <1>4 DEF ResultCallback
  <1>5. CASE HandleCancel(g)
    BY <1>5 DEF HandleCancel
  <1>. USE DEF Idle, Goto, Settle, Canceling
  <1>6. CASE Start(g)
    BY <1>6, DurationsAssumption DEF Start
  <1>7. CASE LoopTest(g)
    BY <1>7, DurationsAssumption DEF LoopTest
  <1>8. CASE CancelSeen(g)
    BY <1>8 DEF CancelSeen
  <1>9. CASE DeadlineSeen(g)
    BY <1>9 DEF DeadlineSeen
  <1>10. CASE Abort(g)
    BY <1>10 DEF Abort
  <1>11. CASE PlanWait(g)
    BY <1>11, WaitBounded, DurationsAssumption DEF PlanWait
  <1>12. CASE Sleep(g)
    BY <1>12 DEF Sleep
  <1>13. CASE Recheck(g)
    BY <1>13 DEF Recheck
  <1>14. CASE FailMessage(g)
    BY <1>14 DEF FailMessage
  <1>15. CASE FailEvent(g)
    BY <1>15 DEF FailEvent
  <1>16. CASE FailStage(g)
    BY <1>16 DEF FailStage
  <1>17. CASE FailSettle(g)
    BY <1>17 DEF FailSettle
  <1>18. CASE Succeed(g)
    BY <1>18 DEF Succeed
  <1>. QED
    BY <1>1, <1>2, <1>3, <1>4, <1>5, <1>6, <1>7, <1>8, <1>9, <1>10, <1>11, <1>12, <1>13,
       <1>14, <1>15, <1>16, <1>17, <1>18 DEF Executor, Worker

LEMMA ClockStep ==
  ASSUME IInv, Tick
  PROVE  IInv'
  <1>. DEFINE older(g) == IF age[g] < MaxAge /\ pc[g] \notin {"none", "gone", "end"}
                          THEN age[g] + 1 ELSE age[g]
  <1>1. age' = [g \in Goals |-> older(g)]
    BY DEF Tick
  <1>2. \A g \in Goals : older(g) \in 0..MaxAge /\ older(g) >= age[g]
    <2>1. \A g \in Goals : age[g] \in 0..MaxAge
      BY DEF IInv, TypeOK
    <2>2. ASSUME NEW g \in Goals PROVE older(g) \in 0..MaxAge /\ older(g) >= age[g]
      <3>1. age[g] \in 0..MaxAge /\ MaxAge \in Nat
        BY <2>1, DurationsAssumption
      <3>2. CASE age[g] < MaxAge /\ pc[g] \notin {"none", "gone", "end"}
        BY <3>1, <3>2
      <3>3. CASE ~(age[g] < MaxAge /\ pc[g] \notin {"none", "gone", "end"})
        <4>1. older(g) = age[g]
          BY <3>3, Zenon
        <4>. QED  BY <3>1, <4>1
      <3>. QED  BY <3>2, <3>3
    <2>. QED  BY <2>2
  <1>. HIDE DEF older
  <1>3. UNCHANGED <<timeout, life, client, state, pc, wake, report, published, checkedAt,
                    cancelledBeforeCheck>>
    BY DEF Tick, History
  <1>4. age' \in [Goals -> 0..MaxAge] /\ \A g \in Goals : age'[g] >= age[g]
    BY <1>1, <1>2
  <1>5. TypeOK'
    BY <1>3, <1>4 DEF IInv, TypeOK
  <1>6. CheckInv'
    <2>1. \A g \in Goals : age[g] \in Int /\ age'[g] \in Int
      BY <1>4 DEF IInv, TypeOK
    <2>. QED
      BY <1>3, <1>4, <2>1, DurationsAssumption DEF IInv, CheckInv, Expired, Enabled
  <1>7. WorkerInv' /\ ClientInv' /\ SleepWithinBudget'
    BY <1>3 DEF IInv, WorkerInv, ClientInv, SleepWithinBudget, Enabled
  <1>. QED  BY <1>5, <1>6, <1>7 DEF IInv

LEMMA Invariant == Spec => []IInv
  <1>1. IInv /\ [Next]_vars => IInv'
    <2>. SUFFICES ASSUME IInv, [Next]_vars PROVE IInv'
      OBVIOUS
    <2>1. ASSUME NEW g \in Goals, Executor(g) \/ HandleCancel(g) \/ Worker(g)
          PROVE  IInv'
      BY <2>1, TypeStep, GoalStep DEF IInv, Rest
    <2>2. CASE GoingDown
      BY <2>2 DEF GoingDown, IInv, TypeOK, WorkerInv, CheckInv, ClientInv,
                  SleepWithinBudget, Clock, History, Enabled, Expired
    <2>3. CASE UNCHANGED vars
      BY <2>3 DEF vars, IInv, TypeOK, WorkerInv, CheckInv, ClientInv,
                  SleepWithinBudget, Enabled, Expired
    <2>. QED  BY <2>1, <2>2, <2>3, ClockStep DEF Next
  <1>. QED  BY <1>1, InitIInv, PTL DEF Spec

\* No transition of a goal, of its worker or of its client leaves their states.
THEOREM TypeCorrect == Spec => []TypeOK
  <1>1. IInv => TypeOK
    BY DEF IInv
  <1>. QED  BY <1>1, Invariant, PTL

\* The result topic carries a command at most once, and for a success only.
THEOREM OnlySuccessesPublished == Spec => []PublishedForSuccess
  <1>1. IInv => PublishedForSuccess
    <2>1. ASSUME IInv, NEW g \in Goals
          PROVE  published[g] <= 1 /\ (published[g] = 1 => state[g] = "succeeded")
      <3>1. CASE client[g] = "succeeded"
        BY <2>1, <3>1 DEF IInv, ClientInv
      <3>2. CASE client[g] # "succeeded"
        BY <2>1, <3>2 DEF IInv, ClientInv
      <3>. QED  BY <3>1, <3>2
    <2>. QED  BY <2>1 DEF PublishedForSuccess
  <1>. QED  BY <1>1, Invariant, PTL

\* However late a sleep returns, a success was checked against its timeout.
THEOREM NoLateSuccess == Spec => []SuccessInTime
  <1>1. IInv => SuccessInTime
    BY DEF IInv, CheckInv, SuccessInTime
  <1>. QED  BY <1>1, Invariant, PTL

\* A cancel accepted before the last check is never turned into a success.
THEOREM CancelNotLost == Spec => []CancelHonoured
  <1>1. IInv => CancelHonoured
    BY DEF IInv, CheckInv, CancelHonoured
  <1>. QED  BY <1>1, Invariant, PTL

\* No sleep is planned past the end of the work or past the timeout.
THEOREM NoOvershoot == Spec => []SleepWithinBudget
  <1>1. IInv => SleepWithinBudget
    BY DEF IInv
  <1>. QED  BY <1>1, Invariant, PTL
=============================================================================
