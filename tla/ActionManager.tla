--------------------------- MODULE ActionManager ---------------------------
(***************************************************************************)
(* The serial action stage (robot_action_pkg/src/action_manager_node.cpp   *)
(* and goal_deadline.hpp): a planner command becomes a goal of the node's  *)
(* own action server, a worker thread executes it, and only a successful   *)
(* result is published for the CAN bridge.                                 *)
(*                                                                         *)
(* The executor thread runs the subscription, the server's callbacks and   *)
(* the client's; each worker runs execute_goal.  handle_goal accepts every *)
(* goal, so the client never sees a rejection by the server.  A goal's     *)
(* clock is the time since its start_timestamp_ns.                         *)
(***************************************************************************)
EXTENDS Integers

CONSTANTS
  Goals,      \* the planner commands received
  Work,       \* action_delay_ms
  Period,     \* feedback_period_ms
  Timeouts,   \* the values of goal_timeout_ms the node may be started with
  MaxAge      \* bound of a goal's clock

ASSUME DurationsAssumption ==
  /\ Work \in Nat /\ Period \in Nat \ {0} /\ Timeouts \subseteq Nat
  /\ MaxAge \in Nat /\ MaxAge >= Work /\ \A t \in Timeouts : MaxAge >= t

VARIABLES
  timeout,   \* goal_timeout_ms; 0 disables it
  life,      \* "running", "signalled" (rclcpp::ok() is false), "destroying"
  client,    \* what the command's client side knows: "new", "unavailable", "sent",
             \* "accepted", "succeeded", "failed"
  state,     \* the server's goal state, "none" before the goal arrives
  pc,        \* the worker's place in execute_goal
  age,       \* time since the goal's execution started
  wake,      \* end of the worker's current sleep
  report,    \* the message, event and stage of a failed execution
  published, \* result commands published on result_topic
  checkedAt, \* age at the last check before success (history)
  cancelledBeforeCheck  \* a cancel was accepted before that check (history)

vars == <<timeout, life, client, state, pc, age, wake, report, published, checkedAt,
          cancelledBeforeCheck>>

-----------------------------------------------------------------------------
Least(a, b) == IF a < b THEN a ELSE b
Positive(a) == IF a > 0 THEN a ELSE 0

\* GoalDeadline, with start_ns = 0.
Enabled == timeout > 0
Expired(t) == Enabled /\ t >= timeout
NextWait(t) ==
  LET wait == Least(Positive(Work - t), Period)
  IN  IF Enabled THEN Least(wait, Positive(timeout - t)) ELSE wait

Ok == life = "running"
Canceling(g) == state[g] = "canceling"
Terminal == {"succeeded", "canceled", "aborted"}
Blank == [message |-> "", event |-> "", stage |-> ""]

Init ==
  /\ timeout \in Timeouts
  /\ life = "running"
  /\ client = [g \in Goals |-> "new"]
  /\ state = [g \in Goals |-> "none"]
  /\ pc = [g \in Goals |-> "none"]
  /\ age = [g \in Goals |-> 0]
  /\ wake = [g \in Goals |-> 0]
  /\ report = [g \in Goals |-> Blank]
  /\ published = [g \in Goals |-> 0]
  /\ checkedAt = [g \in Goals |-> 0]
  /\ cancelledBeforeCheck = [g \in Goals |-> FALSE]

Clock == <<age, wake>>
History == <<checkedAt, cancelledBeforeCheck>>

-----------------------------------------------------------------------------
\* Executor: the subscription.  The server may not be discovered in time.
OnPlannerCommand(g) ==
  /\ Ok /\ client[g] = "new"
  /\ \E c \in {"unavailable", "sent"} : client' = [client EXCEPT ![g] = c]
  /\ UNCHANGED <<timeout, life, state, pc, Clock, report, published, History>>

\* Executor: handle_goal and handle_accepted, then the client's goal response.
\* handle_accepted starts no worker once the node is going down.
HandleGoal(g) ==
  /\ life # "destroying" /\ client[g] = "sent" /\ state[g] = "none"
  /\ state' = [state EXCEPT ![g] = "executing"]
  /\ pc' = [pc EXCEPT ![g] = IF Ok THEN "start" ELSE "gone"]
  /\ UNCHANGED <<timeout, life, client, Clock, report, published, History>>

GoalResponse(g) ==
  /\ Ok /\ client[g] = "sent" /\ state[g] # "none"
  /\ client' = [client EXCEPT ![g] = "accepted"]
  /\ UNCHANGED <<timeout, life, state, pc, Clock, report, published, History>>

\* Executor: handle_cancel accepts whatever any client asks to cancel.
HandleCancel(g) ==
  /\ Ok /\ state[g] = "executing"
  /\ state' = [state EXCEPT ![g] = "canceling"]
  /\ cancelledBeforeCheck' = [cancelledBeforeCheck EXCEPT ![g] = pc[g] # "succeed"]
  /\ UNCHANGED <<timeout, life, client, pc, Clock, report, published, checkedAt>>

\* Executor: the result callback publishes a command for a success only.
ResultCallback(g) ==
  /\ Ok /\ client[g] = "accepted" /\ state[g] \in Terminal
  /\ \/ /\ state[g] = "succeeded"
        /\ client' = [client EXCEPT ![g] = "succeeded"]
        /\ published' = [published EXCEPT ![g] = @ + 1]
     \/ /\ state[g] # "succeeded"
        /\ client' = [client EXCEPT ![g] = "failed"]
        /\ UNCHANGED published
  /\ UNCHANGED <<timeout, life, state, pc, Clock, report, History>>

-----------------------------------------------------------------------------
\* The worker: execute_goal.
Goto(g, p) == pc' = [pc EXCEPT ![g] = p]
Settle(g, s) == state' = [state EXCEPT ![g] = s] /\ Goto(g, "end")
Report(g, f, v) == report' = [report EXCEPT ![g][f] = v]
Outcome(g) == IF Canceling(g) THEN "cancelled" ELSE "timeout"
Idle == <<timeout, life, client, published>>

Start(g) ==
  /\ pc[g] = "start"
  /\ Goto(g, IF Ok THEN "loop" ELSE "gone")
  /\ age' = [age EXCEPT ![g] = 0]
  /\ UNCHANGED <<Idle, state, wake, report, History>>

LoopTest(g) ==
  /\ pc[g] = "loop"
  /\ \/ age[g] >= Work /\ Goto(g, "recheck")
     \/ age[g] < Work /\ ~Ok /\ Goto(g, "gone")
     \/ age[g] < Work /\ Ok /\ Goto(g, "iterate")
  /\ UNCHANGED <<Idle, state, Clock, report, History>>

CancelSeenUnsettled(g) == \* mutant: the worker returns without a terminal state
  /\ pc[g] = "iterate"
  /\ Goto(g, IF Canceling(g) THEN "gone" ELSE "deadline")
  /\ UNCHANGED <<Idle, state, report, Clock, History>>
CancelSeen(g) ==
  /\ pc[g] = "iterate"
  /\ \/ /\ Canceling(g)
        /\ Settle(g, "canceled")
        /\ report' = [report EXCEPT ![g] =
             [message |-> "cancelled", event |-> "cancelled", stage |-> "cancelled"]]
     \/ ~Canceling(g) /\ Goto(g, "deadline") /\ UNCHANGED <<state, report>>
  /\ UNCHANGED <<Idle, Clock, History>>

DeadlineSeen(g) ==
  /\ pc[g] = "deadline"
  /\ \/ /\ Expired(age[g])
        /\ Goto(g, "abort")
        /\ report' = [report EXCEPT ![g] =
             [message |-> "timeout", event |-> "timeout", stage |-> "timeout"]]
     \/ ~Expired(age[g]) /\ Goto(g, "feedback") /\ UNCHANGED report
  /\ UNCHANGED <<Idle, state, Clock, History>>

Abort(g) ==
  /\ pc[g] = "abort" /\ Settle(g, "aborted")
  /\ UNCHANGED <<Idle, Clock, report, History>>

\* The wait is planned from fresh readings of the clock, taken after the test;
\* age is the earliest of them.
PlanWait(g) ==
  /\ pc[g] = "feedback"
  /\ \/ NextWait(age[g]) = 0 /\ Goto(g, "loop") /\ UNCHANGED wake
     \/ /\ NextWait(age[g]) > 0
        /\ Goto(g, "sleep")
        /\ wake' = [wake EXCEPT ![g] = age[g] + NextWait(age[g])]
  /\ UNCHANGED <<Idle, state, age, report, History>>

\* sleep_for returns no earlier than planned, and arbitrarily later.
Sleep(g) ==
  /\ pc[g] = "sleep" /\ age[g] >= wake[g]
  /\ Goto(g, "loop")
  /\ UNCHANGED <<Idle, state, Clock, report, History>>

\* "The last wait can still cross the deadline, so re-check before success."
RecheckNothing(g) ==     \* mutant
  /\ pc[g] = "recheck" /\ Goto(g, "succeed")
  /\ checkedAt' = [checkedAt EXCEPT ![g] = age[g]]
  /\ UNCHANGED <<Idle, state, Clock, report, cancelledBeforeCheck>>
RecheckDeadline(g) ==    \* mutant: a cancel is not looked for again
  /\ pc[g] = "recheck"
  /\ Goto(g, IF Expired(age[g]) THEN "message" ELSE "succeed")
  /\ checkedAt' = [checkedAt EXCEPT ![g] = age[g]]
  /\ UNCHANGED <<Idle, state, Clock, report, cancelledBeforeCheck>>
Recheck(g) ==
  /\ pc[g] = "recheck"
  /\ \/ ~Ok /\ Goto(g, "gone") /\ UNCHANGED checkedAt
     \/ Ok /\ (Canceling(g) \/ Expired(age[g])) /\ Goto(g, "message") /\ UNCHANGED checkedAt
     \/ /\ Ok /\ ~Canceling(g) /\ ~Expired(age[g])
        /\ Goto(g, "succeed")
        /\ checkedAt' = [checkedAt EXCEPT ![g] = age[g]]
  /\ UNCHANGED <<Idle, state, Clock, report, cancelledBeforeCheck>>

\* The failure path asks is_canceling() four more times: for the message, for
\* the event's name and its stage (in an order left to the compiler, here the
\* written one), and for the transition of the goal.
FailMessage(g) ==
  /\ pc[g] = "message" /\ Goto(g, "event") /\ Report(g, "message", Outcome(g))
  /\ UNCHANGED <<Idle, state, Clock, History>>
FailEvent(g) ==
  /\ pc[g] = "event" /\ Goto(g, "stage") /\ Report(g, "event", Outcome(g))
  /\ UNCHANGED <<Idle, state, Clock, History>>
FailStage(g) ==
  /\ pc[g] = "stage" /\ Goto(g, "fail") /\ Report(g, "stage", Outcome(g))
  /\ UNCHANGED <<Idle, state, Clock, History>>
FailSettle(g) ==
  /\ pc[g] = "fail" /\ Settle(g, IF Canceling(g) THEN "canceled" ELSE "aborted")
  /\ UNCHANGED <<Idle, Clock, report, History>>

\* A goal that is being cancelled may still succeed.
Succeed(g) ==
  /\ pc[g] = "succeed" /\ Settle(g, "succeeded")
  /\ UNCHANGED <<Idle, Clock, report, History>>

Worker(g) ==
  \/ Start(g) \/ LoopTest(g) \/ CancelSeen(g) \/ DeadlineSeen(g) \/ Abort(g)
  \/ PlanWait(g) \/ Sleep(g)
  \/ Recheck(g) \/ FailMessage(g) \/ FailEvent(g) \/ FailStage(g) \/ FailSettle(g)
  \/ Succeed(g)

\* main and the destructor, which joins the workers.
GoingDown ==
  /\ \/ life = "running" /\ life' = "signalled"
     \/ life = "signalled" /\ life' = "destroying"
  /\ UNCHANGED <<timeout, client, state, pc, Clock, report, published, History>>

Tick ==
  /\ \E g \in Goals : age[g] < MaxAge /\ pc[g] \notin {"none", "gone", "end"}
  /\ age' = [g \in Goals |->
       IF age[g] < MaxAge /\ pc[g] \notin {"none", "gone", "end"} THEN age[g] + 1 ELSE age[g]]
  /\ UNCHANGED <<timeout, life, client, state, pc, wake, report, published, History>>

Executor(g) ==
  OnPlannerCommand(g) \/ HandleGoal(g) \/ GoalResponse(g) \/ ResultCallback(g)

Next ==
  \/ \E g \in Goals : Executor(g) \/ HandleCancel(g) \/ Worker(g)
  \/ GoingDown \/ Tick

Spec == Init /\ [][Next]_vars

\* Threads run, time passes; nothing has to cancel and nothing has to signal.
Fairness ==
  /\ \A g \in Goals : WF_vars(Executor(g)) /\ WF_vars(Worker(g))
  /\ WF_vars(Tick)

FairSpec == Spec /\ Fairness

-----------------------------------------------------------------------------
Outcomes == {"", "cancelled", "timeout"}
TypeOK ==
  /\ timeout \in Timeouts
  /\ life \in {"running", "signalled", "destroying"}
  /\ client \in [Goals -> {"new", "unavailable", "sent", "accepted", "succeeded", "failed"}]
  /\ state \in [Goals -> {"none", "executing", "canceling"} \cup Terminal]
  /\ pc \in [Goals -> {"none", "start", "loop", "iterate", "deadline", "abort", "feedback",
                       "sleep", "recheck", "message", "event", "stage", "fail", "succeed",
                       "end", "gone"}]
  /\ age \in [Goals -> 0..MaxAge] /\ wake \in [Goals -> 0..MaxAge]
  /\ report \in [Goals -> [message : Outcomes, event : Outcomes, stage : Outcomes]]
  /\ published \in [Goals -> Nat] /\ checkedAt \in [Goals -> 0..MaxAge]
  /\ cancelledBeforeCheck \in [Goals -> BOOLEAN]

\* The CAN bridge receives a command at most once, and only for a goal that
\* succeeded, however cancels, timeouts and callbacks are ordered.
PublishedForSuccess ==
  \A g \in Goals :
    /\ published[g] <= 1
    /\ published[g] = 1 => state[g] = "succeeded"

\* A goal whose last sleep crossed its timeout is not reported as a success
\* (goal_deadline.hpp), and a success did its whole work.
SuccessInTime ==
  \A g \in Goals :
    state[g] = "succeeded" => checkedAt[g] >= Work /\ ~Expired(checkedAt[g])

\* A cancel that was accepted before the last check before success is honoured.
CancelHonoured ==
  \A g \in Goals : state[g] = "succeeded" => ~cancelledBeforeCheck[g]

\* "The loop cannot overshoot the deadline by a whole feedback period": no sleep
\* is planned beyond the deadline or beyond the end of the work.
SleepWithinBudget ==
  \A g \in Goals :
    pc[g] = "sleep" => wake[g] <= Work /\ (Enabled => wake[g] <= timeout)

\* While the node lives, a command that was sent to the server gets its result.
GoalAnswered ==
  \A g \in Goals :
    client[g] = "sent" ~> (client[g] \in {"succeeded", "failed"} \/ ~Ok)

\* The event table of the package's README pairs every event name with one
\* stage: action_cancelled with action_cancelled, action_goal_timeout with
\* action_goal_timeout.
StageMatchesEvent ==
  \A g \in Goals : pc[g] = "end" => report[g].stage = report[g].event
=============================================================================
