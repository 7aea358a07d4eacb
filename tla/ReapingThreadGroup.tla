------------------------ MODULE ReapingThreadGroup ------------------------
(***************************************************************************)
(* The worker pool of the CAN bridge and of the action manager             *)
(* (ai_robot_runtime_interfaces/.../reaping_thread_group.hpp), at the      *)
(* grain of its mutex, its closed_ flag and the done flag of each worker.  *)
(* The owner spawns, asks for the size and finally closes; a worker may    *)
(* spawn another worker (the CAN retry path).                              *)
(***************************************************************************)
EXTENDS Integers, FiniteSets

CONSTANTS Threads,   \* every worker thread that may ever be started
          Owner,     \* the thread of the node: executor, then destructor
          Nobody     \* the mutex is free

ASSUME ThreadsAssumption == Owner \notin Threads /\ Nobody \notin Threads \cup {Owner}

VARIABLES
  closed,     \* closed_
  lock,       \* who holds mutex_
  retained,   \* workers_: the handles the group keeps
  pending,    \* the handles close() has taken over and not yet joined
  scan,       \* the handles the mutex holder's reap_finished has still to visit
  st,         \* worker: "none", "body", "done" (flag set), "exited", "joined"
  pc,         \* caller: "idle", "spawn" or "size" (waiting for the mutex),
              \* "reap" or "count" (holding it), "ending", "swap", "join", "closed"
  busyAtLock  \* workers running when the mutex holder entered (history)

vars == <<closed, lock, retained, pending, scan, st, pc, busyAtLock>>

Callers == Threads \cup {Owner}
Running == {w \in Threads : st[w] = "body"}

-----------------------------------------------------------------------------
Init ==
  /\ closed = FALSE /\ lock = Nobody
  /\ retained = {} /\ pending = {} /\ scan = {}
  /\ st = [w \in Threads |-> "none"]
  /\ pc = [c \in Callers |-> "idle"]
  /\ busyAtLock = {}

Pool == <<closed, retained, pending>>

\* A worker's body spawns at most once, as its last act (on_ack_timeout).
Returned(c) == IF c = Owner THEN "idle" ELSE "ending"

\* A thread that runs calls spawn(); the owner also calls size().
Call(c, f) ==
  /\ pc[c] = "idle"
  /\ c = Owner \/ (f = "spawn" /\ c \in Running)
  /\ pc' = [pc EXCEPT ![c] = f]
  /\ UNCHANGED <<Pool, lock, scan, st, busyAtLock>>

\* spawn reads closed_ under the mutex; it is ignored once the group is closed.
SpawnIgnored(c) ==
  /\ pc[c] = "spawn" /\ lock = Nobody /\ closed
  /\ pc' = [pc EXCEPT ![c] = Returned(c)]
  /\ UNCHANGED <<Pool, lock, scan, st, busyAtLock>>

Enter(c) ==
  /\ lock = Nobody
  /\ \/ pc[c] = "spawn" /\ ~closed /\ pc' = [pc EXCEPT ![c] = "reap"]
     \/ pc[c] = "size" /\ pc' = [pc EXCEPT ![c] = "count"]
  /\ lock' = c
  /\ scan' = retained
  /\ busyAtLock' = Running
  /\ UNCHANGED <<Pool, st>>

\* reap_finished: a worker whose flag is set is joined, which waits for its
\* exit, and erased; one whose flag is clear is left alone.
ToJoinAll(w) == TRUE     \* mutant: the done flag is not consulted
ToJoin(w) == st[w] \in {"done", "exited"}

ReapNobody(c, w) ==      \* mutant: finished workers are left to the destructor
  /\ pc[c] \in {"reap", "count"} /\ w \in scan
  /\ scan' = scan \ {w}
  /\ UNCHANGED <<Pool, lock, st, pc, busyAtLock>>
ReapFinished(c, w) ==
  /\ pc[c] \in {"reap", "count"} /\ w \in scan
  /\ scan' = scan \ {w}
  /\ \/ ~ToJoin(w) /\ UNCHANGED <<st, retained>>
     \/ /\ ToJoin(w) /\ st[w] = "exited"
        /\ st' = [st EXCEPT ![w] = "joined"]
        /\ retained' = retained \ {w}
  /\ UNCHANGED <<closed, pending, lock, pc, busyAtLock>>

Start(c, w) ==
  /\ pc[c] = "reap" /\ scan = {} /\ st[w] = "none"
  /\ st' = [st EXCEPT ![w] = "body"]
  /\ retained' = retained \cup {w}
  /\ lock' = Nobody
  /\ pc' = [pc EXCEPT ![c] = Returned(c)]
  /\ UNCHANGED <<closed, pending, scan, busyAtLock>>

\* Bound of the instance: with no thread left to start, spawn does nothing.
OutOfThreads(c) ==
  /\ pc[c] = "reap" /\ scan = {} /\ \A w \in Threads : st[w] # "none"
  /\ lock' = Nobody
  /\ pc' = [pc EXCEPT ![c] = Returned(c)]
  /\ UNCHANGED <<Pool, scan, st, busyAtLock>>

SizeReturns(c) ==
  /\ pc[c] = "count" /\ scan = {}
  /\ lock' = Nobody
  /\ pc' = [pc EXCEPT ![c] = Returned(c)]
  /\ UNCHANGED <<Pool, scan, st, busyAtLock>>

\* The worker's wrapper: the body returns, the flag is set, then the thread
\* exits.  A body that throws has its flag set too, but the exception leaves the
\* std::thread and ends the process, which is not modelled.
BodyEnds(w) ==
  /\ st[w] = "body" /\ pc[w] \in {"idle", "ending"}
  /\ st' = [st EXCEPT ![w] = "done"]
  /\ UNCHANGED <<Pool, lock, scan, pc, busyAtLock>>
Exit(w) ==
  /\ st[w] = "done"
  /\ st' = [st EXCEPT ![w] = "exited"]
  /\ UNCHANGED <<Pool, lock, scan, pc, busyAtLock>>

\* close(): set the flag, take the handles under the mutex, join outside it.
CloseStore ==
  /\ pc[Owner] = "idle"
  /\ closed' = TRUE
  /\ pc' = [pc EXCEPT ![Owner] = "swap"]
  /\ UNCHANGED <<lock, retained, pending, scan, st, busyAtLock>>
CloseSwapHolding ==      \* mutant: the mutex is kept while joining
  /\ pc[Owner] = "swap" /\ lock = Nobody
  /\ pending' = retained /\ retained' = {}
  /\ lock' = Owner
  /\ pc' = [pc EXCEPT ![Owner] = "join"]
  /\ UNCHANGED <<closed, scan, st, busyAtLock>>
CloseSwapUnlocked ==     \* mutant: the handles are taken without the mutex
  /\ pc[Owner] = "swap"
  /\ pending' = retained /\ retained' = {}
  /\ pc' = [pc EXCEPT ![Owner] = "join"]
  /\ UNCHANGED <<closed, lock, scan, st, busyAtLock>>
CloseSwap ==
  /\ pc[Owner] = "swap" /\ lock = Nobody
  /\ pending' = retained /\ retained' = {}
  /\ pc' = [pc EXCEPT ![Owner] = "join"]
  /\ UNCHANGED <<closed, lock, scan, st, busyAtLock>>
CloseJoin(w) ==
  /\ pc[Owner] = "join" /\ w \in pending /\ st[w] = "exited"
  /\ st' = [st EXCEPT ![w] = "joined"]
  /\ pending' = pending \ {w}
  /\ UNCHANGED <<closed, lock, retained, scan, pc, busyAtLock>>
CloseReturns ==
  /\ pc[Owner] = "join" /\ pending = {}
  /\ pc' = [pc EXCEPT ![Owner] = "closed"]
  /\ UNCHANGED <<Pool, lock, scan, st, busyAtLock>>

\* close is idempotent: the group's own destructor calls it again.
CloseAgain ==
  /\ pc[Owner] = "closed"
  /\ pc' = [pc EXCEPT ![Owner] = "swap"]
  /\ UNCHANGED <<Pool, lock, scan, st, busyAtLock>>

Spawning(c) ==
  \/ SpawnIgnored(c) \/ Enter(c) \/ OutOfThreads(c) \/ SizeReturns(c)
  \/ \E w \in Threads : ReapFinished(c, w) \/ Start(c, w)
Closing == CloseSwap \/ CloseReturns \/ \E w \in Threads : CloseJoin(w)
Ending(w) == BodyEnds(w) \/ Exit(w)

Next ==
  \/ \E c \in Callers : Spawning(c) \/ \E f \in {"spawn", "size"} : Call(c, f)
  \/ \E w \in Threads : Ending(w)
  \/ Closing \/ CloseStore \/ CloseAgain

Spec == Init /\ [][Next]_vars

\* Threads run, and bodies are finite: every ACK wait, sleep and goal loop looks
\* at the node's shutdown flag.  Nothing makes the owner call anything.
Fairness ==
  /\ \A c \in Callers : WF_vars(Spawning(c))
  /\ \A w \in Threads : WF_vars(Ending(w))
  /\ WF_vars(Closing)

FairSpec == Spec /\ Fairness

-----------------------------------------------------------------------------
TypeOK ==
  /\ closed \in BOOLEAN
  /\ lock \in Callers \cup {Nobody}
  /\ retained \subseteq Threads /\ pending \subseteq Threads
  /\ scan \subseteq Threads /\ busyAtLock \subseteq Threads
  /\ st \in [Threads -> {"none", "body", "done", "exited", "joined"}]
  /\ pc \in [Callers -> {"idle", "spawn", "size", "reap", "count", "ending",
                         "swap", "join", "closed"}]

\* Once close() has returned nothing of the group is left: no worker runs, and
\* every worker that was ever started has been joined ("close stops new work
\* before joining, so a worker cannot re-enter the group").
ClosedIsEmpty ==
  pc[Owner] = "closed" =>
    /\ retained = {} /\ pending = {}
    /\ \A w \in Threads : st[w] \in {"none", "joined"}

\* "spawn never joins the thread it is called from", and no thread is joined
\* twice or through a handle that is no longer joinable.
JoinsOnlyOthers ==
  /\ \A c \in Callers : pc[c] \in {"reap", "count"} =>
       \A w \in scan : ToJoin(w) => w # c
  /\ \A w \in scan \cup retained \cup pending : st[w] \in {"body", "done", "exited"}

\* "The group stays proportional to the work actually in flight": what spawn
\* leaves in the group was running when it took the mutex, apart from the new one.
RetainedInFlight ==
  [][\A c \in Callers, w \in Threads :
       pc[c] = "reap" /\ st[w] = "none" /\ st'[w] = "body" =>
         retained' \subseteq busyAtLock \cup {w}]_vars

\* close() comes to an end: a worker blocked in spawn() can see closed_ and go.
CloseCompletes == (pc[Owner] \in {"swap", "join"}) ~> (pc[Owner] = "closed")
=============================================================================
