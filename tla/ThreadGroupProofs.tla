------------------------- MODULE ThreadGroupProofs -------------------------
(* Theorems about ReapingThreadGroup for any set of threads. *)
EXTENDS ReapingThreadGroup, TLAPS

Holding == {"reap", "count"}

\* Who holds the mutex is in the code that needs it, and nobody else is.
LockInv ==
  /\ \A c \in Callers : pc[c] \in Holding <=> lock = c
  /\ scan \subseteq retained
  /\ lock = Nobody => scan = {}
  /\ \A w \in Threads :
       /\ pc[w] \in {"spawn", "reap"} => st[w] = "body"
       /\ pc[w] \in {"idle", "spawn", "reap", "ending"}

\* Every started worker is in exactly one of the two lists until it is joined.
HandleInv ==
  /\ \A w \in Threads : w \in retained \cup pending <=> st[w] \in {"body", "done", "exited"}
  /\ retained \cap pending = {}
  /\ pending # {} => pc[Owner] = "join"
  /\ pc[Owner] \in {"swap", "join", "closed"} => closed
  /\ pc[Owner] \in {"join", "closed"} =>
       /\ retained = {}
       /\ lock = Nobody

\* Workers running while the mutex is held were running when it was taken.
BusyInv ==
  /\ lock # Nobody => Running \subseteq busyAtLock
  /\ lock # Nobody => (retained \ scan) \subseteq busyAtLock

IInv == TypeOK /\ LockInv /\ HandleInv /\ BusyInv

LEMMA InitIInv == Init => IInv
  BY ThreadsAssumption
  DEF Init, IInv, TypeOK, LockInv, HandleInv, BusyInv, Callers, Running, Holding

LEMMA StepIInv == IInv /\ [Next]_vars => IInv'
  <1> SUFFICES ASSUME IInv, [Next]_vars PROVE IInv'
    OBVIOUS
  <1> USE ThreadsAssumption
      DEF IInv, TypeOK, LockInv, HandleInv, BusyInv, Callers, Running, Holding, Pool
  <1>1. ASSUME NEW c \in Callers, NEW f \in {"spawn", "size"}, Call(c, f) PROVE IInv'
    BY <1>1 DEF Call
  <1>2. ASSUME NEW c \in Callers, SpawnIgnored(c) PROVE IInv'
    BY <1>2 DEF SpawnIgnored, Returned
  <1>3. ASSUME NEW c \in Callers, Enter(c) PROVE IInv'
    BY <1>3 DEF Enter
  <1>4. ASSUME NEW c \in Callers, OutOfThreads(c) PROVE IInv'
    BY <1>4 DEF OutOfThreads, Returned
  <1>5. ASSUME NEW c \in Callers, SizeReturns(c) PROVE IInv'
    BY <1>5 DEF SizeReturns, Returned
  <1>6. ASSUME NEW c \in Callers, NEW w \in Threads, ReapFinished(c, w) PROVE IInv'
    BY <1>6 DEF ReapFinished, ToJoin
  <1>7. ASSUME NEW c \in Callers, NEW w \in Threads, Start(c, w) PROVE IInv'
    BY <1>7 DEF Start, Returned
  <1>8. ASSUME NEW w \in Threads, Ending(w) PROVE IInv'
    BY <1>8 DEF Ending, BodyEnds, Exit
  <1>9. CASE CloseStore
    BY <1>9 DEF CloseStore
  <1>10. CASE CloseSwap
    BY <1>10 DEF CloseSwap
  <1>11. ASSUME NEW w \in Threads, CloseJoin(w) PROVE IInv'
    BY <1>11 DEF CloseJoin
  <1>12. CASE CloseReturns
    BY <1>12 DEF CloseReturns
  <1>13. CASE CloseAgain
    BY <1>13 DEF CloseAgain
  <1>14. CASE UNCHANGED vars
    BY <1>14 DEF vars
  <1> QED
    BY <1>1, <1>2, <1>3, <1>4, <1>5, <1>6, <1>7, <1>8, <1>9, <1>10, <1>11, <1>12,
       <1>13, <1>14 DEF Next, Spawning, Closing

LEMMA Invariant == Spec => []IInv
  BY InitIInv, StepIInv, PTL DEF Spec

\* However calls, workers and close interleave, nothing outlives close().
THEOREM NothingOutlivesClose == Spec => []ClosedIsEmpty
  <1>1. IInv => ClosedIsEmpty
    BY DEF IInv, TypeOK, LockInv, HandleInv, ClosedIsEmpty
  <1> QED
    BY <1>1, Invariant, PTL

\* No thread joins itself, and no handle is joined twice.
THEOREM NoSelfJoin == Spec => []JoinsOnlyOthers
  <1>1. IInv => JoinsOnlyOthers
    BY DEF IInv, TypeOK, LockInv, HandleInv, JoinsOnlyOthers, ToJoin, Callers, Holding
  <1> QED
    BY <1>1, Invariant, PTL

\* The group never keeps a worker that had finished when spawn reaped.
THEOREM GroupInFlight == Spec => RetainedInFlight
  <1>1. ASSUME IInv, [Next]_vars,
               NEW c \in Callers, NEW w \in Threads,
               pc[c] = "reap", st[w] = "none", st'[w] = "body"
        PROVE retained' \subseteq busyAtLock \cup {w}
    <2>1. PICK d \in Callers : Start(d, w)
      BY <1>1 DEF IInv, TypeOK, Next, Spawning, Closing, Ending, Call, SpawnIgnored, Enter,
                  OutOfThreads, SizeReturns, ReapFinished, Start, BodyEnds, Exit, CloseStore,
                  CloseSwap, CloseJoin, CloseReturns, CloseAgain, vars
    <2> QED
      BY <1>1, <2>1, ThreadsAssumption DEF Start, IInv, TypeOK, LockInv, BusyInv, Callers, Holding
  <1>2. IInv /\ [Next]_vars =>
          [\A c \in Callers, w \in Threads :
             pc[c] = "reap" /\ st[w] = "none" /\ st'[w] = "body" =>
               retained' \subseteq busyAtLock \cup {w}]_vars
    BY <1>1
  <1> QED
    BY <1>2, Invariant, PTL DEF Spec, RetainedInFlight
=============================================================================
