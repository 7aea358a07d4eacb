------------------------- MODULE LatencyProbeProofs -------------------------
(* Proofs about the latency probe, for every number of keys and messages. *)
EXTENDS LatencyProbe, FiniteSetTheorems, TLAPS

\* What the sampled and the waiting keys have in common with the messages
\* received, as long as nothing was forgotten.
Remembered ==
  Cardinality(Keys) <= capacity => \A i \in DOMAIN rows : rows[i].key \in completed
Accounted ==
  Cardinality(Keys) < capacity =>
    /\ \A k \in Keys, t \in Times : <<k, t>> \in seenInput => k \in Held(inputs) \cup completed
    /\ \A k \in Keys, t \in Times :
         <<k, t>> \in seenCompletion => k \in Held(completions) \cup completed

\* What waits was received.
WaitingSeen ==
  /\ \A k \in Held(inputs) : <<k, inputs[k]>> \in seenInput
  /\ \A k \in Held(completions) : <<k, completions[k]>> \in seenCompletion

IInv == /\ TypeOK /\ OneSide /\ WithinCapacity /\ RowsGenuine /\ SampledOnce
        /\ Remembered /\ Accounted /\ WaitingSeen

-----------------------------------------------------------------------------
\* Keys are finitely many, and so is every set of them.
LEMMA FiniteKeys ==
  ASSUME NEW S \in SUBSET Keys
  PROVE  IsFiniteSet(S) /\ Cardinality(S) \in Nat /\ Cardinality(S) <= Cardinality(Keys)
         /\ Cardinality(Keys) \in Nat
BY FS_Subset, FS_CardinalityType, ProbeAssumption

LEMMA AddOne ==
  ASSUME NEW S, IsFiniteSet(S), NEW x
  PROVE  /\ Cardinality(S) \in Nat /\ Cardinality(S \cup {x}) \in Nat
         /\ Cardinality(S \cup {x}) <= Cardinality(S) + 1
<1>1. Cardinality(S) \in Nat BY FS_CardinalityType
<1>2. Cardinality(S \cup {x}) = IF x \in S THEN Cardinality(S) ELSE Cardinality(S) + 1
  BY FS_AddElement
<1> QED BY <1>1, <1>2

\* Hold keeps the container's type and its bound, stores k, adds nothing else,
\* and erases nothing while there are fewer keys than the bound.
LEMMA HoldKeeps ==
  ASSUME NEW pending \in [Keys -> Times \cup {Absent}], NEW k \in Keys, NEW t \in Times,
         capacity \in Nat \ {0}, Cardinality(Held(pending)) <= capacity,
         NEW q \in Hold(pending, k, t)
  PROVE  /\ q \in [Keys -> Times \cup {Absent}]
         /\ q[k] = t /\ k \in Held(q)
         /\ Held(q) \subseteq Held(pending) \cup {k}
         /\ \A j \in Held(q) : j # k => q[j] = pending[j]
         /\ Cardinality(Held(q)) <= capacity
         /\ Cardinality(Keys) < capacity => Held(q) = Held(pending) \cup {k}
<1>0. Held(pending) \subseteq Keys /\ t # Absent /\ Absent = 0
  BY ProbeAssumption DEF Held, Absent
<1>1. IsFiniteSet(Held(pending)) /\ Cardinality(Held(pending)) \in Nat
      /\ Cardinality(Held(pending)) <= Cardinality(Keys) /\ Cardinality(Keys) \in Nat
  BY <1>0, FiniteKeys
<1>2. CASE Cardinality(Held(pending)) >= capacity
  <2>1. PICK old \in Held(pending) : q = [pending EXCEPT ![old] = Absent, ![k] = t]
    BY <1>2 DEF Hold
  <2>2. Held(q) = (Held(pending) \ {old}) \cup {k}
    BY <2>1, <1>0 DEF Held
  <2>3. IsFiniteSet(Held(pending) \ {old})
        /\ Cardinality(Held(pending) \ {old}) = Cardinality(Held(pending)) - 1
    BY <2>1, <1>1, FS_RemoveElement
  <2>4. /\ Cardinality(Held(q)) \in Nat
        /\ Cardinality(Held(q)) <= Cardinality(Held(pending) \ {old}) + 1
    BY <2>2, <2>3, AddOne, Zenon
  <2>5. q \in [Keys -> Times \cup {Absent}] /\ q[k] = t
        /\ \A j \in Held(q) : j # k => q[j] = pending[j]
    BY <2>1, <2>2, <1>0
  <2>6. Cardinality(Held(q)) <= capacity
    BY <2>3, <2>4, <1>1
  <2>7. ~(Cardinality(Keys) < capacity) BY <1>1, <1>2
  <2> QED BY <2>2, <2>5, <2>6, <2>7
<1>3. CASE ~(Cardinality(Held(pending)) >= capacity)
  <2>1. q = [pending EXCEPT ![k] = t] BY <1>3 DEF Hold
  <2>2. Held(q) = Held(pending) \cup {k} BY <2>1, <1>0 DEF Held
  <2>3. /\ Cardinality(Held(q)) \in Nat
        /\ Cardinality(Held(q)) <= Cardinality(Held(pending)) + 1
    BY <2>2, <1>1, AddOne, Zenon
  <2>4. q \in [Keys -> Times \cup {Absent}] /\ q[k] = t
        /\ \A j \in Held(q) : j # k => q[j] = pending[j]
    BY <2>1, <2>2, <1>0
  <2>5. Cardinality(Held(q)) <= capacity
    BY <2>3, <1>1, <1>3
  <2> QED BY <2>2, <2>4, <2>5
<1> QED BY <1>2, <1>3

\* remember_completed_locked keeps the bound and forgets nothing while there
\* are no more keys than it.
LEMMA RememberKeeps ==
  ASSUME completed \subseteq Keys, NEW k \in Keys \ completed, capacity \in Nat \ {0},
         Cardinality(completed) <= capacity, RememberCompleted(k)
  PROVE  /\ k \in completed' /\ completed' \subseteq completed \cup {k}
         /\ Cardinality(completed') <= capacity
         /\ Cardinality(Keys) <= capacity => completed' = completed \cup {k}
<1>1. IsFiniteSet(completed) /\ Cardinality(completed) \in Nat BY FiniteKeys
<1>2. Cardinality(completed \cup {k}) = Cardinality(completed) + 1 BY <1>1, FS_AddElement
<1>3. completed \cup {k} \in SUBSET Keys OBVIOUS
<1>4. Cardinality(completed) + 1 <= Cardinality(Keys) /\ Cardinality(Keys) \in Nat
  BY <1>2, <1>3, FiniteKeys
<1>5. Cardinality({k}) = 1 BY FS_Singleton
<1>6. CASE Cardinality(completed) >= capacity
  <2>1. completed' = {k} BY <1>6 DEF RememberCompleted
  <2> QED BY <2>1, <1>5, <1>4, <1>6, <1>1
<1>7. CASE ~(Cardinality(completed) >= capacity)
  <2>1. completed' = completed \cup {k} BY <1>7 DEF RememberCompleted
  <2> QED BY <2>1, <1>2, <1>7, <1>1
<1> QED BY <1>6, <1>7

LEMMA HeldType == ASSUME NEW f PROVE Held(f) \in SUBSET Keys
BY DEF Held

LEMMA CapacityPositive == TypeOK => capacity \in Nat \ {0}
BY ProbeAssumption DEF TypeOK

\* What the invariant says of the next state follows from what the handlers do
\* to the two waiting sides, to completed and to the rows.
LEMMA InitIInv == Init => IInv
<1> SUFFICES ASSUME Init PROVE IInv OBVIOUS
<1>1. Held(inputs) = {} /\ Held(completions) = {} /\ completed = {} /\ rows = << >>
  BY DEF Init, Held
<1>2. capacity \in Nat \ {0} BY ProbeAssumption DEF Init
<1>3. Cardinality({}) = 0 BY FS_EmptySet
<1>4. TypeOK BY ProbeAssumption DEF Init, TypeOK, Absent
<1>5. WithinCapacity BY <1>1, <1>2, <1>3 DEF WithinCapacity
<1>6. OneSide BY <1>1 DEF OneSide
<1>7. RowsGenuine /\ SampledOnce /\ Remembered
  BY <1>1 DEF RowsGenuine, SampledOnce, Remembered
<1>8. Accounted BY DEF Init, Accounted
<1>9. WaitingSeen BY <1>1 DEF WaitingSeen
<1> QED BY <1>9, <1>4, <1>5, <1>6, <1>7, <1>8 DEF IInv

\* A pair is found: the key leaves the other side (left of it is rest), joins
\* completed, and its row is written unless the latency is negative.
LEMMA PairFound ==
  ASSUME IInv, NEW k \in Keys \ completed, NEW start \in Times, NEW end \in Times,
         <<k, start>> \in seenInput', <<k, end>> \in seenCompletion',
         WriteSample(k, start, end), RememberCompleted(k),
         seenInput \subseteq seenInput', seenCompletion \subseteq seenCompletion',
         capacity' = capacity
  PROVE  /\ rows' \in Seq([key : Keys, start : Times, end : Times])
         /\ RowsGenuine' /\ SampledOnce' /\ Remembered'
<1>1. /\ completed' \subseteq completed \cup {k} /\ k \in completed'
      /\ Cardinality(Keys) <= capacity => completed' = completed \cup {k}
  BY RememberKeeps, CapacityPositive DEF IInv, TypeOK, WithinCapacity
<1>2. rows \in Seq([key : Keys, start : Times, end : Times]) BY DEF IInv, TypeOK
<1>3. CASE end < start
  <2>1. rows' = rows BY <1>3 DEF WriteSample
  <2>2. RowsGenuine' BY <2>1 DEF IInv, RowsGenuine
  <2>3. SampledOnce' BY <2>1 DEF IInv, SampledOnce
  <2>4. Remembered' BY <2>1, <1>1 DEF IInv, Remembered
  <2> QED BY <2>1, <2>2, <2>3, <2>4, <1>2
<1>4. CASE ~(end < start)
  <2> DEFINE row == [key |-> k, start |-> start, end |-> end]
  <2>1. rows' = Append(rows, row) BY <1>4 DEF WriteSample
  <2>2. row \in [key : Keys, start : Times, end : Times] OBVIOUS
  <2>3. /\ rows' \in Seq([key : Keys, start : Times, end : Times])
        /\ DOMAIN rows' = DOMAIN rows \cup {Len(rows) + 1}
        /\ rows'[Len(rows) + 1] = row
        /\ \A i \in DOMAIN rows : rows'[i] = rows[i] /\ i # Len(rows) + 1
    BY <2>1, <2>2, <1>2
  <2>4. start <= end BY <1>4, ProbeAssumption
  <2>5. RowsGenuine' BY <2>3, <2>4 DEF IInv, RowsGenuine
  <2>6. SampledOnce'
    <3> SUFFICES ASSUME Cardinality(Keys) <= capacity, NEW i \in DOMAIN rows',
                        NEW j \in DOMAIN rows', rows'[i].key = rows'[j].key
                 PROVE  i = j
      BY DEF SampledOnce
    <3>1. \A n \in DOMAIN rows : rows'[n].key \in completed /\ rows'[n].key # k
      BY <2>3 DEF IInv, Remembered
    <3>2. \A m, n \in DOMAIN rows : rows'[m].key = rows'[n].key => m = n
      BY <2>3 DEF IInv, SampledOnce
    <3> QED BY <2>3, <3>1, <3>2
  <2>7. Remembered' BY <2>3, <1>1 DEF IInv, Remembered
  <2> QED BY <2>3, <2>5, <2>6, <2>7
<1> QED BY <1>3, <1>4

LEMMA OnInputStep ==
  ASSUME IInv, NEW k \in Keys, NEW t \in Times, OnInput(k, t), UNCHANGED capacity,
         received' \in 0..MaxMessages
  PROVE  IInv'
<1>1. /\ seenInput' = seenInput \cup {<<k, t>>} /\ seenCompletion' = seenCompletion
      /\ <<k, t>> \in seenInput' /\ capacity \in Nat \ {0}
  BY CapacityPositive DEF OnInput, IInv
<1>2. /\ seenInput' \subseteq Keys \X Times /\ seenCompletion' \subseteq Keys \X Times
      /\ capacity' \in Capacities
  BY <1>1 DEF IInv, TypeOK
<1>3. /\ inputs \in [Keys -> Times \cup {Absent}]
      /\ completions \in [Keys -> Times \cup {Absent}]
      /\ completed \in SUBSET Keys
  BY DEF IInv, TypeOK
<1>a. CASE k \in completed /\ UNCHANGED <<inputs, completions, completed, rows>>
  <2>1. TypeOK' BY <1>a, <1>2 DEF IInv, TypeOK
  <2>2. OneSide' BY <1>a DEF IInv, OneSide, Held
  <2>3. WithinCapacity' BY <1>a DEF IInv, WithinCapacity, Held
  <2>4. RowsGenuine' BY <1>a, <1>1 DEF IInv, RowsGenuine
  <2>5. SampledOnce' /\ Remembered' BY <1>a DEF IInv, SampledOnce, Remembered
  <2>6. Accounted' BY <1>a, <1>1 DEF IInv, Accounted, Held
  <2>7. WaitingSeen' BY <1>a, <1>1 DEF IInv, WaitingSeen, Held
  <2> QED BY <2>1, <2>2, <2>3, <2>4, <2>5, <2>6, <2>7 DEF IInv
<1>b. CASE /\ k \notin completed /\ completions[k] # Absent
           /\ WriteSample(k, t, completions[k])
           /\ completions' = [completions EXCEPT ![k] = Absent]
           /\ RememberCompleted(k) /\ UNCHANGED inputs
  <2>1. completions[k] \in Times /\ k \in Held(completions) BY <1>b, <1>3 DEF Held
  <2>2. <<k, completions[k]>> \in seenCompletion BY <2>1 DEF IInv, WaitingSeen
  <2>3. /\ rows' \in Seq([key : Keys, start : Times, end : Times])
        /\ RowsGenuine' /\ SampledOnce' /\ Remembered'
    BY <1>b, <1>1, <2>1, <2>2, PairFound
  <2>4. /\ k \in completed' /\ completed' \subseteq completed \cup {k}
        /\ Cardinality(completed') <= capacity
        /\ Cardinality(Keys) <= capacity => completed' = completed \cup {k}
    BY <1>b, <1>1, RememberKeeps DEF IInv, TypeOK, WithinCapacity
  <2>5. Held(completions)' = Held(completions) \ {k} /\ Held(inputs)' = Held(inputs)
    BY <1>b, <1>3 DEF Held
  <2>6. TypeOK' BY <1>b, <1>2, <1>3, <2>3, <2>4 DEF IInv, TypeOK
  <2>7. OneSide' BY <2>1, <2>4, <2>5 DEF IInv, OneSide
  <2>8. WithinCapacity'
    <3>1. Cardinality(Held(completions)') \in Nat /\ Cardinality(Held(completions)) \in Nat
          /\ Cardinality(Held(completions)') <= Cardinality(Held(completions))
      BY <2>5, HeldType, FiniteKeys, FS_Subset
    <3> QED BY <3>1, <2>4, <2>5, <1>1 DEF IInv, WithinCapacity
  <2>9. Accounted'
    <3>1. Cardinality(Keys) \in Nat BY FiniteKeys
    <3> QED BY <3>1, <1>1, <2>4, <2>5 DEF IInv, Accounted
  <2>10. WaitingSeen'
    <3>1. \A j \in Held(completions)' : j \in Held(completions) /\ completions'[j] = completions[j]
      BY <1>b, <1>3, <2>5 DEF Held
    <3>2. \A j \in Held(completions)' : <<j, completions'[j]>> \in seenCompletion'
      BY <3>1, <1>1 DEF IInv, WaitingSeen
    <3>3. \A j \in Held(inputs)' : <<j, inputs'[j]>> \in seenInput'
      BY <1>b, <1>1, <2>5 DEF IInv, WaitingSeen
    <3> QED BY <3>2, <3>3 DEF WaitingSeen
  <2> QED BY <2>3, <2>6, <2>7, <2>8, <2>9, <2>10 DEF IInv
<1>c. CASE /\ k \notin completed /\ completions[k] = Absent
           /\ inputs' \in Hold(inputs, k, t)
           /\ UNCHANGED <<completions, completed, rows>>
  <2>1. Cardinality(Held(inputs)) <= capacity BY DEF IInv, WithinCapacity
  <2>2. /\ inputs' \in [Keys -> Times \cup {Absent}]
        /\ inputs'[k] = t /\ k \in Held(inputs')
        /\ Held(inputs') \subseteq Held(inputs) \cup {k}
        /\ \A j \in Held(inputs') : j # k => inputs'[j] = inputs[j]
        /\ Cardinality(Held(inputs')) <= capacity
        /\ Cardinality(Keys) < capacity => Held(inputs') = Held(inputs) \cup {k}
    BY <1>1, <1>3, <1>c, <2>1, HoldKeeps
  <2>3. Held(inputs)' = Held(inputs') /\ Held(completions)' = Held(completions) BY <1>c DEF Held
  <2>4. k \notin Held(completions) BY <1>c DEF Held
  <2>5. TypeOK' BY <1>c, <1>2, <1>3, <2>2 DEF IInv, TypeOK
  <2>6. OneSide' BY <1>c, <2>2, <2>3, <2>4 DEF IInv, OneSide
  <2>7. WithinCapacity' BY <1>c, <2>2, <2>3, <1>1 DEF IInv, WithinCapacity
  <2>8. RowsGenuine' BY <1>c, <1>1 DEF IInv, RowsGenuine
  <2>9. SampledOnce' /\ Remembered' BY <1>c DEF IInv, SampledOnce, Remembered
  <2>10. Accounted' BY <1>c, <1>1, <2>2, <2>3 DEF IInv, Accounted
  <2>11. WaitingSeen' BY <1>c, <1>1, <2>2, <2>3 DEF IInv, WaitingSeen
  <2> QED BY <2>5, <2>6, <2>7, <2>8, <2>9, <2>10, <2>11 DEF IInv
<1> QED BY <1>a, <1>b, <1>c DEF OnInput

LEMMA OnCompletionStep ==
  ASSUME IInv, NEW k \in Keys, NEW t \in Times, OnCompletion(k, t), UNCHANGED capacity,
         received' \in 0..MaxMessages
  PROVE  IInv'
<1>1. /\ seenCompletion' = seenCompletion \cup {<<k, t>>} /\ seenInput' = seenInput
      /\ <<k, t>> \in seenCompletion' /\ capacity \in Nat \ {0}
  BY CapacityPositive DEF OnCompletion, IInv
<1>2. /\ seenCompletion' \subseteq Keys \X Times /\ seenInput' \subseteq Keys \X Times
      /\ capacity' \in Capacities
  BY <1>1 DEF IInv, TypeOK
<1>3. /\ inputs \in [Keys -> Times \cup {Absent}]
      /\ completions \in [Keys -> Times \cup {Absent}]
      /\ completed \in SUBSET Keys
  BY DEF IInv, TypeOK
<1>a. CASE k \in completed /\ UNCHANGED <<inputs, completions, completed, rows>>
  <2>1. TypeOK' BY <1>a, <1>2 DEF IInv, TypeOK
  <2>2. OneSide' BY <1>a DEF IInv, OneSide, Held
  <2>3. WithinCapacity' BY <1>a DEF IInv, WithinCapacity, Held
  <2>4. RowsGenuine' BY <1>a, <1>1 DEF IInv, RowsGenuine
  <2>5. SampledOnce' /\ Remembered' BY <1>a DEF IInv, SampledOnce, Remembered
  <2>6. Accounted' BY <1>a, <1>1 DEF IInv, Accounted, Held
  <2>7. WaitingSeen' BY <1>a, <1>1 DEF IInv, WaitingSeen, Held
  <2> QED BY <2>1, <2>2, <2>3, <2>4, <2>5, <2>6, <2>7 DEF IInv
<1>b. CASE /\ k \notin completed /\ inputs[k] # Absent
           /\ WriteSample(k, inputs[k], t)
           /\ inputs' = [inputs EXCEPT ![k] = Absent]
           /\ RememberCompleted(k) /\ UNCHANGED completions
  <2>1. inputs[k] \in Times /\ k \in Held(inputs) BY <1>b, <1>3 DEF Held
  <2>2. <<k, inputs[k]>> \in seenInput BY <2>1 DEF IInv, WaitingSeen
  <2>3. /\ rows' \in Seq([key : Keys, start : Times, end : Times])
        /\ RowsGenuine' /\ SampledOnce' /\ Remembered'
    BY <1>b, <1>1, <2>1, <2>2, PairFound
  <2>4. /\ k \in completed' /\ completed' \subseteq completed \cup {k}
        /\ Cardinality(completed') <= capacity
        /\ Cardinality(Keys) <= capacity => completed' = completed \cup {k}
    BY <1>b, <1>1, RememberKeeps DEF IInv, TypeOK, WithinCapacity
  <2>5. Held(inputs)' = Held(inputs) \ {k} /\ Held(completions)' = Held(completions)
    BY <1>b, <1>3 DEF Held
  <2>6. TypeOK' BY <1>b, <1>2, <1>3, <2>3, <2>4 DEF IInv, TypeOK
  <2>7. OneSide' BY <2>1, <2>4, <2>5 DEF IInv, OneSide
  <2>8. WithinCapacity'
    <3>1. Cardinality(Held(inputs)') \in Nat /\ Cardinality(Held(inputs)) \in Nat
          /\ Cardinality(Held(inputs)') <= Cardinality(Held(inputs))
      BY <2>5, HeldType, FiniteKeys, FS_Subset
    <3> QED BY <3>1, <2>4, <2>5, <1>1 DEF IInv, WithinCapacity
  <2>9. Accounted'
    <3>1. Cardinality(Keys) \in Nat BY FiniteKeys
    <3> QED BY <3>1, <1>1, <2>4, <2>5 DEF IInv, Accounted
  <2>10. WaitingSeen'
    <3>1. \A j \in Held(inputs)' : j \in Held(inputs) /\ inputs'[j] = inputs[j]
      BY <1>b, <1>3, <2>5 DEF Held
    <3>2. \A j \in Held(inputs)' : <<j, inputs'[j]>> \in seenInput'
      BY <3>1, <1>1 DEF IInv, WaitingSeen
    <3>3. \A j \in Held(completions)' : <<j, completions'[j]>> \in seenCompletion'
      BY <1>b, <1>1, <2>5 DEF IInv, WaitingSeen
    <3> QED BY <3>2, <3>3 DEF WaitingSeen
  <2> QED BY <2>3, <2>6, <2>7, <2>8, <2>9, <2>10 DEF IInv
<1>c. CASE /\ k \notin completed /\ inputs[k] = Absent
           /\ completions' \in Hold(completions, k, t)
           /\ UNCHANGED <<inputs, completed, rows>>
  <2>1. Cardinality(Held(completions)) <= capacity BY DEF IInv, WithinCapacity
  <2>2. /\ completions' \in [Keys -> Times \cup {Absent}]
        /\ completions'[k] = t /\ k \in Held(completions')
        /\ Held(completions') \subseteq Held(completions) \cup {k}
        /\ \A j \in Held(completions') : j # k => completions'[j] = completions[j]
        /\ Cardinality(Held(completions')) <= capacity
        /\ Cardinality(Keys) < capacity => Held(completions') = Held(completions) \cup {k}
    BY <1>1, <1>3, <1>c, <2>1, HoldKeeps
  <2>3. Held(completions)' = Held(completions') /\ Held(inputs)' = Held(inputs) BY <1>c DEF Held
  <2>4. k \notin Held(inputs) BY <1>c DEF Held
  <2>5. TypeOK' BY <1>c, <1>2, <1>3, <2>2 DEF IInv, TypeOK
  <2>6. OneSide' BY <1>c, <2>2, <2>3, <2>4 DEF IInv, OneSide
  <2>7. WithinCapacity' BY <1>c, <2>2, <2>3, <1>1 DEF IInv, WithinCapacity
  <2>8. RowsGenuine' BY <1>c, <1>1 DEF IInv, RowsGenuine
  <2>9. SampledOnce' /\ Remembered' BY <1>c DEF IInv, SampledOnce, Remembered
  <2>10. Accounted' BY <1>c, <1>1, <2>2, <2>3 DEF IInv, Accounted
  <2>11. WaitingSeen' BY <1>c, <1>1, <2>2, <2>3 DEF IInv, WaitingSeen
  <2> QED BY <2>5, <2>6, <2>7, <2>8, <2>9, <2>10, <2>11 DEF IInv
<1> QED BY <1>a, <1>b, <1>c DEF OnCompletion

LEMMA StepIInv == IInv /\ [Next]_vars => IInv'
<1> SUFFICES ASSUME IInv, [Next]_vars PROVE IInv' OBVIOUS
<1>1. CASE Next
  <2>1. UNCHANGED capacity /\ received' \in 0..MaxMessages
    BY <1>1, ProbeAssumption DEF Next, IInv, TypeOK
  <2>2. PICK k \in Keys, t \in Times : OnInput(k, t) \/ OnCompletion(k, t)
    BY <1>1 DEF Next
  <2> QED BY <2>1, <2>2, OnInputStep, OnCompletionStep
<1>2. CASE UNCHANGED vars
  BY <1>2 DEF vars, IInv, TypeOK, OneSide, WithinCapacity, RowsGenuine, SampledOnce,
              Remembered, Accounted, WaitingSeen, Held
<1> QED BY <1>1, <1>2

LEMMA Invariant == Spec => []IInv
<1>1. IInv /\ [Next]_vars => IInv' BY StepIInv
<1> QED BY InitIInv, <1>1, PTL DEF Spec

\* No pair is left waiting on both sides (on_input and on_completion).
THEOREM NoPairLeftWaiting == Spec => []OneSide
<1>1. IInv => OneSide BY DEF IInv
<1> QED BY Invariant, <1>1, PTL

\* The probe's memory is bounded by max_pending_samples.
THEOREM MemoryBounded == Spec => []WithinCapacity
<1>1. IInv => WithinCapacity BY DEF IInv
<1> QED BY Invariant, <1>1, PTL

\* Every row is a real pair with a latency that is not negative.
THEOREM OnlyGenuineRows == Spec => []RowsGenuine
<1>1. IInv => RowsGenuine BY DEF IInv
<1> QED BY Invariant, <1>1, PTL

\* Retries of a command do not sample it again while the set of completed keys
\* can hold all of them.
THEOREM NoDoubleSample == Spec => []SampledOnce
<1>1. IInv => SampledOnce BY DEF IInv
<1> QED BY Invariant, <1>1, PTL

\* Below capacity every command with both messages received was completed.
THEOREM EveryPairFound == Spec => []NoPairMissed
<1>1. IInv => NoPairMissed BY HeldType DEF IInv, Accounted, OneSide, NoPairMissed
<1> QED BY Invariant, <1>1, PTL
=============================================================================
