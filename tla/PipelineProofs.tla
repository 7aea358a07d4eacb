--------------------------- MODULE PipelineProofs ---------------------------
(***************************************************************************)
(* What holds of DiagnosisPipeline, and of the OptimizationCampaign in it, *)
(* for every set of profiles, thresholds, values, budgets, outcomes and    *)
(* commits: a formal campaign's results come from one commit, what was     *)
(* written stays, a campaign acts only on a cause that the evidence        *)
(* singles out, and its decision is what its records show.  And for every  *)
(* number of frames, threads, probes and damaged rows: the stage windows   *)
(* attribute what the planner's threads did, and trials measure what       *)
(* happened to the frames.  And for every number of commands, retries and  *)
(* lost or doubled rows: the ACK lifecycles that the adapters accept are   *)
(* those that happened, and a whole capture passes.                        *)
(***************************************************************************)
EXTENDS DiagnosisPipeline, FiniteSetTheorems, WellFoundedInduction, TLAPS

-----------------------------------------------------------------------------
(* Finite sets, folds and sums.                                            *)

\* A set of naturals has a least one.
LEMMA NatMin ==
  ASSUME NEW T \in SUBSET Nat, T # {}
  PROVE  \E k \in T : \A j \in T : k <= j
<1> DEFINE R == OpToRel(<, Nat)
<1>1. IsWellFoundedOn(R, Nat)
  BY NatLessThanWellFounded
<1>2. \A x, y \in Nat : y < x => <<y, x>> \in R
  BY DEF OpToRel
<1> HIDE DEF R
<1>3. \E x \in T : \A y \in T : ~(<<y, x>> \in R)
  BY <1>1, WFMin
<1>4. PICK x \in T : \A y \in T : ~(<<y, x>> \in R)
  BY <1>3
<1>5. ASSUME NEW y \in T PROVE x <= y
  <2>1. ~(y < x)
    BY <1>2, <1>4
  <2> QED
    BY <2>1
<1> QED
  BY <1>5

\* A set of naturals that holds 0 and all successors is Nat.
LEMMA Induction ==
  ASSUME NEW T \in SUBSET Nat, 0 \in T, \A k \in T : k + 1 \in T
  PROVE  T = Nat
<1> SUFFICES ASSUME T # Nat PROVE FALSE
  OBVIOUS
<1>1. PICK k \in Nat \ T : \A j \in Nat \ T : k <= j
  BY NatMin
<1>2. k - 1 \in Nat /\ k - 1 \notin Nat \ T
  BY <1>1
<1> QED
  BY <1>1, <1>2

\* f is the fold over S, the next element of a set by `pick`.
Folds(f, S, base, pick, step) ==
  \A s \in SUBSET S :
     f[s] = IF s = {} THEN base ELSE step[<<pick[s], f[s \ {pick[s]}]>>]

\* The recursion of the community folds over a finite set has a solution.
LEMMA FoldExists ==
  ASSUME NEW S, IsFiniteSet(S), NEW V, NEW base \in V,
         NEW pick, \A s \in SUBSET S : s # {} => pick[s] \in s,
         NEW step, \A x \in S, v \in V : step[<<x, v>>] \in V
  PROVE  \E f \in [SUBSET S -> V] : Folds(f, S, base, pick, step)
<1> DEFINE G(f, s) == IF s = {} THEN base ELSE step[<<pick[s], f[s \ {pick[s]}]>>]
           T == {k \in Nat : \E f \in [SUBSET S -> V] : \A s \in SUBSET S :
                                Cardinality(s) <= k => f[s] = G(f, s)}
<1>0. \A s \in SUBSET S :
         /\ IsFiniteSet(s) /\ Cardinality(s) \in Nat
         /\ s # {} => /\ pick[s] \in S /\ s \ {pick[s]} \in SUBSET S
                      /\ Cardinality(s) > 0
                      /\ Cardinality(s \ {pick[s]}) = Cardinality(s) - 1
  <2> SUFFICES ASSUME NEW s \in SUBSET S
      PROVE /\ IsFiniteSet(s) /\ Cardinality(s) \in Nat
            /\ s # {} => /\ pick[s] \in S /\ s \ {pick[s]} \in SUBSET S
                         /\ Cardinality(s) > 0
                         /\ Cardinality(s \ {pick[s]}) = Cardinality(s) - 1
    OBVIOUS
  <2>1. IsFiniteSet(s) /\ Cardinality(s) \in Nat
    BY FS_Subset, FS_CardinalityType
  <2>2. ASSUME s # {} PROVE Cardinality(s) > 0
    BY <2>1, <2>2, FS_EmptySet
  <2>3. ASSUME s # {} PROVE pick[s] \in s
    BY <2>3
  <2>4. ASSUME s # {} PROVE Cardinality(s \ {pick[s]}) = Cardinality(s) - 1
    BY <2>1, <2>3, <2>4, FS_RemoveElement
  <2> QED
    BY <2>1, <2>2, <2>3, <2>4
<1>1. 0 \in T
  <2> DEFINE f == [s \in SUBSET S |-> base]
  <2>1. \A s \in SUBSET S : Cardinality(s) <= 0 => f[s] = G(f, s)
    <3>1. \A s \in SUBSET S : Cardinality(s) <= 0 => s = {}
      <4> SUFFICES ASSUME NEW s \in SUBSET S, s # {} PROVE ~(Cardinality(s) <= 0)
        OBVIOUS
      <4>1. Cardinality(s) \in Nat /\ Cardinality(s) > 0
        BY <1>0
      <4> QED
        BY <4>1
    <3>2. f[{}] = base
      OBVIOUS
    <3> QED
      BY <3>1, <3>2
  <2>2. f \in [SUBSET S -> V]
    OBVIOUS
  <2> HIDE DEF f, G
  <2> QED
    BY <2>1, <2>2
<1>2. ASSUME NEW k \in T PROVE k + 1 \in T
  <2>1. PICK f \in [SUBSET S -> V] :
           \A s \in SUBSET S : Cardinality(s) <= k => f[s] = G(f, s)
    OBVIOUS
  <2> DEFINE g == [s \in SUBSET S |-> IF Cardinality(s) <= k THEN f[s] ELSE G(f, s)]
  <2>2. g \in [SUBSET S -> V]
    BY <1>0
  <2>3. ASSUME NEW s \in SUBSET S, Cardinality(s) <= k + 1 PROVE g[s] = G(g, s)
    <3>1. s # {} => g[s \ {pick[s]}] = f[s \ {pick[s]}]
      <4> SUFFICES ASSUME s # {} PROVE g[s \ {pick[s]}] = f[s \ {pick[s]}]
        OBVIOUS
      <4> DEFINE r == s \ {pick[s]}
      <4>1. r \in SUBSET S /\ Cardinality(r) <= k
        <5>1. Cardinality(s) \in Nat /\ Cardinality(r) = Cardinality(s) - 1
          BY <1>0
        <5> QED
          BY <5>1, <2>3
      <4> HIDE DEF r
      <4>2. g[r] = f[r]
        BY <4>1
      <4> QED
        BY <4>2 DEF r
    <3>2. G(g, s) = G(f, s)
      BY <3>1
    <3> HIDE DEF G
    <3> QED
      BY <2>1, <3>2
  <2> HIDE DEF g, G
  <2> QED
    BY <2>2, <2>3
<1> HIDE DEF T
<1>3. T = Nat
  <2>1. T \in SUBSET Nat
    BY DEF T
  <2> QED
    BY <1>1, <1>2, <2>1, Induction
<1>4. Cardinality(S) \in T
  BY <1>3, FS_CardinalityType
<1>5. \A s \in SUBSET S : Cardinality(s) <= Cardinality(S)
  BY FS_Subset
<1> QED
  BY <1>4, <1>5 DEF T, Folds

\* f[s] is the sum of w over s, as MapThenSumSet recurses.
Sums(f, S, w) ==
  f = [s \in SUBSET S |-> IF s = {} THEN 0
         ELSE LET x == CHOOSE x \in s : TRUE IN w[x] + f[s \ {x}]]

LEMMA SumSolves ==
  ASSUME NEW S, IsFiniteSet(S), NEW w, \A s \in S : w[s] \in Nat
  PROVE  \E f \in [SUBSET S -> Nat] : Sums(f, S, w)
<1> DEFINE pick == [s \in SUBSET S |-> CHOOSE x \in s : TRUE]
           step == [a \in S \X Nat |-> w[a[1]] + a[2]]
<1>1. \A s \in SUBSET S : s # {} => pick[s] \in s
  OBVIOUS
<1>2. \A x \in S, v \in Nat : step[<<x, v>>] \in Nat
  OBVIOUS
<1>2a. \A x \in S, v \in Nat : step[<<x, v>>] = w[x] + v
  OBVIOUS
<1>2b. \A s \in SUBSET S : pick[s] = CHOOSE x \in s : TRUE
  OBVIOUS
<1> HIDE DEF pick, step
<1>3. PICK f \in [SUBSET S -> Nat] : Folds(f, S, 0, pick, step)
  <2>1. 0 \in Nat
    OBVIOUS
  <2> QED
    BY <1>1, <1>2, <2>1, FoldExists
<1>4. \A s \in SUBSET S :
            f[s] = IF s = {} THEN 0
                      ELSE LET x == CHOOSE x \in s : TRUE IN w[x] + f[s \ {x}]
  <2> SUFFICES ASSUME NEW s \in SUBSET S, s # {} 
      PROVE f[s] = LET x == CHOOSE x \in s : TRUE IN w[x] + f[s \ {x}]
    BY <1>3 DEF Folds
  <2> DEFINE x == CHOOSE x \in s : TRUE
  <2>1. x \in s /\ pick[s] = x
    BY <1>1, <1>2b
  <2>2. f[s \ {x}] \in Nat
    OBVIOUS
  <2> HIDE DEF x
  <2>3. f[s] = w[x] + f[s \ {x}]
    BY <1>2a, <1>3, <2>1, <2>2 DEF Folds
  <2> QED
    BY <2>3 DEF x
<1> QED
  BY <1>4 DEF Sums

SumOf(w, S) == MapThenSumSet(LAMBDA m : w[m], S)

\* A sum of naturals is one.
LEMMA SumInNat ==
  ASSUME NEW S, IsFiniteSet(S), NEW w, \A s \in S : w[s] \in Nat
  PROVE  SumOf(w, S) \in Nat
<1> DEFINE iter == CHOOSE f : Sums(f, S, w)
           sum  == SumOf(w, S)
           T    == {k \in Nat : \A s \in SUBSET S : Cardinality(s) <= k => iter[s] \in Nat}
<1> HIDE DEF sum, T
<1>1. Sums(iter, S, w)
  BY SumSolves
<1>2. sum = iter[S]
  BY DEF sum, SumOf, MapThenSumSet, MapThenFoldSet, Sums
<1> HIDE DEF iter
<1> USE DEF T
<1>3. \A s \in SUBSET S : iter[s] = IF s = {} THEN 0
                          ELSE LET x == CHOOSE x \in s : TRUE IN w[x] + iter[s \ {x}]
  BY <1>1 DEF Sums
<1>4. \A s \in SUBSET S : /\ IsFiniteSet(s) /\ Cardinality(s) \in Nat
                          /\ Cardinality(s) <= 0 => s = {}
  BY FS_Subset, FS_CardinalityType, FS_EmptySet
<1>5. 0 \in T
  BY <1>3, <1>4
<1>6. ASSUME NEW k \in T PROVE k + 1 \in T
  <2>1. ASSUME NEW s \in SUBSET S, Cardinality(s) <= k + 1, s # {} PROVE iter[s] \in Nat
    <3> DEFINE x == CHOOSE x \in s : TRUE
    <3>1. x \in s
      BY <2>1
    <3>2. iter[s] = w[x] + iter[s \ {x}]
      BY <1>3, <2>1
    <3> HIDE DEF x
    <3>3. Cardinality(s \ {x}) <= k /\ s \ {x} \in SUBSET S
      BY <1>4, <2>1, <3>1, FS_RemoveElement
    <3> QED
      BY <3>1, <3>2, <3>3
  <2>2. ASSUME NEW s \in SUBSET S, s = {} PROVE iter[s] \in Nat
    BY <1>3, <2>2
  <2> HIDE DEF iter
  <2>3. k + 1 \in Nat
    OBVIOUS
  <2>4. \A s \in SUBSET S : Cardinality(s) <= k + 1 => iter[s] \in Nat
    BY <2>1, <2>2
  <2> QED
    BY <2>3, <2>4
<1>7. T = Nat
  <2>1. T \in SUBSET Nat
    OBVIOUS
  <2> HIDE DEF T
  <2> QED
    BY <1>5, <1>6, <2>1, Induction
<1>8. Cardinality(S) \in T
  BY <1>7, FS_CardinalityType
<1>9. sum \in Nat
  BY <1>2, <1>4, <1>8
<1> QED
  BY <1>9 DEF sum

LEMMA SumOfNone == ASSUME NEW w PROVE SumOf(w, {}) = 0
<1> DEFINE iter == CHOOSE f : Sums(f, {}, w)
<1>1. Sums(iter, {}, w)
  BY SumSolves, FS_EmptySet
<1>2. SumOf(w, {}) = iter[{}]
  BY DEF SumOf, MapThenSumSet, MapThenFoldSet, Sums
<1> HIDE DEF iter
<1> QED
  BY <1>1, <1>2 DEF Sums

\* A function to the naturals has a maximum on a finite set.
LEMMA MaximumExists ==
  ASSUME NEW U, IsFiniteSet(U), U # {}, NEW f, \A x \in U : f[x] \in Nat
  PROVE  \E x \in U : \A y \in U : f[y] <= f[x]
<1> DEFINE Has1(V) == \E x \in V : \A y \in V : f[y] <= f[x]
           T == {k \in Nat : \A V \in SUBSET U : V # {} /\ Cardinality(V) <= k => Has1(V)}
<1>0. \A V \in SUBSET U : IsFiniteSet(V) /\ Cardinality(V) \in Nat
  BY FS_Subset, FS_CardinalityType
<1>1. 0 \in T
  <2>1. \A V \in SUBSET U : Cardinality(V) <= 0 => V = {}
    BY <1>0, FS_EmptySet
  <2> QED
    BY <2>1
<1>2. ASSUME NEW k \in T PROVE k + 1 \in T
  <2> SUFFICES ASSUME NEW V \in SUBSET U, V # {}, Cardinality(V) <= k + 1 PROVE Has1(V)
    OBVIOUS
  <2>1. PICK v : v \in V
    OBVIOUS
  <2> DEFINE R == V \ {v}
  <2>2. Cardinality(R) <= k /\ R \in SUBSET U
    BY <1>0, <2>1, FS_RemoveElement
  <2>3. CASE R = {}
    BY <2>1, <2>3
  <2>4. CASE R # {}
    <3> HIDE DEF R
    <3>1. PICK x \in R : \A y \in R : f[y] <= f[x]
      BY <2>2, <2>4
    <3>2. /\ x \in V /\ f[x] \in Nat /\ f[v] \in Nat
          /\ \A y \in V : f[y] \in Nat /\ (y = v \/ f[y] <= f[x])
      BY <2>1, <3>1 DEF R
    <3> QED
      BY <2>1, <3>2
  <2> QED
    BY <2>3, <2>4
<1> HIDE DEF T
<1>3. T = Nat
  <2>1. T \in SUBSET Nat
    BY DEF T
  <2> QED
    BY <1>1, <1>2, <2>1, Induction
<1>4. Cardinality(U) \in T /\ Cardinality(U) <= Cardinality(U)
  BY <1>0, <1>3
<1> QED
  BY <1>4 DEF T

\* The range of a list is finite.
LEMMA RangeFinite ==
  ASSUME NEW k \in Nat, NEW s
  PROVE  IsFiniteSet({s[i] : i \in 1 .. k})
<1> DEFINE R == {s[i] : i \in 1 .. k}
           f == [i \in 1 .. k |-> s[i]]
<1>1. f \in Surjection(1 .. k, R)
  BY DEF Surjection
<1>2. IsFiniteSet(1 .. k)
  BY FS_Interval
<1> HIDE DEF f, R
<1>3. IsFiniteSet(R)
  BY <1>1, <1>2, FS_Surjection
<1> QED
  BY <1>3 DEF R

-----------------------------------------------------------------------------
(* The ranking of the causes.                                              *)

LEMMA MetricFinite == IsFiniteSet(Metric)
<1> DEFINE name == <<"planner_compute_ns", "action_compute_ns",
              "callback_dispatch_upper_bound_ns", "dds_transfer_ns", "syscall_block_ns",
              "wakeup_to_run_ns", "off_cpu_ns", "ack_latency_ns", "ack_terminal_failure">>
<1>1. Metric = {name[i] : i \in 1 .. 9}
  BY DEF Metric, Catalog
<1> HIDE DEF name
<1> QED
  BY <1>1, RangeFinite

LEMMA ProfileMetrics ==
  ASSUME NEW p, IsProfile(p)
  PROVE  /\ DOMAIN p.weights \in SUBSET Metric /\ DOMAIN p.weights # {}
         /\ IsFiniteSet(DOMAIN p.weights) /\ Cardinality(DOMAIN p.weights) \in Nat \ {0}
         /\ \A m \in DOMAIN p.weights : p.weights[m] \in Nat \ {0}
<1>1. /\ DOMAIN p.weights \in SUBSET Metric /\ DOMAIN p.weights # {}
      /\ \A m \in DOMAIN p.weights : p.weights[m] \in Nat \ {0}
  BY DEF IsProfile
<1>2. IsFiniteSet(DOMAIN p.weights)
  BY <1>1, MetricFinite, FS_Subset
<1> QED
  BY <1>1, <1>2, FS_CardinalityType, FS_EmptySet

LEMMA FloorInNat == \A k \in Int : Floor(k) \in Nat /\ (k <= 0 => Floor(k) = 0)
  BY DEF Floor

\* A cause without support has no score, and no score is negative.
LEMMA ScoreInNat ==
  ASSUME NEW e, NEW p, IsProfile(p), NEW c
  PROVE  Score(e, p, c) \in Nat /\ (Supporting(e, p, c) = {} => Score(e, p, c) = 0)
<1>1. /\ p.conflictPenalty \in Nat /\ p.missingPenalty \in Nat
  BY DEF IsProfile
<1>2. \A S \in SUBSET DOMAIN p.weights : IsFiniteSet(S) /\ Cardinality(S) \in Nat
  BY ProfileMetrics, FS_Subset, FS_CardinalityType
<1>3. Scored(p, c) \in SUBSET DOMAIN p.weights
  BY DEF Scored
<1> DEFINE sum == SumOf(p.weights, Supporting(e, p, c))
           less == p.conflictPenalty * Cardinality(Against(e, p, c))
           lost == p.missingPenalty * Cardinality(Missing(e, p, c))
<1>4. OwnScore(e, p, c) = Floor(sum - less - lost)
  BY DEF OwnScore, SumOf, MapThenSumSet, MapThenFoldSet
<1>5. sum \in Nat
  <2>1. /\ Supporting(e, p, c) \in SUBSET DOMAIN p.weights
        /\ \A m \in Supporting(e, p, c) : p.weights[m] \in Nat
    BY <1>3, ProfileMetrics DEF Supporting
  <2> QED
    BY <1>2, <2>1, SumInNat
<1>6. ASSUME Supporting(e, p, c) = {} PROVE sum = 0
  BY <1>6, SumOfNone
<1> HIDE DEF sum
<1>7. less \in Nat /\ lost \in Nat
  <2>1. Cardinality(Against(e, p, c)) \in Nat /\ Cardinality(Missing(e, p, c)) \in Nat
    BY <1>2, <1>3 DEF Against, Missing
  <2> QED
    BY <1>1, <2>1
<1> HIDE DEF less, lost
<1>8. OwnScore(e, p, c) \in Nat
  BY <1>4, <1>5, <1>7, FloorInNat
<1>9. ASSUME Supporting(e, p, c) = {} PROVE OwnScore(e, p, c) = 0
  BY <1>4, <1>6, <1>7, <1>9, FloorInNat
<1> DEFINE rivals == {d \in ConflictsWith(c) \cap Active(p) : Supporting(e, p, d) # {}}
<1>10. Cardinality(rivals) \in Nat
  <2>1. IsFiniteSet({"blocking_syscall_io", "scheduling_delay"})
    <3>1. IsFiniteSet({"scheduling_delay"})
      BY FS_Singleton
    <3>2. IsFiniteSet({"scheduling_delay"} \cup {"blocking_syscall_io"})
      BY <3>1, FS_AddElement
    <3>3. {"blocking_syscall_io", "scheduling_delay"}
             = {"scheduling_delay"} \cup {"blocking_syscall_io"}
      OBVIOUS
    <3> QED
      BY <3>2, <3>3
  <2>2. rivals \in SUBSET {"blocking_syscall_io", "scheduling_delay"}
    BY DEF ConflictsWith
  <2> QED
    BY <2>1, <2>2, FS_Subset, FS_CardinalityType
<1>11. Score(e, p, c) = IF Supporting(e, p, c) = {} THEN OwnScore(e, p, c)
          ELSE Floor(OwnScore(e, p, c) - p.conflictPenalty * Cardinality(rivals))
  BY DEF Score
<1> HIDE DEF rivals
<1>12. p.conflictPenalty * Cardinality(rivals) \in Nat
  BY <1>1, <1>10
<1>13. OwnScore(e, p, c) - p.conflictPenalty * Cardinality(rivals) \in Int
  BY <1>8, <1>12
<1> QED
  BY <1>8, <1>9, <1>11, <1>13, FloorInNat

\* The first of some causes is one of them, and none has a higher score.
LEMMA FirstLeads ==
  ASSUME NEW e, NEW p, IsProfile(p), NEW U \in SUBSET ToSet(Causes), U # {}
  PROVE  /\ First(e, p, U) \in U
         /\ \A d \in U : Score(e, p, d) <= Score(e, p, First(e, p, U))
<1> DEFINE f == [c \in U |-> Score(e, p, c)]
<1>1. IsFiniteSet(U)
  <2>1. ToSet(Causes) = {Causes[i] : i \in 1 .. 6} 
    BY DEF ToSet, Causes
  <2>2. IsFiniteSet(ToSet(Causes))
    BY <2>1, RangeFinite
  <2> QED
    BY <2>2, FS_Subset
<1>2. \A c \in U : f[c] = Score(e, p, c) /\ f[c] \in Nat
  BY ScoreInNat
<1> HIDE DEF f
<1>3. PICK x \in U : \A y \in U : f[y] <= f[x]
  BY <1>1, <1>2, MaximumExists
<1> DEFINE T == {i \in 1 .. 6 : Causes[i] \in U /\ f[Causes[i]] = f[x]}
<1>4. T \in SUBSET Nat /\ T # {}
  BY <1>3 DEF ToSet, Causes
<1>5. PICK i \in T : \A k \in T : i <= k
  BY <1>4, NatMin
<1> DEFINE c == Causes[i]
<1>6. c \in U /\ f[c] = f[x]
  OBVIOUS
<1>7. ASSUME NEW d \in U \ {c} 
      PROVE \/ Score(e, p, c) > Score(e, p, d)
            \/ /\ Score(e, p, c) = Score(e, p, d)
               /\ \E k, j \in DOMAIN Causes : k < j /\ Causes[k] = c /\ Causes[j] = d
  <2>1. f[d] <= f[x] /\ f[d] = Score(e, p, d) /\ f[c] = Score(e, p, c)
        /\ f[d] \in Nat /\ f[x] \in Nat
    BY <1>2, <1>3, <1>6
  <2>2. ASSUME f[d] = f[x]
        PROVE \E k, j \in DOMAIN Causes : k < j /\ Causes[k] = c /\ Causes[j] = d
    <3>1. DOMAIN Causes = 1 .. 6
      BY DEF Causes
    <3>2. PICK j \in 1 .. 6 : Causes[j] = d
      BY <3>1 DEF ToSet
    <3>3. j \in T
      BY <2>2, <3>2
    <3>4. i <= j /\ i # j
      BY <1>5, <3>2, <3>3
    <3>5. i < j /\ i \in DOMAIN Causes /\ j \in DOMAIN Causes
      BY <3>1, <3>4
    <3> QED
      BY <3>2, <3>5
  <2> QED
    BY <1>6, <2>1, <2>2
<1> DEFINE P(b) == \A d \in U \ {b} :
              \/ Score(e, p, b) > Score(e, p, d)
              \/ /\ Score(e, p, b) = Score(e, p, d)
                 /\ \E k, j \in DOMAIN Causes : k < j /\ Causes[k] = b /\ Causes[j] = d
           best == CHOOSE b \in U : P(b)
<1>8. P(c)
  BY <1>7
<1> HIDE DEF P, c
<1>9. best \in U /\ P(best)
  BY <1>6, <1>8
<1>10. First(e, p, U) = best
  BY DEF First, P
<1> HIDE DEF best
<1>11. ASSUME NEW d \in U PROVE Score(e, p, d) <= Score(e, p, best)
  <2>1. Score(e, p, d) \in Nat /\ Score(e, p, best) \in Nat
    BY ScoreInNat
  <2>2. d = best \/ Score(e, p, best) > Score(e, p, d) \/ Score(e, p, best) = Score(e, p, d)
    BY <1>9 DEF P
  <2> QED
    BY <2>1, <2>2
<1> QED
  BY <1>9, <1>10, <1>11

-----------------------------------------------------------------------------
(* The campaign.                                                           *)

Busy == {"gate", "schedule", "trials"}

\* The files of a directory.
Parts == {"exists", "gate", "manifest", "schedule", "results", "measured", "decision"}
Whole == /\ DOMAIN files = Parts /\ files.exists
         /\ files.results \in Seq(Outcomes \cup {Failed})

\* What a campaign under way has not written yet.
Unwritten ==
    /\ stage \in {"idle", "ended"} \cup Busy
    /\ stage \in Busy => Whole /\ files.decision = NoDecision
    /\ stage \in {"gate", "schedule"} => files.manifest = {}
    /\ stage = "gate" => files.gate = "none"

CampaignInv == (files = NoDir \/ Whole) /\ Unwritten /\ FormalFromOneCommit

\* The step of a campaign, of the delivery of a report, or none.
Step == [CampaignNext \/ Deliver]_campaign

LEMMA NoDirParts == ~NoDir.exists
  BY DEF NoDir

LEMMA InitInv == CampaignInit => CampaignInv
  BY NoDirParts DEF CampaignInit, CampaignInv, Unwritten, FormalFromOneCommit, Busy

\* A write to some files of a directory leaves the others as they are.
LEMMA Writes ==
  ASSUME Whole, NEW x, NEW y
  PROVE  /\ LET f == [files EXCEPT !.gate = x]
            IN /\ DOMAIN f = Parts /\ f.exists /\ f.results = files.results
               /\ f.gate = x /\ f.manifest = files.manifest
               /\ f.schedule = files.schedule /\ f.measured = files.measured
               /\ f.decision = files.decision
         /\ LET f == [files EXCEPT !.manifest = x, !.schedule = y]
            IN /\ DOMAIN f = Parts /\ f.exists /\ f.results = files.results
               /\ f.gate = files.gate /\ f.measured = files.measured
               /\ f.decision = files.decision
         /\ LET f == [files EXCEPT !.results = x, !.measured = y]
            IN /\ DOMAIN f = Parts /\ f.exists /\ f.results = x
               /\ f.gate = files.gate /\ f.manifest = files.manifest
               /\ f.schedule = files.schedule /\ f.measured = y
               /\ f.decision = files.decision
         /\ LET f == [files EXCEPT !.decision = x]
            IN /\ DOMAIN f = Parts /\ f.exists /\ f.results = files.results
               /\ f.gate = files.gate /\ f.manifest = files.manifest
               /\ f.schedule = files.schedule /\ f.measured = files.measured
<1>1. LET f == [files EXCEPT !.gate = x]
      IN /\ DOMAIN f = Parts /\ f.exists /\ f.results = files.results
         /\ f.gate = x /\ f.manifest = files.manifest
         /\ f.schedule = files.schedule /\ f.measured = files.measured
         /\ f.decision = files.decision
  BY DEF Whole, Parts
<1>2. LET f == [files EXCEPT !.manifest = x, !.schedule = y]
      IN /\ DOMAIN f = Parts /\ f.exists /\ f.results = files.results
         /\ f.gate = files.gate /\ f.measured = files.measured
         /\ f.decision = files.decision
  BY DEF Whole, Parts
<1>3. LET f == [files EXCEPT !.results = x, !.measured = y]
      IN /\ DOMAIN f = Parts /\ f.exists /\ f.results = x
         /\ f.gate = files.gate /\ f.manifest = files.manifest
         /\ f.schedule = files.schedule /\ f.measured = y
         /\ f.decision = files.decision
  BY DEF Whole, Parts
<1>4. LET f == [files EXCEPT !.decision = x]
      IN /\ DOMAIN f = Parts /\ f.exists /\ f.results = files.results
         /\ f.gate = files.gate /\ f.manifest = files.manifest
         /\ f.schedule = files.schedule /\ f.measured = files.measured
  BY DEF Whole, Parts
<1> QED
  BY <1>1, <1>2, <1>3, <1>4

LEMMA StepInv == CampaignInv /\ Step => CampaignInv'
<1> SUFFICES ASSUME CampaignInv, Step PROVE CampaignInv'
  OBVIOUS
<1> USE DEF CampaignInv, Unwritten, FormalFromOneCommit, Busy
<1>1. ASSUME NEW kind \in Kinds, Invoke(kind[1], kind[2]) PROVE CampaignInv'
  <2>1. files' = EmptyDir /\ stage' = "gate"
    BY <1>1 DEF Invoke
  <2>2. DOMAIN EmptyDir = Parts /\ EmptyDir.exists
    BY DEF EmptyDir, Parts
  <2>3. /\ EmptyDir.results \in Seq(Outcomes \cup {Failed})
        /\ EmptyDir.decision = NoDecision /\ EmptyDir.manifest = {}
        /\ EmptyDir.gate = "none" /\ EmptyDir.measured = {}
    BY DEF EmptyDir
  <2> QED
    BY <2>1, <2>2, <2>3 DEF Whole
<1>2. ASSUME NEW minimum \in Thresholds, Gate(minimum) PROVE CampaignInv'
  <2>1. Whole /\ files' = [files EXCEPT !.gate = GateReason(minimum)]
    BY <1>2 DEF Gate
  <2>2. stage' \in {"schedule", "ended"} /\ UNCHANGED <<role, qualified>>
    BY <1>2 DEF Gate, git
  <2>3. /\ Whole' /\ files'.manifest = {} /\ files'.decision = NoDecision
        /\ files'.measured = files.measured
    BY <1>2, <2>1, Writes DEF Gate, Whole
  <2> QED
    BY <2>1, <2>2, <2>3 DEF Whole
<1>3. ASSUME UNCHANGED <<files, role, qualified>>,
             stage' = stage \/ stage' = "ended"
      PROVE  CampaignInv'
  BY <1>3 DEF Whole
<1>4. ASSUME NEW baseline \in Baselines, NEW plan \in Plans, Schedule(plan, baseline)
      PROVE  CampaignInv'
  <2>1. PICK t : files' = [files EXCEPT !.manifest = {head}, !.schedule = t]
    BY <1>4 DEF Schedule
  <2>2. Whole /\ stage' = "trials" /\ UNCHANGED <<role, qualified>>
    BY <1>4 DEF Schedule, git
  <2>3. Whole' /\ files'.decision = NoDecision /\ files'.measured = files.measured
    BY <1>4, <2>1, <2>2, Writes DEF Schedule, Whole
  <2> QED
    BY <2>2, <2>3 DEF Whole
<1>5. ASSUME NEW outcome \in Outcomes \cup {Failed}, Trial(outcome) PROVE CampaignInv'
  <2> DEFINE m == IF outcome = Failed THEN files.measured ELSE files.measured \cup {head}
  <2>1. files' = [files EXCEPT !.results = Append(files.results, outcome), !.measured = m]
    BY <1>5 DEF Trial
  <2>2. /\ Whole /\ files.decision = NoDecision
        /\ stage' \in {"trials", "ended"} /\ UNCHANGED <<role, qualified>>
    BY <1>5 DEF Trial, git
  <2>3. Append(files.results, outcome) \in Seq(Outcomes \cup {Failed})
    BY <2>2 DEF Whole
  <2> HIDE DEF m
  <2>4. Whole' /\ files'.decision = NoDecision /\ files'.measured = m
    BY <2>1, <2>2, <2>3, Writes DEF Whole
  <2>5. role = "test" => m \subseteq {qualified}
    <3>1. role = "test" => files.measured \subseteq {qualified}
      BY <2>2 DEF Whole
    <3>2. (role = "test" => head = qualified) \/ outcome = Failed
      BY <1>5 DEF Trial, TrialRun, TrialQualified
    <3> QED
      BY <3>1, <3>2 DEF m
  <2> QED
    BY <2>2, <2>4, <2>5 DEF Whole
<1>6. ASSUME NEW mm, Deciding(mm), NEW decision, Decides(decision) PROVE CampaignInv'
  <2>1. Whole /\ files' = [files EXCEPT !.decision = decision]
    BY <1>6 DEF Deciding, Decides
  <2>2. stage' = "ended" /\ UNCHANGED <<role, qualified>>
    BY <1>6 DEF Decides, git
  <2>3. Whole' /\ files'.measured = files.measured
    BY <2>1, Writes DEF Whole
  <2> QED
    BY <2>1, <2>2, <2>3 DEF Whole
<1>7. CASE OverBudget \/ BaselineRejected \/ RecordsRefused \/ Kill
  BY <1>3, <1>7 DEF OverBudget, BaselineRejected, RecordsRefused, Kill, git
<1>8. CASE DecideClosed
  BY <1>6, <1>8 DEF DecideClosed
<1>9. CASE DecideRepeated
  BY <1>6, <1>9 DEF DecideRepeated
<1>10. CASE NewDirectory
  BY <1>10, NoDirParts DEF NewDirectory, git
<1>11. CASE MoveHead \/ Deliver \/ UNCHANGED campaign
  BY <1>3, <1>11 DEF MoveHead, Deliver, git, campaign
<1> QED
  BY <1>1, <1>2, <1>4, <1>5, <1>7, <1>8, <1>9, <1>10, <1>11 DEF Step, CampaignNext

LEMMA Invariance == CampaignSpec => []CampaignInv
  BY InitInv, StepInv, PTL DEF CampaignSpec, Step

\* Wherever HEAD goes while a formal campaign runs, its results are measured at
\* the commit its qualification names (the comparison of _trial_evidence).
THEOREM OneCommit == CampaignSpec => []FormalFromOneCommit
<1>1. CampaignInv => FormalFromOneCommit
  BY DEF CampaignInv
<1> QED
  BY <1>1, Invariance, PTL

\* What RecordsFinal says of one step.
Final ==
    files.exists /\ files'.exists =>
         /\ files.gate # "none" => files'.gate = files.gate
         /\ files.manifest # {} => files'.schedule = files.schedule
         /\ IsPrefix(files.results, files'.results)
         /\ files.decision # NoDecision => files'.decision = files.decision
         /\ stage = "ended" => files' = files

LEMMA PrefixSame ==
  ASSUME NEW S, NEW s \in Seq(S) PROVE IsPrefix(s, s)
  BY DEF IsPrefix

LEMMA PrefixAppend ==
  ASSUME NEW S, NEW s \in Seq(S), NEW e \in S PROVE IsPrefix(s, Append(s, e))
  BY DEF IsPrefix

LEMMA StepFinal == CampaignInv /\ Step => Final \/ UNCHANGED campaign
<1> SUFFICES ASSUME CampaignInv, Step, files.exists, files'.exists PROVE Final
  BY DEF Final
<1> USE DEF CampaignInv, Unwritten, Busy
<1>a. Whole
  BY NoDirParts
<1>b. IsPrefix(files.results, files.results)
  BY <1>a, PrefixSame DEF Whole
<1>1. ASSUME NEW kind \in Kinds, Invoke(kind[1], kind[2]) PROVE Final
  BY <1>1, NoDirParts DEF Invoke, OutputFree
<1>2. ASSUME NEW minimum \in Thresholds, Gate(minimum) PROVE Final
  BY <1>2, <1>a, <1>b, Writes DEF Gate, Final
<1>3. ASSUME UNCHANGED files PROVE Final
  BY <1>3, <1>b DEF Final
<1>4. ASSUME NEW baseline \in Baselines, NEW plan \in Plans, Schedule(plan, baseline)
      PROVE  Final
  <2>1. PICK t : files' = [files EXCEPT !.manifest = {head}, !.schedule = t]
    BY <1>4 DEF Schedule
  <2>2. stage = "schedule" /\ files.manifest = {}
    BY <1>4 DEF Schedule
  <2> QED
    BY <1>a, <1>b, <2>1, <2>2, Writes DEF Final
<1>5. ASSUME NEW outcome \in Outcomes \cup {Failed}, Trial(outcome) PROVE Final
  <2>1. PICK m : files' = [files EXCEPT !.results = Append(files.results, outcome),
                                        !.measured = m]
    BY <1>5 DEF Trial
  <2>2. IsPrefix(files.results, Append(files.results, outcome))
    BY <1>5, <1>a, PrefixAppend DEF Whole
  <2>3. stage = "trials"
    BY <1>5 DEF Trial
  <2> QED
    BY <1>a, <2>1, <2>2, <2>3, Writes DEF Final
<1>6. ASSUME NEW mm, Deciding(mm), NEW decision, Decides(decision) PROVE Final
  <2>1. stage = "trials" /\ files.decision = NoDecision
    BY <1>6 DEF Deciding
  <2> QED
    BY <1>6, <1>a, <1>b, <2>1, Writes DEF Decides, Final
<1>7. CASE OverBudget \/ BaselineRejected \/ RecordsRefused \/ Kill
  BY <1>3, <1>7 DEF OverBudget, BaselineRejected, RecordsRefused, Kill
<1>8. CASE DecideClosed
  BY <1>6, <1>8 DEF DecideClosed
<1>9. CASE DecideRepeated
  BY <1>6, <1>9 DEF DecideRepeated
<1>10. CASE NewDirectory
  BY <1>10, NoDirParts DEF NewDirectory
<1>11. CASE MoveHead \/ Deliver \/ UNCHANGED campaign
  BY <1>3, <1>11 DEF MoveHead, Deliver, campaign
<1> QED
  BY <1>1, <1>2, <1>4, <1>5, <1>7, <1>8, <1>9, <1>10, <1>11 DEF Step, CampaignNext

\* Neither a kill, nor a second start in the directory a campaign left, changes
\* a record that campaign wrote or adds a decision to it (the refusal of an
\* existing output directory, and the order of the writes).
THEOREM RecordsStay == CampaignSpec => RecordsFinal
<1>1. CampaignInv /\ Step => [Final]_campaign
  BY StepFinal
<1> QED
  BY <1>1, Invariance, PTL DEF CampaignSpec, Step, RecordsFinal, Final

-----------------------------------------------------------------------------
(* The gate.                                                               *)

LEMMA Positive == \A a, b \in Nat, m \in Int : (a * m) * b > 0 => m > 0
<1> SUFFICES ASSUME NEW a \in Nat, NEW b \in Nat, NEW m \in Int, m <= 0 PROVE (a * m) * b <= 0
  OBVIOUS
<1> DEFINE k == -m
           x == a * k
           y == x * b
<1>1. k \in Nat
  OBVIOUS
<1> HIDE DEF k
<1>2. x \in Nat
  BY <1>1
<1> HIDE DEF x
<1>3. y \in Nat
  BY <1>2
<1>4. (a * m) * b = -y
  BY DEF k, x
<1> QED
  BY <1>3, <1>4

LEMMA Product == \A a, b \in Nat \ {0} : a * b \in Nat \ {0}
  OBVIOUS

\* A report that names a cause with some confidence, of evidence that is valid,
\* was made from a confirmed topology, with every metric there, and its cause
\* has support and leads.
LEMMA ConfidentReport ==
  ASSUME NEW e, NEW p, IsProfile(p), NEW q \in Fraction, q[1] > 0,
         Report(e, p).status # "abstained", Report(e, p).evidence = "valid",
         AtLeast(Report(e, p).confidence, q)
  PROVE  LET c == Report(e, p).cause
         IN /\ e.topology \notin {"invalid", "partial"}
            /\ \A m \in DOMAIN p.weights : Available(e, m)
            /\ Supporting(e, p, c) # {}
            /\ \A d \in Active(p) \ {c} : Score(e, p, d) < Score(e, p, c)
<1> DEFINE first    == First(e, p, Active(p))
           rest     == Active(p) \ {first}
           top      == Score(e, p, first)
           second   == IF rest = {} THEN 0 ELSE Score(e, p, First(e, p, rest))
           margin   == top - second
           complete == Completeness(e, p)
           invalid  == \E m \in DOMAIN p.weights : ~Available(e, m)
           observed == \E c \in Active(p) :
                          Supporting(e, p, c) \cup Against(e, p, c) # {}
           state    == IF invalid THEN "invalid"
                       ELSE IF e.topology = "partial" THEN "partial"
                       ELSE IF ~observed THEN "not_observed"
                       ELSE "valid"
           claims   == /\ ~invalid
                       /\ AtLeast(complete, p.minimumCompleteness)
                       /\ top >= p.minimumScore /\ margin >= p.minimumMargin
           confidence == IF top = 0 THEN <<0, 1>>
                         ELSE <<complete[1] * margin, complete[2] * top>>
<1>1. e.topology # "invalid"
  BY DEF Report, Abstained
<1>2. Report(e, p) = [status |-> IF claims THEN "diagnosed" ELSE "abstained",
                      evidence |-> state, cause |-> IF claims THEN first ELSE "none",
                      confidence |-> confidence, completeness |-> complete]
  BY <1>1 DEF Report
<1> HIDE DEF first, state, claims, confidence
<1>3. claims /\ Report(e, p).cause = first
  BY <1>2
<1>4. ~invalid /\ e.topology # "partial"
  BY <1>2 DEF state
<1>5. AtLeast(confidence, q)
  BY <1>2
<1>6. Active(p) \in SUBSET ToSet(Causes) /\ rest \in SUBSET ToSet(Causes)
  BY DEF Active
<1>7. \A d \in rest : /\ Score(e, p, d) \in Nat /\ Score(e, p, d) <= second
  BY <1>6, ScoreInNat, FirstLeads
<1>8. top \in Nat /\ second \in Nat
  BY ScoreInNat
<1>9. complete[1] \in Nat /\ complete[2] \in Nat \ {0}
  <2>1. Cardinality({m \in DOMAIN p.weights : Available(e, m)}) \in Nat
    BY ProfileMetrics, FS_Subset, FS_CardinalityType
  <2>2. Cardinality(DOMAIN p.weights) \in Nat \ {0}
    BY ProfileMetrics
  <2> QED
    BY <1>4, <2>1, <2>2 DEF Completeness
<1> HIDE DEF top, second, complete
<1>10. q[1] \in Nat \ {0} /\ q[2] \in Nat \ {0}
  BY DEF Fraction
<1>11. top # 0
  <2> SUFFICES ASSUME top = 0 PROVE FALSE
    OBVIOUS
  <2>1. confidence = <<0, 1>>
    BY DEF confidence
  <2> QED
    BY <1>5, <1>10, <2>1 DEF AtLeast
<1>12. margin > 0
  <2>1. (complete[1] * margin) * q[2] >= q[1] * (complete[2] * top)
    BY <1>5, <1>11 DEF AtLeast, confidence
  <2>2. complete[2] * top \in Nat \ {0}
    BY <1>8, <1>9, <1>11, Product
  <2>3. q[1] * (complete[2] * top) \in Nat \ {0}
    BY <1>10, <2>2, Product
  <2> DEFINE y == q[1] * (complete[2] * top)
             x == complete[1] * margin
  <2>4. margin \in Int /\ x \in Int
    BY <1>8, <1>9
  <2>5. x * q[2] \in Int
    BY <1>10, <2>4
  <2> HIDE DEF y, x
  <2>6. x * q[2] > 0
    BY <2>1, <2>3, <2>5 DEF x, y
  <2> QED
    BY <1>9, <1>10, <2>4, <2>6, Positive DEF x
<1>13. Supporting(e, p, first) # {}
  BY <1>11, ScoreInNat DEF top
<1>14. ASSUME NEW d \in Active(p) \ {first} PROVE Score(e, p, d) < top
  BY <1>7, <1>8, <1>12
<1> QED
  BY <1>1, <1>3, <1>4, <1>13, <1>14 DEF top

-----------------------------------------------------------------------------
(* The terminal rows of a capture.                                         *)

Events == {"prefix", "can_frame_sent", "can_frame_send_failed", "can_ack_wait_start",
           "can_ack_received", "can_ack_timeout", "can_retry_exhausted", "can_retry_scheduled"}
States == {"open", "rejected", "send_failed", "ack_received", "retry_exhausted"}

Rows == [event : Events, n : Nat, at : Nat]

Lives == [Trace -> [state : States, waits : Nat, timeouts : Nat, retries : Nat]]

\* A command with a row of a terminal event has come to its end.
EndsLogged ==
  \A t \in Trace : \A i \in 1 .. Len(log[t]) :
     log[t][i].event \in Terminals => truth[t].state # "open"

RowInv ==
  /\ cur \in Trace /\ n \in Nat /\ clock \in Nat
  /\ log \in [Trace -> Seq(Rows)]
  /\ truth \in Lives
  /\ EndsLogged

LEMMA NoRows ==
  ASSUME cur = 1, n = 0, clock = 0,
         log = [t \in Trace |-> <<>>], truth = [t \in Trace |-> NotYet]
  PROVE  RowInv
<1>1. 1 \in Trace
  BY EvidenceAssumption DEF Trace
<1>2. <<>> \in Seq(Rows)
  OBVIOUS
<1>3. log \in [Trace -> Seq(Rows)]
  BY <1>2
<1>4. truth \in Lives
  BY DEF Lives, NotYet, States
<1>5. EndsLogged
  BY DEF EndsLogged
<1> QED
  BY <1>1, <1>3, <1>4, <1>5 DEF RowInv

LEMMA InitRows == EvidenceInit => RowInv
  BY NoRows DEF EvidenceInit

\* A recorded event adds rows of itself to its command's, or none.
LEMMA Recorded ==
  ASSUME RowInv, NEW event \in Events, NEW num \in Nat, NEW at \in Nat, NEW more,
         Record(event, num, at, more)
  PROVE  /\ log' \in [Trace -> Seq(Rows)]
         /\ \A t \in Trace : \A i \in 1 .. Len(log'[t]) :
               \/ i \in 1 .. Len(log[t]) /\ log'[t][i] = log[t][i]
               \/ t = cur /\ log'[t][i].event = event
<1> DEFINE row == [event |-> event, n |-> num, at |-> at]
<1>1. PICK rows \in {<<>>, <<row>>, <<row, row>>} :
         log' = [log EXCEPT ![cur] = @ \o rows]
  BY DEF Record
<1>2. row \in Rows
  BY DEF Rows
<1>4. row.event = event
  OBVIOUS
<1> HIDE DEF row
<1>3. rows \in Seq(Rows) /\ \A i \in 1 .. Len(rows) : rows[i] = row
  <2>1. CASE rows = <<>>
    BY <2>1
  <2>2. CASE rows = <<row>>
    BY <1>2, <2>2
  <2>3. CASE rows = <<row, row>>
    BY <1>2, <2>3
  <2> QED
    BY <2>1, <2>2, <2>3
<1>5. log[cur] \in Seq(Rows) /\ cur \in Trace /\ log \in [Trace -> Seq(Rows)]
  BY DEF RowInv
<1>6. log[cur] \o rows \in Seq(Rows)
  BY <1>3, <1>5
<1>7. /\ log' \in [Trace -> Seq(Rows)] /\ log'[cur] = log[cur] \o rows
      /\ \A t \in Trace \ {cur} : log'[t] = log[t]
  BY <1>1, <1>5, <1>6
<1>8. ASSUME NEW i \in 1 .. Len(log'[cur])
      PROVE  \/ i \in 1 .. Len(log[cur]) /\ log'[cur][i] = log[cur][i]
             \/ log'[cur][i] = row
  BY <1>3, <1>5, <1>7, <1>8
<1> QED
  BY <1>4, <1>7, <1>8

\* An event other than a terminal, or the end that its row is about.
LEMMA RecordedKeeps ==
  ASSUME RowInv, NEW event \in Events, NEW num \in Nat, NEW at \in Nat, NEW more,
         Record(event, num, at, more), UNCHANGED cur,
         truth' \in Lives,
         \A t \in Trace : truth[t].state # "open" => truth'[t].state # "open",
         event \in Terminals => truth'[cur].state # "open"
  PROVE  log' \in [Trace -> Seq(Rows)] /\ EndsLogged'
<1>1. cur \in Trace
  BY DEF RowInv
<1>2. /\ log' \in [Trace -> Seq(Rows)]
      /\ \A t \in Trace : \A i \in 1 .. Len(log'[t]) :
            \/ i \in 1 .. Len(log[t]) /\ log'[t][i] = log[t][i]
            \/ t = cur /\ log'[t][i].event = event
  BY Recorded
<1>3. EndsLogged
  BY DEF RowInv
<1>4. ASSUME NEW t \in Trace, NEW i \in 1 .. Len(log'[t]), log'[t][i].event \in Terminals
      PROVE  truth'[t].state # "open"
  BY <1>2, <1>3, <1>4 DEF EndsLogged
<1> QED
  BY <1>2, <1>4 DEF EndsLogged

LEMMA StepRows == RowInv /\ EvidenceNext => RowInv'
<1> SUFFICES ASSUME RowInv, EvidenceNext PROVE RowInv'
  OBVIOUS
<1> USE DEF Events, States
<1>0. /\ cur \in Trace /\ n \in Nat /\ clock \in Nat /\ clock + 1 \in Nat /\ n + 1 \in Nat
      /\ truth \in Lives
  BY DEF RowInv
<1> DEFINE Kept == /\ UNCHANGED cur
                   /\ log' \in [Trace -> Seq(Rows)] /\ truth' \in Lives /\ EndsLogged'
<1>1. ASSUME Kept, n' \in Nat, clock' \in Nat PROVE RowInv'
  BY <1>0, <1>1 DEF RowInv
<1>2. ASSUME NEW state \in States, state # "open", Ends(state)
      PROVE  /\ truth' \in Lives /\ truth'[cur].state # "open"
             /\ \A t \in Trace : truth[t].state # "open" => truth'[t].state # "open"
  BY <1>0, <1>2 DEF Ends, Lives
<1>3. CASE Receive
  <2>1. Record("prefix", n, clock, 0) /\ UNCHANGED <<cur, n, clock, truth>>
    BY <1>3 DEF Receive, Emit, run
  <2>2. "prefix" \notin Terminals
    BY DEF Terminals, AckTerminals
  <2> QED
    BY <1>0, <1>1, <2>1, <2>2, RecordedKeeps
<1>4. CASE CommandExpires
  <2>1. Ends("rejected") /\ UNCHANGED <<cur, n, clock, log>>
    BY <1>4 DEF CommandExpires, run, captured
  <2> QED
    BY <1>0, <1>2, <2>1 DEF RowInv, EndsLogged
<1>5. CASE FrameRejected \/ FrameSent
  <2>1. PICK more : Record("can_frame_sent", n, clock + 1, more)
    BY <1>5 DEF FrameRejected, FrameSent
  <2>2. UNCHANGED <<cur, n, truth>> /\ clock' = clock + 1
    BY <1>5 DEF FrameRejected, FrameSent, run
  <2>3. "can_frame_sent" \notin Terminals
    BY DEF Terminals, AckTerminals
  <2> QED
    BY <1>0, <1>1, <2>1, <2>2, <2>3, RecordedKeeps
<1>6. CASE SendFailed
  <2>1. /\ Record("can_frame_send_failed", n, clock, 0) /\ Ends("send_failed")
        /\ UNCHANGED <<cur, n, clock>>
    BY <1>6 DEF SendFailed, Emit, run
  <2> QED
    BY <1>0, <1>1, <1>2, <2>1, RecordedKeeps
<1>7. CASE AckArrives
  <2>1. /\ Record("can_ack_received", n, clock, 0) /\ Ends("ack_received")
        /\ UNCHANGED <<cur, n, clock>>
    BY <1>7 DEF AckArrives, Emit, run
  <2> QED
    BY <1>0, <1>1, <1>2, <2>1, RecordedKeeps
<1>8. CASE Exhaust
  <2>1. /\ Record("can_retry_exhausted", n, clock, 0) /\ Ends("retry_exhausted")
        /\ UNCHANGED <<cur, n, clock>>
    BY <1>8 DEF Exhaust, Emit, run
  <2> QED
    BY <1>0, <1>1, <1>2, <2>1, RecordedKeeps
<1>9. CASE StartWait
  <2>1. Record("can_ack_wait_start", n, clock, 0) /\ UNCHANGED <<cur, n, clock>>
    BY <1>9 DEF StartWait, Emit, run
  <2>2. truth' = [truth EXCEPT ![cur].waits = @ + 1]
    BY <1>9 DEF StartWait
  <2>3. truth' \in Lives /\ \A t \in Trace : truth'[t].state = truth[t].state
    BY <1>0, <2>2 DEF Lives
  <2>4. "can_ack_wait_start" \notin Terminals
    BY DEF Terminals, AckTerminals
  <2> QED
    BY <1>0, <1>1, <2>1, <2>3, <2>4, RecordedKeeps
<1>10. CASE AckTimesOut
  <2>1. Record("can_ack_timeout", n, clock, 0) /\ UNCHANGED <<cur, n, clock>>
    BY <1>10 DEF AckTimesOut, Emit, run
  <2>2. truth' = [truth EXCEPT ![cur].timeouts = @ + 1]
    BY <1>10 DEF AckTimesOut
  <2>3. truth' \in Lives /\ \A t \in Trace : truth'[t].state = truth[t].state
    BY <1>0, <2>2 DEF Lives
  <2>4. "can_ack_timeout" \notin Terminals
    BY DEF Terminals, AckTerminals
  <2> QED
    BY <1>0, <1>1, <2>1, <2>3, <2>4, RecordedKeeps
<1>11. CASE ScheduleRetry
  <2>1. /\ Record("can_retry_scheduled", n + 1, clock, 0) /\ UNCHANGED <<cur, clock>>
        /\ n' = n + 1
    BY <1>11 DEF ScheduleRetry, run
  <2>2. truth' = [truth EXCEPT ![cur].retries = @ + 1]
    BY <1>11 DEF ScheduleRetry
  <2>3. truth' \in Lives /\ \A t \in Trace : truth'[t].state = truth[t].state
    BY <1>0, <2>2 DEF Lives
  <2>4. "can_retry_scheduled" \notin Terminals
    BY DEF Terminals, AckTerminals
  <2> QED
    BY <1>0, <1>1, <2>1, <2>3, <2>4, RecordedKeeps
<1>12. CASE NextCommand
  <2>1. /\ cur < NumTraces /\ cur' = cur + 1 /\ n' = 0 /\ UNCHANGED <<clock, truth, log>>
    BY <1>12 DEF NextCommand, captured
  <2> QED
    BY <2>1, EvidenceAssumption DEF RowInv, EndsLogged, Trace
<1>13. CASE Cut
  BY <1>13 DEF Cut, run, captured, RowInv, EndsLogged
<1> QED
  BY <1>3, <1>4, <1>5, <1>6, <1>7, <1>8, <1>9, <1>10, <1>11, <1>12, <1>13 DEF EvidenceNext

\* A topology that the contract confirms shows a terminal, and that one happened.
LEMMA ValidTopology ==
  ASSUME RowInv, NEW t \in Trace
  PROVE  /\ Topology(t) \in {"valid", "partial", "invalid"}
         /\ Topology(t) = "valid" => truth[t].state # "open"
<1> DEFINE observed == {log[t][i].event : i \in DOMAIN log[t]} \cap Terminals
           paths    == IF observed = {} THEN Terminals ELSE observed
           found    == {PathStatus(t, terminal) : terminal \in paths}
<1>1. Topology(t) \in {"valid", "partial", "invalid"} /\ (Topology(t) = "valid" => "valid" \in found)
  <2> DEFINE many == Cardinality(observed) > 1
  <2>1. Topology(t) = IF many THEN "invalid" ELSE IF "valid" \in found THEN "valid"
                      ELSE IF "partial" \in found THEN "partial" ELSE "invalid"
    BY DEF Topology
  <2> HIDE DEF found, many
  <2> QED
    BY <2>1
<1>2. ASSUME NEW terminal \in Terminals, PathStatus(t, terminal) = "valid"
      PROVE  \E i \in DOMAIN log[t] : log[t][i].event = terminal
  <2> DEFINE path     == Path(terminal)
             rows     == log[t]
             place(i) == CHOOSE p \in DOMAIN path : path[p] = rows[i].event
             admitted == {i \in DOMAIN rows : rows[i].event \in ToSet(path)}
             backward == \E i, k \in admitted :
                            /\ i < k /\ \A j \in i + 1 .. k - 1 : j \notin admitted
                            /\ k \notin Restarts(t, terminal)
                            /\ place(k) < place(i)
             some     == {rows[i].event : i \in admitted}
  <2>1. PathStatus(t, terminal) = IF backward THEN "invalid"
                                  ELSE IF some # ToSet(path) THEN "partial" ELSE "valid"
    BY DEF PathStatus
  <2> HIDE DEF backward
  <2>2. some = ToSet(path)
    BY <1>2, <2>1
  <2>3. terminal \in ToSet(path)
    BY DEF ToSet, Path
  <2> QED
    BY <2>2, <2>3
<1>3. DOMAIN log[t] = 1 .. Len(log[t])
  BY DEF RowInv
<1> QED
  BY <1>1, <1>2, <1>3 DEF RowInv, EndsLogged

-----------------------------------------------------------------------------
(* From the capture to the report.                                         *)

Statuses == {"valid", "partial", "invalid"}

\* What is picked is confirmed only of a command that ended, and the report is
\* the one of what is given.
PickedInv ==
  picked # NotPicked =>
     /\ picked.topology \in Statuses
     /\ picked.topology = "valid" => picked.state # "open"

GivenInv ==
  /\ given # NotGiven =>
       /\ given[2] \in Profiles
       /\ given[1].topology \in Statuses
       /\ given[1].topology = "valid" => given[1].state # "open"
  /\ report # NoReport => given # NotGiven /\ report = Report(given[1], given[2])

PipelineInv == RowInv /\ PickedInv /\ GivenInv

LEMMA InitPipeline == Init => PipelineInv
  BY InitRows DEF Init, PipelineInv, PickedInv, GivenInv, CampaignInit

LEMMA PickedSound ==
  ASSUME NEW topology \in Statuses, NEW state, NEW least, NEW most,
         topology = "valid" => state # "open",
         Picks(topology, state, least, most), GivenInv
  PROVE  PipelineInv'
<1>1. PickedInv'
  <2>1. picked' = [topology |-> topology, state |-> state, least |-> least, most |-> most]
    BY DEF Picks
  <2> QED
    BY <2>1 DEF PickedInv
<1>2. GivenInv'
  BY DEF Picks, GivenInv, campaign
<1>3. RowInv'
  <2>1. /\ cur' = 1 /\ n' = 0 /\ clock' = 0 /\ log' = [u \in Trace |-> <<>>]
        /\ truth' = [u \in Trace |-> NotYet]
    BY DEF Picks
  <2>2. cur' \in Trace
    BY <2>1, EvidenceAssumption DEF Trace
  <2>3. <<>> \in Seq(Rows)
    OBVIOUS
  <2>4. log' \in [Trace -> Seq(Rows)] /\ EndsLogged'
    BY <2>1, <2>3 DEF EndsLogged
  <2>5. truth' \in Lives
    BY <2>1 DEF Lives, NotYet, States
  <2> QED
    BY <2>1, <2>2, <2>4, <2>5 DEF RowInv
<1> QED
  BY <1>1, <1>2, <1>3 DEF PipelineInv

LEMMA CampaignReports == CampaignNext => report' = report \/ report' = NoReport
  BY DEF CampaignNext, Invoke, Gate, OverBudget, BaselineRejected, Schedule, Trial,
         DecideClosed, DecideRepeated, Decides, RecordsRefused, Kill, MoveHead, NewDirectory

LEMMA StepPipeline == PipelineInv /\ [Next]_vars => PipelineInv'
<1> SUFFICES ASSUME PipelineInv, [Next]_vars PROVE PipelineInv'
  OBVIOUS
<1> USE DEF PipelineInv
<1>1. CASE Capture
  <2>1. EvidenceNext /\ UNCHANGED <<report, picked, given>>
    BY <1>1 DEF Capture, campaign
  <2> QED
    BY <2>1, StepRows DEF PickedInv, GivenInv
<1>2. ASSUME NEW t \in Trace, Pick(t) PROVE PipelineInv'
  BY <1>2, ValidTopology, PickedSound DEF Pick, Statuses
<1>3. CASE CapturePlanner
  BY <1>3 DEF CapturePlanner, campaign, evidence, bridge, captured, RowInv, EndsLogged,
              PickedInv, GivenInv
<1>4. ASSUME NEW t \in Frame, PickPlanned(t) PROVE PipelineInv'
  <2>1. PICK verdict \in {<<"partial", "open">>, <<"invalid", "open">>,
                          <<"valid", "ack_received">>} :
           \E least, most : Picks(verdict[1], verdict[2], least, most)
    BY <1>4 DEF PickPlanned
  <2>2. verdict[1] \in Statuses /\ (verdict[1] = "valid" => verdict[2] # "open")
    BY <2>1 DEF Statuses
  <2> QED
    BY <2>1, <2>2, PickedSound
<1>5. ASSUME NEW profile \in Profiles, Infer(profile) PROVE PipelineInv'
  <2>1. PICK nodes, levels :
           LET e == [topology |-> picked.topology, state |-> picked.state,
                     nodes |-> nodes, seen |-> levels]
           IN given' = <<e, profile>> /\ report' = Report(e, profile)
    BY <1>5 DEF Infer
  <2>2. picked # NotPicked /\ picked' = NotPicked /\ UNCHANGED halves
    BY <1>5 DEF Infer
  <2>3. RowInv'
    BY <2>2 DEF halves, evidence, bridge, captured, RowInv, EndsLogged
  <2>4. GivenInv'
    BY <2>1, <2>2 DEF GivenInv, PickedInv, NotGiven
  <2> QED
    BY <2>2, <2>3, <2>4 DEF PickedInv
<1>6. CASE Optimize
  <2>1. /\ report' = report \/ report' = NoReport
        /\ given' = IF report' = NoReport THEN NotGiven ELSE given
        /\ UNCHANGED <<halves, picked>>
    BY <1>6, CampaignReports DEF Optimize
  <2>2. RowInv' /\ PickedInv'
    BY <2>1 DEF halves, evidence, bridge, captured, RowInv, EndsLogged, PickedInv
  <2> QED
    BY <2>1, <2>2 DEF GivenInv
<1>7. CASE UNCHANGED vars
  BY <1>7 DEF vars, halves, evidence, bridge, captured, campaign, RowInv, EndsLogged,
              PickedInv, GivenInv
<1> QED
  BY <1>1, <1>2, <1>3, <1>4, <1>5, <1>6, <1>7 DEF Next

LEMMA PipelineInvariant == Spec => []PipelineInv
  BY InitPipeline, StepPipeline, PTL DEF Spec

\* The campaigns of the pipeline are those of OptimizationCampaign, whose
\* reports come from the inference.
THEOREM RunsCampaigns == Spec => CampaignSpec
<1>1. Init => CampaignInit
  BY DEF Init
<1>2. [Next]_vars => [CampaignNext \/ Deliver]_campaign
  <2>1. CASE UNCHANGED vars
    BY <2>1 DEF vars
  <2>2. CASE Next
    BY <2>2 DEF Next, Capture, CapturePlanner, Pick, PickPlanned, Picks, Infer, Optimize
  <2> QED
    BY <2>1, <2>2
<1> QED
  BY <1>1, <1>2, PTL DEF Spec, CampaignSpec

\* What GateNeedsCause says of one step.
Confirmed ==
    \A minimum \in Thresholds :
         Gate(minimum) /\ files'.gate = "allow" /\ minimum[1][1] > 0 =>
           LET e == given[1]
               p == given[2]
               c == report.cause
           IN /\ e.topology = "valid" /\ e.state # "open"
              /\ \A m \in DOMAIN p.weights : Available(e, m)
              /\ Supporting(e, p, c) # {}
              /\ \A d \in Active(p) \ {c} : Score(e, p, d) < Score(e, p, c)

LEMMA GateConfirms == PipelineInv /\ CampaignInv => Confirmed
<1> SUFFICES ASSUME PipelineInv, CampaignInv, NEW minimum \in Thresholds,
                    Gate(minimum), files'.gate = "allow", minimum[1][1] > 0
             PROVE  LET e == given[1]
                        p == given[2]
                        c == report.cause
                    IN /\ e.topology = "valid" /\ e.state # "open"
                       /\ \A m \in DOMAIN p.weights : Available(e, m)
                       /\ Supporting(e, p, c) # {}
                       /\ \A d \in Active(p) \ {c} : Score(e, p, d) < Score(e, p, c)
  BY DEF Confirmed
<1>1. GateReason(minimum) = "allow"
  <2>1. files' = [files EXCEPT !.gate = GateReason(minimum)] /\ stage = "gate"
    BY DEF Gate
  <2>2. Whole
    BY <2>1 DEF CampaignInv, Unwritten, Busy
  <2> QED
    BY <2>1, <2>2, Writes
<1>2. /\ report.status # "abstained" /\ report.evidence = "valid"
      /\ AtLeast(report.confidence, minimum[1])
  BY <1>1 DEF GateReason
<1>3. /\ given # NotGiven /\ report = Report(given[1], given[2])
      /\ IsProfile(given[2]) /\ given[1].topology \in Statuses
      /\ given[1].topology = "valid" => given[1].state # "open"
  BY PipelineAssumption DEF Gate, PipelineInv, GivenInv
<1>4. minimum[1] \in Fraction
  BY CampaignAssumption
<1> QED
  BY <1>2, <1>3, <1>4, ConfidentReport DEF Statuses

\* No campaign goes past the gate, with a positive --minimum-confidence, on a
\* diagnosis whose cause the evidence does not single out.
THEOREM ActsOnConfirmedCause == Spec => GateNeedsCause
<1>1. PipelineInv /\ CampaignInv => [Confirmed]_vars
  BY GateConfirms
<1> QED
  BY <1>1, PipelineInvariant, RunsCampaigns, Invariance, PTL DEF GateNeedsCause, Confirmed

-----------------------------------------------------------------------------
(* What the candidates of a schedule are: a fold over the plan.            *)

\* What the fold's step keeps holds of the whole fold.
LEMMA FoldStays ==
  ASSUME NEW S, IsFiniteSet(S), NEW V, NEW f,
         NEW pick, \A s \in SUBSET S : s # {} => pick[s] \in s,
         f[{}] \in V,
         \A s \in SUBSET S : s # {} /\ f[s \ {pick[s]}] \in V => f[s] \in V
  PROVE  \A s \in SUBSET S : f[s] \in V
<1> DEFINE T == {k \in Nat : \A s \in SUBSET S : Cardinality(s) <= k => f[s] \in V}
<1>1. \A s \in SUBSET S : /\ IsFiniteSet(s) /\ Cardinality(s) \in Nat
                          /\ Cardinality(s) <= 0 => s = {}
  BY FS_Subset, FS_CardinalityType, FS_EmptySet
<1>2. 0 \in T
  BY <1>1
<1>3. ASSUME NEW k \in T PROVE k + 1 \in T
  <2>1. ASSUME NEW s \in SUBSET S, Cardinality(s) <= k + 1, s # {} PROVE f[s] \in V
    <3>1. pick[s] \in s
      BY <2>1
    <3> DEFINE r == s \ {pick[s]}
    <3>2. Cardinality(r) = Cardinality(s) - 1
      BY <1>1, <3>1, FS_RemoveElement
    <3>3. Cardinality(r) <= k /\ r \in SUBSET S
      BY <1>1, <2>1, <3>2
    <3>4. f[r] \in V
      BY <3>3
    <3> QED
      BY <2>1, <3>4
  <2>2. k + 1 \in Nat
    OBVIOUS
  <2>3. \A s \in SUBSET S : Cardinality(s) <= k + 1 => f[s] \in V
    BY <2>1
  <2> QED
    BY <2>2, <2>3
<1>4. T = Nat
  <2>1. T \in SUBSET Nat
    OBVIOUS
  <2> HIDE DEF T
  <2> QED
    BY <1>2, <1>3, <2>1, Induction
<1> QED
  BY <1>1, <1>4, FS_Subset, FS_CardinalityType

\* The lists of values, each there once, without the baseline.
Lists(baseline) ==
  {list \in Seq(Values) : /\ \A i, j \in 1 .. Len(list) : list[i] = list[j] => i = j
                          /\ baseline \notin ToSet(list)}

Keeps(list, row, baseline) ==
  IF row.applicable /\ row.value # baseline /\ row.value \notin ToSet(list)
  THEN Append(list, row.value) ELSE list

LEMMA KeepsList ==
  ASSUME NEW baseline, NEW list \in Lists(baseline), NEW row, row.value \in Values
  PROVE  Keeps(list, row, baseline) \in Lists(baseline)
<1>1. CASE row.applicable /\ row.value # baseline /\ row.value \notin ToSet(list)
  <2> DEFINE new == Append(list, row.value)
  <2>1. list \in Seq(Values) /\ new \in Seq(Values)
    BY DEF Lists
  <2>2. /\ Len(new) = Len(list) + 1 /\ new[Len(list) + 1] = row.value
        /\ \A i \in 1 .. Len(list) : new[i] = list[i]
        /\ Len(list) \in Nat
    BY <2>1
  <2>3. DOMAIN list = 1 .. Len(list) /\ DOMAIN new = 1 .. Len(list) + 1
    BY <2>1, <2>2
  <2> HIDE DEF new
  <2>4. /\ \A i \in 1 .. Len(list) : list[i] # row.value /\ list[i] # baseline
        /\ \A i, j \in 1 .. Len(list) : list[i] = list[j] => i = j
    BY <1>1, <2>3 DEF ToSet, Lists
  <2>5. ASSUME NEW i \in 1 .. Len(new), NEW j \in 1 .. Len(new), new[i] = new[j] PROVE i = j
    BY <2>2, <2>4, <2>5
  <2>6. baseline \notin ToSet(new)
    BY <1>1, <2>2, <2>3, <2>4 DEF ToSet
  <2>7. new \in Lists(baseline)
    BY <2>1, <2>5, <2>6 DEF Lists
  <2> QED
    BY <1>1, <2>7 DEF Keeps, new
<1> QED
  BY <1>1 DEF Keeps

\* f[s] is what the rows of s leave.
Kept(f, plan, baseline) ==
  f = [s \in SUBSET DOMAIN plan |->
         IF s = {} THEN <<>> ELSE LET x == Max(s) IN Keeps(f[s \ {x}], plan[x], baseline)]

LEMMA MaxOfNaturals ==
  ASSUME NEW k \in Nat, NEW s \in SUBSET (1 .. k), s # {}
  PROVE  Max(s) \in s
<1> DEFINE f == [x \in s |-> x]
<1>1. IsFiniteSet(s)
  <2>1. IsFiniteSet(1 .. k)
    BY FS_Interval
  <2> QED
    BY <2>1, FS_Subset
<1>2. \A x \in s : f[x] \in Nat
  OBVIOUS
<1>3. PICK x \in s : \A y \in s : f[y] <= f[x]
  BY <1>1, <1>2, MaximumExists
<1>4. x \in s /\ \A y \in s : x >= y
  BY <1>3
<1> QED
  BY <1>4 DEF Max

LEMMA KeptExists ==
  ASSUME NEW baseline, NEW k \in Nat, NEW plan, DOMAIN plan = 1 .. k,
         \A i \in 1 .. k : plan[i].value \in Values
  PROVE  \E f : Kept(f, plan, baseline)
<1> DEFINE S == DOMAIN plan
           V == Lists(baseline)
           pick == [s \in SUBSET S |-> Max(s)]
           step == [a \in S \X V |-> Keeps(a[2], plan[a[1]], baseline)]
<1>1. IsFiniteSet(S)
  BY FS_Interval
<1>2. \A s \in SUBSET S : s # {} => pick[s] \in s
  BY MaxOfNaturals
<1>3. <<>> \in V
  BY DEF Lists, ToSet
<1>4. \A x \in S, v \in V : step[<<x, v>>] = Keeps(v, plan[x], baseline)
  OBVIOUS
<1>5. \A x \in S, v \in V : step[<<x, v>>] \in V
  BY <1>4, KeepsList
<1>6. \A s \in SUBSET S : pick[s] = Max(s)
  OBVIOUS
<1> HIDE DEF pick, step, V
<1>7. PICK f \in [SUBSET S -> V] : Folds(f, S, <<>>, pick, step)
  BY <1>1, <1>2, <1>3, <1>5, FoldExists
<1>8. ASSUME NEW s \in SUBSET S
      PROVE  f[s] = IF s = {} THEN <<>>
                    ELSE LET x == Max(s) IN Keeps(f[s \ {x}], plan[x], baseline)
  <2>1. CASE s = {}
    BY <1>7, <2>1 DEF Folds
  <2>2. CASE s # {}
    <3>1. Max(s) \in S /\ pick[s] = Max(s) /\ s \ {Max(s)} \in SUBSET S
      BY <1>2, <1>6, <2>2
    <3>2. f[s] = step[<<Max(s), f[s \ {Max(s)}]>>]
      BY <1>7, <2>2, <3>1 DEF Folds
    <3>3. f[s \ {Max(s)}] \in V
      BY <3>1
    <3> QED
      BY <1>4, <2>2, <3>1, <3>2, <3>3
  <2> QED
    BY <2>1, <2>2
<1> QED
  BY <1>8 DEF Kept

\* The candidates are scheduled once each, and the baseline is none of them.
LEMMA CandidatesDistinct ==
  ASSUME NEW baseline, NEW k \in Nat, NEW plan, DOMAIN plan = 1 .. k,
         \A i \in 1 .. k : plan[i].value \in Values
  PROVE  Candidates(plan, baseline) \in Lists(baseline)
<1> DEFINE f == CHOOSE f : Kept(f, plan, baseline)
           S == DOMAIN plan
           V == Lists(baseline)
           pick == [s \in SUBSET S |-> Max(s)]
<1>1. Candidates(plan, baseline) = f[S]
  BY DEF Candidates, FoldLeft, MapThenFoldSet, Kept, Keeps
<1>2. Kept(f, plan, baseline)
  BY KeptExists
<1> HIDE DEF f
<1>3. IsFiniteSet(S)
  BY FS_Interval
<1>4. \A s \in SUBSET S : s # {} => pick[s] \in s
  BY MaxOfNaturals
<1>5. f[{}] \in V
  <2>1. f[{}] = <<>>
    BY <1>2 DEF Kept
  <2> QED
    BY <2>1 DEF Lists, ToSet
<1>6. \A s \in SUBSET S : pick[s] = Max(s)
  OBVIOUS
<1> HIDE DEF pick, V
<1>7. ASSUME NEW s \in SUBSET S, s # {}, f[s \ {pick[s]}] \in V PROVE f[s] \in V
  <2>1. f[s] = Keeps(f[s \ {Max(s)}], plan[Max(s)], baseline)
    BY <1>2, <1>7 DEF Kept
  <2>2. Max(s) \in S
    BY <1>4, <1>6, <1>7
  <2> QED
    <3>1. plan[Max(s)].value \in Values
      BY <2>2
    <3>2. f[s \ {Max(s)}] \in Lists(baseline)
      BY <1>6, <1>7 DEF V
    <3> QED
      BY <2>1, <3>1, <3>2, KeepsList DEF V
<1>8. \A s \in SUBSET S : f[s] \in V
  BY <1>3, <1>4, <1>5, <1>7, FoldStays
<1> QED
  BY <1>1, <1>8 DEF V

-----------------------------------------------------------------------------
(* Division with remainder, and the orders of a repeated schedule.         *)

-----------------------------------------------------------------------------
(* The schedule.                                                           *)

LEMMA DivMod ==
  ASSUME NEW x \in Int, NEW d \in Nat \ {0}
  PROVE  /\ x \div d \in Int /\ x % d \in 0 .. d - 1
         /\ x = d * (x \div d) + (x % d)
  OBVIOUS

LEMMA Times == \A d \in Nat \ {0}, q \in Int : q > 0 => d * q >= d
  OBVIOUS

\* Quotient and remainder are the only pair of their kind.
LEMMA DivModOnly ==
  ASSUME NEW d \in Nat \ {0}, NEW p \in Int, NEW q \in Int,
         NEW r \in 0 .. d - 1, NEW s \in 0 .. d - 1, d * p + r = d * q + s
  PROVE  p = q /\ r = s
<1>1. d * (p - q) = s - r /\ d * (q - p) = r - s
  <2>1. d * (p - q) = d * p - d * q /\ d * (q - p) = d * q - d * p
    OBVIOUS
  <2> QED
    BY <2>1
<1>2. ~(p - q > 0)
  <2> SUFFICES ASSUME p - q > 0 PROVE FALSE
    OBVIOUS
  <2>1. d * (p - q) >= d /\ p - q \in Int
    BY Times
  <2> QED
    BY <1>1, <2>1
<1>3. ~(q - p > 0)
  <2> SUFFICES ASSUME q - p > 0 PROVE FALSE
    OBVIOUS
  <2>1. d * (q - p) >= d /\ q - p \in Int
    BY Times
  <2> QED
    BY <1>1, <2>1
<1>4. p = q
  BY <1>2, <1>3
<1> QED
  BY <1>1, <1>4

\* Adding b goes round the places of a block, to each place once.
LEMMA Rotates ==
  ASSUME NEW d \in Nat \ {0}, NEW b \in Nat, NEW k \in 0 .. d - 1
  PROVE  /\ \E r \in 0 .. d - 1 : (r + b) % d = k
         /\ \A r, s \in 0 .. d - 1 : (r + b) % d = (s + b) % d => r = s
<1>1. \E r \in 0 .. d - 1 : (r + b) % d = k
  <2> DEFINE r == (k - b) % d
             p == (k - b) \div d
             q == (r + b) \div d
             m == (r + b) % d
  <2>1. r \in 0 .. d - 1 /\ p \in Int /\ k - b = d * p + r
    <3>1. k - b \in Int
      OBVIOUS
    <3> QED
      BY <3>1, DivMod
  <2> HIDE DEF r, p
  <2>2. q \in Int /\ m \in 0 .. d - 1 /\ r + b = d * q + m
    <3>1. r + b \in Int
      BY <2>1
    <3> QED
      BY <3>1, DivMod
  <2> HIDE DEF q, m
  <2>3. d * 0 + k = d * (p + q) + m
    <3>1. d * (p + q) = d * p + d * q
      BY <2>1, <2>2
    <3>2. d * p \in Int /\ d * q \in Int
      BY <2>1, <2>2
    <3> QED
      BY <2>1, <2>2, <3>1, <3>2
  <2>4. m = k
    <3>1. p + q \in Int /\ 0 \in Int
      BY <2>1, <2>2
    <3> QED
      BY <2>2, <2>3, <3>1, DivModOnly
  <2> QED
    BY <2>1, <2>4 DEF m
<1>2. ASSUME NEW r \in 0 .. d - 1, NEW s \in 0 .. d - 1, (r + b) % d = (s + b) % d PROVE r = s
  <2> DEFINE p == (r + b) \div d
             q == (s + b) \div d
             m == (r + b) % d
  <2>1. p \in Int /\ m \in 0 .. d - 1 /\ r + b = d * p + m
    <3>1. r + b \in Int
      OBVIOUS
    <3> QED
      BY <3>1, DivMod
  <2>2. q \in Int /\ s + b = d * q + m
    <3>1. s + b \in Int
      OBVIOUS
    <3> QED
      BY <1>2, <3>1, DivMod
  <2> HIDE DEF p, q, m
  <2>3. d * q + r = d * p + s
    <3>1. d * p \in Int /\ d * q \in Int
      BY <2>1, <2>2
    <3> QED
      BY <2>1, <2>2, <3>1
  <2> QED
    <3>1. q \in Int /\ p \in Int /\ r \in 0 .. d - 1 /\ s \in 0 .. d - 1
      BY <1>2, <2>1, <2>2
    <3>2. q = p /\ r = s
      BY <2>3, <3>1, DivModOnly
    <3> QED
      BY <3>2
<1> QED
  BY <1>1, <1>2

\* What a schedule is: every configuration in every block, once.
EachOnce(trials, blocks, configs) ==
  /\ \E k \in Nat : DOMAIN trials = 1 .. k
  /\ \A i \in DOMAIN trials : trials[i] \in [block : blocks, config : configs]
  /\ \A b \in blocks, c \in configs :
        \E i \in DOMAIN trials : trials[i] = [block |-> b, config |-> c]
  /\ \A i, j \in DOMAIN trials : trials[i] = trials[j] => i = j

\* An order that covers the configurations names each of them once.
LEMMA OrderInjective ==
  ASSUME NEW configs, IsFiniteSet(configs), NEW order \in Orders(configs)
  PROVE  /\ order \in [1 .. Cardinality(configs) -> configs]
         /\ \A c \in configs : \E k \in 1 .. Cardinality(configs) : order[k] = c
         /\ \A j, k \in 1 .. Cardinality(configs) : order[j] = order[k] => j = k
<1> DEFINE size == Cardinality(configs)
<1>1. size \in Nat /\ IsFiniteSet(1 .. size) /\ Cardinality(1 .. size) = size
  <2>1. size \in Nat
    BY FS_CardinalityType
  <2> HIDE DEF size
  <2> QED
    BY <2>1, FS_Interval
<1>2. order \in [1 .. size -> configs] /\ ToSet(order) = configs
  BY DEF Orders
<1>3. order \in Surjection(1 .. size, configs)
  BY <1>2 DEF Surjection, ToSet
<1>4. order \in Injection(1 .. size, configs)
  BY <1>1, <1>3, FS_SurjSameCardinalityImpliesInj
<1> QED
  BY <1>2, <1>4 DEF Injection, ToSet, IsInjective

-----------------------------------------------------------------------------
(* A schedule has each configuration once in each block.                   *)

LEMMA TimesMonotone == \A d \in Nat, p, q \in Int : p <= q => d * p <= d * q
  OBVIOUS

\* The two coordinates of a place in the schedule of a repeated campaign.
LEMMA Places ==
  ASSUME NEW d \in Nat \ {0}, NEW k \in Nat
  PROVE  /\ d * k \in Nat
         /\ \A x \in 0 .. d * k - 1 : x \div d \in 0 .. k - 1 /\ x % d \in 0 .. d - 1
         /\ \A q \in 0 .. k - 1, r \in 0 .. d - 1 :
               /\ d * q + r \in 0 .. d * k - 1
               /\ (d * q + r) \div d = q /\ (d * q + r) % d = r
         /\ \A x, y \in 0 .. d * k - 1 : x \div d = y \div d /\ x % d = y % d => x = y
<1>1. d * k \in Nat
  OBVIOUS
<1>2. ASSUME NEW x \in 0 .. d * k - 1 PROVE x \div d \in 0 .. k - 1 /\ x % d \in 0 .. d - 1
  <2> DEFINE q == x \div d
             r == x % d
  <2>0. x \in Int /\ 0 <= x /\ x < d * k
    BY <1>1, <1>2
  <2>1. q \in Int /\ r \in 0 .. d - 1 /\ x = d * q + r
    BY <2>0, DivMod
  <2> HIDE DEF q, r
  <2>2. ~(q <= -1)
    <3> SUFFICES ASSUME q <= -1 PROVE FALSE
      OBVIOUS
    <3>1. -1 \in Int /\ d * q <= d * (-1)
      BY <2>1, TimesMonotone
    <3>2. d * q \in Int /\ d * (-1) = -d
      BY <2>1
    <3> QED
      BY <2>0, <2>1, <3>1, <3>2
  <2>3. ~(k <= q)
    <3> SUFFICES ASSUME k <= q PROVE FALSE
      OBVIOUS
    <3>1. d * k <= d * q
      BY <2>1, TimesMonotone
    <3>2. d * q \in Int
      BY <2>1
    <3> QED
      BY <1>1, <2>0, <2>1, <3>1, <3>2
  <2> QED
    BY <2>1, <2>2, <2>3 DEF q, r
<1>3. ASSUME NEW q \in 0 .. k - 1, NEW r \in 0 .. d - 1
      PROVE  /\ d * q + r \in 0 .. d * k - 1
             /\ (d * q + r) \div d = q /\ (d * q + r) % d = r
  <2> DEFINE x == d * q + r
  <2>1. d * q \in Nat /\ x \in Int /\ 0 <= x
    OBVIOUS
  <2>2. x <= d * k - 1
    <3>1. d * (q + 1) <= d * k
      BY TimesMonotone
    <3>2. d * (q + 1) = d * q + d
      OBVIOUS
    <3> QED
      BY <1>1, <2>1, <3>1, <3>2
  <2>3. x \div d = q /\ x % d = r
    <3> DEFINE u == x \div d
               v == x % d
    <3>1. u \in Int /\ v \in 0 .. d - 1 /\ x = d * u + v
      BY <2>1, DivMod
    <3> HIDE DEF u, v
    <3>2. d * u + v = d * q + r /\ q \in Int
      BY <3>1
    <3>3. u = q /\ v = r
      BY <3>1, <3>2, DivModOnly
    <3> QED
      BY <3>3 DEF u, v
  <2> QED
    BY <1>1, <2>1, <2>2, <2>3
<1>4. ASSUME NEW x \in 0 .. d * k - 1, NEW y \in 0 .. d * k - 1,
             x \div d = y \div d, x % d = y % d
      PROVE  x = y
  <2>1. x = d * (x \div d) + (x % d) /\ y = d * (y \div d) + (y % d)
    BY <1>1, DivMod
  <2> QED
    BY <1>4, <2>1
<1> QED
  BY <1>1, <1>2, <1>3, <1>4

LEMMA RepeatedOnce ==
  ASSUME NEW configs, IsFiniteSet(configs), configs # {}, NEW order \in Orders(configs)
  PROVE  EachOnce(RepeatedTrials(order), Block, configs)
<1> DEFINE d == Cardinality(configs)
           trials == RepeatedTrials(order)
           N == d * Repetitions
           at(i) == ((((i - 1) % d) + ((i - 1) \div d + 1) - 1) % d) + 1
<1>1. d \in Nat \ {0} /\ Repetitions \in Nat \ {0}
  BY FS_CardinalityType, FS_EmptySet, CampaignAssumption
<1>2. /\ order \in [1 .. d -> configs]
      /\ \A c \in configs : \E k \in 1 .. d : order[k] = c
      /\ \A j, k \in 1 .. d : order[j] = order[k] => j = k
  BY OrderInjective
<1> HIDE DEF d
<1>3. Len(order) = d
  BY <1>1, <1>2
<1>4. trials = [i \in 1 .. N |-> [block |-> (i - 1) \div d + 1, config |-> order[at(i)]]]
  BY <1>3 DEF RepeatedTrials
<1>5. /\ N \in Nat
      /\ \A x \in 0 .. N - 1 : x \div d \in 0 .. Repetitions - 1 /\ x % d \in 0 .. d - 1
      /\ \A q \in 0 .. Repetitions - 1, r \in 0 .. d - 1 :
            /\ d * q + r \in 0 .. N - 1
            /\ (d * q + r) \div d = q /\ (d * q + r) % d = r
      /\ \A x, y \in 0 .. N - 1 : x \div d = y \div d /\ x % d = y % d => x = y
  BY <1>1, Places
<1> HIDE DEF trials, N
<1>6. ASSUME NEW x \in Nat, NEW b \in Nat PROVE ((x + (b + 1) - 1) % d) = (x + b) % d
  <2>1. x + (b + 1) - 1 = x + b
    OBVIOUS
  <2> QED
    BY <2>1
<1>7. ASSUME NEW i \in 1 .. N
      PROVE  /\ i - 1 \in 0 .. N - 1
             /\ (i - 1) \div d \in 0 .. Repetitions - 1 /\ (i - 1) % d \in 0 .. d - 1
             /\ at(i) = ((((i - 1) % d) + ((i - 1) \div d)) % d) + 1
             /\ at(i) \in 1 .. d
  <2>1. i - 1 \in 0 .. N - 1
    BY <1>5
  <2>2. (i - 1) \div d \in 0 .. Repetitions - 1 /\ (i - 1) % d \in 0 .. d - 1
    BY <1>5, <2>1
  <2> DEFINE b == (i - 1) \div d
             r == (i - 1) % d
  <2>3. b \in Nat /\ r \in Nat
    BY <1>1, <2>2
  <2> HIDE DEF b, r
  <2>4. (r + (b + 1) - 1) % d = (r + b) % d
    BY <1>6, <2>3
  <2>5. (r + b) % d \in 0 .. d - 1
    BY <1>1, <2>3, DivMod
  <2> QED
    BY <1>1, <2>1, <2>2, <2>4, <2>5 DEF b, r
<1>8. DOMAIN trials = 1 .. N
  BY <1>4
<1>9. ASSUME NEW i \in 1 .. N
      PROVE  /\ trials[i] = [block |-> (i - 1) \div d + 1, config |-> order[at(i)]]
             /\ trials[i] \in [block : Block, config : configs]
  <2>1. trials[i] = [block |-> (i - 1) \div d + 1, config |-> order[at(i)]]
    BY <1>4
  <2>2. order[at(i)] \in configs
    BY <1>2, <1>7
  <2>3. (i - 1) \div d + 1 \in Block
    BY <1>1, <1>7 DEF Block
  <2> QED
    BY <2>1, <2>2, <2>3
<1> HIDE DEF at
<1>10. ASSUME NEW b \in Block, NEW c \in configs
       PROVE  \E i \in 1 .. N : trials[i] = [block |-> b, config |-> c]
  <2>1. PICK k \in 1 .. d : order[k] = c
    BY <1>2
  <2>2. b - 1 \in 0 .. Repetitions - 1 /\ b - 1 \in Nat /\ k - 1 \in 0 .. d - 1
    BY <1>1 DEF Block
  <2>3. PICK r \in 0 .. d - 1 : (r + (b - 1)) % d = k - 1
    BY <1>1, <2>2, Rotates
  <2> DEFINE x == d * (b - 1) + r
             i == x + 1
  <2>4. x \in 0 .. N - 1 /\ x \div d = b - 1 /\ x % d = r
    BY <1>5, <2>2
  <2> HIDE DEF x
  <2>5. i \in 1 .. N /\ i - 1 = x
    BY <1>5, <2>4
  <2> HIDE DEF i
  <2>6. at(i) = k
    BY <1>7, <2>1, <2>3, <2>4, <2>5
  <2>7. trials[i] = [block |-> b, config |-> c]
    BY <1>9, <2>1, <2>2, <2>4, <2>5, <2>6 DEF Block
  <2> QED
    BY <2>5, <2>7
<1>11. ASSUME NEW i \in 1 .. N, NEW j \in 1 .. N, trials[i] = trials[j] PROVE i = j
  <2> DEFINE p == (i - 1) \div d
             q == (j - 1) \div d
             r == (i - 1) % d
             s == (j - 1) % d
  <2>1. /\ p \in Nat /\ q \in Nat /\ r \in 0 .. d - 1 /\ s \in 0 .. d - 1
        /\ at(i) = ((r + p) % d) + 1 /\ at(j) = ((s + q) % d) + 1
        /\ at(i) \in 1 .. d /\ at(j) \in 1 .. d
    BY <1>1, <1>7
  <2>2. p + 1 = q + 1 /\ order[at(i)] = order[at(j)]
    <3>1. [block |-> p + 1, config |-> order[at(i)]] = [block |-> q + 1, config |-> order[at(j)]]
      BY <1>9, <1>11
    <3> HIDE DEF p, q
    <3>2. \A u, v, w, z : [block |-> u, config |-> v] = [block |-> w, config |-> z]
                           => u = w /\ v = z
      <4> TAKE u, v, w, z
      <4> HAVE [block |-> u, config |-> v] = [block |-> w, config |-> z]
      <4>1. [block |-> u, config |-> v].block = u /\ [block |-> u, config |-> v].config = v
        OBVIOUS
      <4>2. [block |-> w, config |-> z].block = w /\ [block |-> w, config |-> z].config = z
        OBVIOUS
      <4> QED
        BY <4>1, <4>2
    <3> QED
      BY <3>1, <3>2
  <2> HIDE DEF p, q, r, s
  <2>3. p = q
    BY <2>1, <2>2
  <2>4. (r + p) % d = (s + p) % d
    <3>1. at(i) = at(j)
      BY <1>2, <2>1, <2>2
    <3>2. (r + p) % d \in Int /\ (s + q) % d \in Int
      BY <1>1, <2>1, DivMod
    <3> QED
      BY <2>1, <2>3, <3>1, <3>2
  <2>5. r = s
    <3>1. 0 \in 0 .. d - 1
      BY <1>1
    <3> QED
      BY <1>1, <2>1, <2>4, <3>1, Rotates
  <2>6. i - 1 = j - 1
    <3>1. i - 1 \in 0 .. N - 1 /\ j - 1 \in 0 .. N - 1
      BY <1>7
    <3> QED
      BY <1>5, <2>3, <2>5, <3>1 DEF p, q, r, s
  <2> QED
    BY <1>5, <2>6
<1>12. EachOnce(trials, Block, configs)
  <2>1. N \in Nat
    BY <1>5
  <2>2. \A i \in DOMAIN trials : trials[i] \in [block : Block, config : configs]
    BY <1>8, <1>9
  <2>3. \A b \in Block, c \in configs :
           \E i \in DOMAIN trials : trials[i] = [block |-> b, config |-> c]
    BY <1>8, <1>10
  <2>4. \A i, j \in DOMAIN trials : trials[i] = trials[j] => i = j
    BY <1>8, <1>11
  <2> QED
    BY <1>8, <2>1, <2>2, <2>3, <2>4 DEF EachOnce
<1> QED
  BY <1>12 DEF trials

LEMMA ClosedOnce ==
  ASSUME NEW baseline \in Values, NEW chosen \in Lists(baseline)
  PROVE  EachOnce([i \in 1 .. Len(chosen) + 1 |->
                     [block |-> 1, config |-> (<<baseline>> \o chosen)[i]]],
                  {1}, {baseline} \cup ToSet(chosen))
<1> DEFINE all == <<baseline>> \o chosen
           k == Len(chosen) + 1
           trials == [i \in 1 .. k |-> [block |-> 1, config |-> all[i]]]
           configs == {baseline} \cup ToSet(chosen)
<1>1. /\ chosen \in Seq(Values) /\ baseline \notin ToSet(chosen)
      /\ \A i, j \in 1 .. Len(chosen) : chosen[i] = chosen[j] => i = j
  BY DEF Lists
<1>2. /\ Len(chosen) \in Nat /\ DOMAIN chosen = 1 .. Len(chosen)
      /\ all[1] = baseline /\ \A i \in 2 .. k : all[i] = chosen[i - 1]
  BY <1>1
<1>3. \A c : c \in ToSet(chosen) <=> \E i \in 1 .. Len(chosen) : chosen[i] = c
  BY <1>2 DEF ToSet
<1> HIDE DEF all
<1>4. \A i \in 1 .. k : all[i] \in configs
  BY <1>2, <1>3
<1>5. ASSUME NEW c \in configs PROVE \E i \in 1 .. k : all[i] = c
  <2>1. CASE c = baseline
    BY <1>2, <2>1
  <2>2. CASE c # baseline
    <3>1. PICK i \in 1 .. Len(chosen) : chosen[i] = c
      BY <1>3, <2>2
    <3>2. i + 1 \in 2 .. k /\ (i + 1) - 1 = i /\ i + 1 \in 1 .. k
      BY <1>2
    <3> HIDE DEF k
    <3>3. all[i + 1] = c
      BY <1>2, <3>1, <3>2
    <3> QED
      BY <3>2, <3>3
  <2> QED
    BY <2>1, <2>2
<1>6. ASSUME NEW i \in 1 .. k, NEW j \in 1 .. k, all[i] = all[j] PROVE i = j
  <2>1. \A x \in 2 .. k : x - 1 \in 1 .. Len(chosen) /\ all[x] = chosen[x - 1] /\ all[x] # baseline
    BY <1>1, <1>2, <1>3
  <2>2. i \in 2 .. k <=> j \in 2 .. k
    BY <1>2, <1>6, <2>1
  <2>3. CASE i \in 2 .. k
    <3>1. chosen[i - 1] = chosen[j - 1]
      BY <1>6, <2>1, <2>2, <2>3
    <3>2. i - 1 = j - 1
      BY <1>1, <2>1, <2>2, <2>3, <3>1
    <3> QED
      BY <1>2, <3>2
  <2>4. CASE i \notin 2 .. k
    BY <1>2, <2>2, <2>4
  <2> QED
    BY <2>3, <2>4
<1> HIDE DEF configs, k
<1>7. /\ DOMAIN trials = 1 .. k
      /\ \A i \in 1 .. k : trials[i] = [block |-> 1, config |-> all[i]]
  OBVIOUS
<1> HIDE DEF trials
<1>8. EachOnce(trials, {1}, configs)
  <2>1. k \in Nat
    BY <1>2 DEF k
  <2>2. \A i \in 1 .. k : trials[i].config = all[i]
    BY <1>7
  <2> QED
    BY <1>4, <1>5, <1>6, <1>7, <2>1, <2>2 DEF EachOnce
<1> QED
  BY <1>8 DEF trials, configs, k, all

-----------------------------------------------------------------------------
(* The thresholds, and DecisionSupported of a directory.                   *)

\* Floor division reaches a bound when the dividend does.
LEMMA FloorReaches ==
  ASSUME NEW x \in Int, NEW d \in Nat \ {0}, NEW k \in Int
  PROVE  x \div d >= k <=> x >= k * d
<1> DEFINE q == x \div d
           r == x % d
<1>1. q \in Int /\ r \in 0 .. d - 1 /\ x = d * q + r
  BY DivMod
<1> HIDE DEF q, r
<1>2. d * k = k * d /\ d * k \in Int /\ d * q \in Int /\ d * (q + 1) = d * q + d
  BY <1>1
<1>3. ASSUME q >= k PROVE x >= k * d
  <2>1. d * k <= d * q
    BY <1>1, <1>3, TimesMonotone
  <2> QED
    BY <1>1, <1>2, <2>1
<1>4. ASSUME ~(q >= k) PROVE ~(x >= k * d)
  <2>1. q + 1 <= k /\ q + 1 \in Int
    BY <1>1, <1>4
  <2>2. d * (q + 1) <= d * k
    BY <2>1, TimesMonotone
  <2> QED
    BY <1>1, <1>2, <2>2
<1> QED
  BY <1>3, <1>4 DEF q

\* A pair of records reaches the thresholds when the script says so.
LEMMA Reaches ==
  ASSUME NEW base \in Outcomes, NEW cand \in Outcomes, base[1] > 0
  PROVE  /\ base[1] \in Nat /\ cand[1] \in Nat /\ base[2] \in Int /\ cand[2] \in Int
         /\ Improvement(base, cand) >= MinGain
              <=> (base[1] - cand[1]) * Scale >= MinGain * base[1]
<1>1. /\ base[1] \in Nat /\ cand[1] \in Nat /\ base[2] \in Int /\ cand[2] \in Int
      /\ Scale \in Nat /\ MinGain \in Int
  BY CampaignAssumption
<1> DEFINE x == (base[1] - cand[1]) * Scale
           d == base[1]
<1>2. x \in Int /\ d \in Nat \ {0}
  BY <1>1
<1>3. Improvement(base, cand) = x \div d
  BY DEF Improvement
<1> HIDE DEF x, d
<1>4. x \div d >= MinGain <=> x >= MinGain * d
  BY <1>1, <1>2, FloorReaches
<1> QED
  BY <1>1, <1>3, <1>4 DEF x, d

\* What a schedule, its records and a decision owe each other: DecisionSupported
\* of a directory in a mode.
OfIn(schedule, c) == {i \in DOMAIN schedule.trials : schedule.trials[i].config = c}
PairsIn(schedule, c) ==
  {pair \in OfIn(schedule, schedule.baseline) \X OfIn(schedule, c) :
     schedule.trials[pair[1]].block = schedule.trials[pair[2]].block}

ProvenIn(schedule, results, c) ==
  /\ PairsIn(schedule, c) # {}
  /\ \A pair \in PairsIn(schedule, c) : Better(results[pair[1]], results[pair[2]])
  /\ \A pair \in PairsIn(schedule, c) : Steadier(results[pair[1]], results[pair[2]])

TriedIn(schedule) ==
  {schedule.trials[i].config : i \in DOMAIN schedule.trials} \ {schedule.baseline}

Supported(schedule, results, decision, m) ==
  decision # NoDecision =>
    /\ Len(results) = Len(schedule.trials)
    /\ decision.action = "apply_candidate" =>
         LET c == decision.config
         IN /\ c # schedule.baseline
            /\ \E pair \in PairsIn(schedule, c) : Better(results[pair[1]], results[pair[2]])
            /\ \E pair \in PairsIn(schedule, c) : Steadier(results[pair[1]], results[pair[2]])
            /\ \A pair \in PairsIn(schedule, c) : /\ results[pair[1]] # Failed
                                                  /\ results[pair[2]] # Failed
            /\ m = "closed" =>
                 /\ ProvenIn(schedule, results, c)
                 /\ \A other \in TriedIn(schedule) : ProvenIn(schedule, results, other) =>
                      ~\E p \in PairsIn(schedule, other), q \in PairsIn(schedule, c) :
                          results[p[2]][1] < results[q[2]][1]
    /\ decision.action = "restore_baseline" =>
         \A c \in TriedIn(schedule) : ~ProvenIn(schedule, results, c)

LEMMA SupportedIs ==
  DecisionSupported
    <=> (files.exists => Supported(files.schedule, files.results, files.decision, mode))
<1>1. \A c : Pairs(c) = PairsIn(files.schedule, c)
  BY DEF Pairs, TrialsOf, Trials, Baseline, PairsIn, OfIn
<1>2. Tried = TriedIn(files.schedule)
  BY DEF Tried, Trials, Baseline, TriedIn
<1> QED
  BY <1>1, <1>2 DEF DecisionSupported, Supported, ProvenIn, Holds, Trials, Baseline

LEMMA SupportedNext ==
  DecisionSupported'
    <=> (files'.exists => Supported(files'.schedule, files'.results, files'.decision, mode'))
<1>1. \A c : Pairs(c)' = PairsIn(files'.schedule, c)
  BY DEF Pairs, TrialsOf, Trials, Baseline, PairsIn, OfIn
<1>2. Tried' = TriedIn(files'.schedule)
  BY DEF Tried, Trials, Baseline, TriedIn
<1> QED
  BY <1>1, <1>2 DEF DecisionSupported, Supported, ProvenIn, Holds, Trials, Baseline

-----------------------------------------------------------------------------
(* The pairs of records, by block.                                         *)

\* A schedule of the mode: each configuration once in each block, and the
\* baseline of a closed loop first.
Blocks(m) == IF m = "closed" THEN {1} ELSE Block

Laid(schedule, m) ==
  /\ \E configs : schedule.baseline \in configs /\ EachOnce(schedule.trials, Blocks(m), configs)
  /\ m = "closed" => schedule.trials[1] = [block |-> 1, config |-> schedule.baseline]

\* Where the trial of a configuration in a block is.
At(config, block) ==
  CHOOSE k \in DOMAIN Trials : Trials[k] = [block |-> block, config |-> config]

LEMMA RecordAt == \A config, block : RecordOf(config, block) = files.results[At(config, block)]
  BY DEF RecordOf, At

\* A state in which a campaign may decide.
Due ==
  /\ Whole /\ Laid(files.schedule, mode) /\ Len(files.results) = Len(Trials)
  /\ mode = "closed" => files.results[1] # Failed

\* The pairs of a configuration are its records and the baseline's, by block.
LEMMA PairsByBlock ==
  ASSUME Due, NEW c \in Tried \cup {Baseline}
  PROVE  /\ \A pair \in PairsIn(files.schedule, c) : \E b \in Blocks(mode) :
               /\ files.results[pair[1]] = BaselineOf(b)
               /\ files.results[pair[2]] = RecordOf(c, b)
         /\ \A b \in Blocks(mode) : \E pair \in PairsIn(files.schedule, c) :
               /\ files.results[pair[1]] = BaselineOf(b)
               /\ files.results[pair[2]] = RecordOf(c, b)
         /\ \A b \in Blocks(mode) : RecordOf(c, b) \in Outcomes \cup {Failed}
<1>1. PICK configs : Baseline \in configs /\ EachOnce(Trials, Blocks(mode), configs)
  BY DEF Due, Laid, Baseline, Trials
<1>2. c \in configs
  <2>1. \A i \in DOMAIN Trials : Trials[i].config \in configs
    BY <1>1 DEF EachOnce
  <2> QED
    BY <1>1, <2>1 DEF Tried
<1>3. ASSUME NEW b \in Blocks(mode), NEW x \in configs
      PROVE  /\ At(x, b) \in DOMAIN Trials
             /\ Trials[At(x, b)] = [block |-> b, config |-> x]
             /\ \A k \in DOMAIN Trials : Trials[k] = [block |-> b, config |-> x] => k = At(x, b)
  <2>1. \E k \in DOMAIN Trials : Trials[k] = [block |-> b, config |-> x]
    BY <1>1 DEF EachOnce
  <2>2. At(x, b) \in DOMAIN Trials /\ Trials[At(x, b)] = [block |-> b, config |-> x]
    BY <2>1 DEF At
  <2> QED
    BY <1>1, <2>2 DEF EachOnce
<1>4. /\ \A pair \in PairsIn(files.schedule, c) :
            /\ pair[1] \in DOMAIN Trials /\ pair[2] \in DOMAIN Trials
            /\ Trials[pair[1]].config = Baseline /\ Trials[pair[2]].config = c
            /\ Trials[pair[1]].block = Trials[pair[2]].block
      /\ \A i, j \in DOMAIN Trials :
            /\ Trials[i].config = Baseline /\ Trials[j].config = c
            /\ Trials[i].block = Trials[j].block
            => <<i, j>> \in PairsIn(files.schedule, c)
  <2> DEFINE X == OfIn(files.schedule, Baseline)
             Y == OfIn(files.schedule, c)
  <2>1. \A i : /\ i \in X <=> i \in DOMAIN Trials /\ Trials[i].config = Baseline
               /\ i \in Y <=> i \in DOMAIN Trials /\ Trials[i].config = c
    BY DEF OfIn, Trials
  <2>2. PairsIn(files.schedule, c) =
          {pair \in X \X Y : Trials[pair[1]].block = Trials[pair[2]].block}
    BY DEF PairsIn, Trials, Baseline
  <2> HIDE DEF X, Y
  <2>3. \A pair \in X \X Y : pair[1] \in X /\ pair[2] \in Y
    OBVIOUS
  <2> QED
    BY <2>1, <2>2, <2>3
<1>5. ASSUME NEW pair \in PairsIn(files.schedule, c)
      PROVE  \E b \in Blocks(mode) : /\ files.results[pair[1]] = BaselineOf(b)
                                     /\ files.results[pair[2]] = RecordOf(c, b)
  <2>1. /\ pair[1] \in DOMAIN Trials /\ pair[2] \in DOMAIN Trials
        /\ Trials[pair[1]].config = Baseline /\ Trials[pair[2]].config = c
        /\ Trials[pair[1]].block = Trials[pair[2]].block
    BY <1>4
  <2>2. /\ Trials[pair[1]] \in [block : Blocks(mode), config : configs]
        /\ Trials[pair[2]] \in [block : Blocks(mode), config : configs]
    BY <1>1, <2>1 DEF EachOnce
  <2>3. PICK b \in Blocks(mode) : b = Trials[pair[1]].block
    BY <2>2
  <2>4. /\ Trials[pair[1]] = [block |-> b, config |-> Baseline]
        /\ Trials[pair[2]] = [block |-> b, config |-> c]
    BY <2>1, <2>2, <2>3
  <2>5. pair[1] = At(Baseline, b) /\ pair[2] = At(c, b)
    BY <1>1, <1>2, <1>3, <2>1, <2>4
  <2> QED
    BY <2>5, RecordAt DEF BaselineOf
<1>6. ASSUME NEW b \in Blocks(mode)
      PROVE  \E pair \in PairsIn(files.schedule, c) :
                /\ files.results[pair[1]] = BaselineOf(b)
                /\ files.results[pair[2]] = RecordOf(c, b)
  <2> DEFINE pair == <<At(Baseline, b), At(c, b)>>
  <2>1. /\ At(Baseline, b) \in DOMAIN Trials /\ At(c, b) \in DOMAIN Trials
        /\ Trials[At(Baseline, b)] = [block |-> b, config |-> Baseline]
        /\ Trials[At(c, b)] = [block |-> b, config |-> c]
    BY <1>1, <1>2, <1>3
  <2>2. pair \in PairsIn(files.schedule, c)
    BY <1>4, <2>1
  <2>3. files.results[pair[1]] = BaselineOf(b) /\ files.results[pair[2]] = RecordOf(c, b)
    BY RecordAt DEF BaselineOf
  <2> QED
    BY <2>2, <2>3
<1>7. ASSUME NEW b \in Blocks(mode) PROVE RecordOf(c, b) \in Outcomes \cup {Failed}
  <2>1. PICK k \in Nat : DOMAIN Trials = 1 .. k
    BY <1>1 DEF EachOnce
  <2>2. At(c, b) \in 1 .. k
    BY <1>2, <1>3, <2>1
  <2>3. Len(Trials) = k /\ DOMAIN files.results = 1 .. Len(files.results)
    BY <2>1 DEF Due, Whole
  <2>4. files.results[At(c, b)] \in Outcomes \cup {Failed}
    BY <2>2, <2>3 DEF Due, Whole
  <2> QED
    BY <2>4, RecordAt
<1> QED
  BY <1>5, <1>6, <1>7

\* The baseline of a closed loop has its record.
LEMMA ClosedBaseline ==
  ASSUME Due, mode = "closed"
  PROVE  BaselineOf(1) \in Outcomes
<1>1. PICK configs : Baseline \in configs /\ EachOnce(Trials, {1}, configs)
  BY DEF Due, Laid, Baseline, Trials, Blocks
<1>2. Trials[1] = [block |-> 1, config |-> Baseline]
  BY DEF Due, Laid, Baseline, Trials
<1>3. 1 \in DOMAIN Trials
  <2>1. PICK k \in Nat : DOMAIN Trials = 1 .. k
    BY <1>1 DEF EachOnce
  <2>2. DOMAIN Trials # {}
    BY <1>1 DEF EachOnce
  <2> QED
    BY <2>1, <2>2
<1>4. At(Baseline, 1) = 1
  <2>1. /\ At(Baseline, 1) \in DOMAIN Trials
        /\ Trials[At(Baseline, 1)] = [block |-> 1, config |-> Baseline]
    BY <1>2, <1>3 DEF At
  <2> QED
    BY <1>1, <1>2, <1>3, <2>1 DEF EachOnce
<1>5. BaselineOf(1) # Failed
  BY <1>4, RecordAt DEF BaselineOf, Due
<1>6. BaselineOf(1) \in Outcomes \cup {Failed}
  BY PairsByBlock DEF BaselineOf, Blocks
<1> QED
  BY <1>5, <1>6

-----------------------------------------------------------------------------
(* What the two scripts select is supported.                               *)

LEMMA OutcomeNotFailed == \A o \in Outcomes : o # Failed
<1>1. \A o \in Nat \X (0 .. Scale) : Len(o) = 2 /\ Len(Failed) = 0
  BY DEF Failed
<1> QED
  BY <1>1, CampaignAssumption

\* In a closed loop, accepted and proven are the same.
LEMMA AcceptedIsProven ==
  ASSUME Due, mode = "closed", NEW c \in Tried
  PROVE  /\ Accepted(c) <=> ProvenIn(files.schedule, files.results, c)
         /\ Accepted(c) => RecordOf(c, 1) \in Outcomes
<1> DEFINE base == BaselineOf(1)
           cand == RecordOf(c, 1)
           pairs == PairsIn(files.schedule, c)
           one(pair) == files.results[pair[1]] = base /\ files.results[pair[2]] = cand
<1>1. /\ \A pair \in pairs : one(pair)
      /\ \E pair \in pairs : one(pair)
      /\ cand \in Outcomes \cup {Failed}
  BY PairsByBlock DEF Blocks
<1>2. base \in Outcomes /\ base # Failed
  BY ClosedBaseline, OutcomeNotFailed
<1>3. Accepted(c) <=> /\ cand # Failed /\ base[1] > 0 /\ cand[1] > 0
                      /\ cand[2] - base[2] >= MinDelta
                      /\ Improvement(base, cand) >= MinGain
  BY DEF Accepted, Measured, RateDelta
<1>4. ProvenIn(files.schedule, files.results, c) <=> Better(base, cand) /\ Steadier(base, cand)
  <2> HIDE DEF base, cand, pairs
  <2>1. ProvenIn(files.schedule, files.results, c) <=>
           /\ pairs # {}
           /\ \A pair \in pairs : Better(files.results[pair[1]], files.results[pair[2]])
           /\ \A pair \in pairs : Steadier(files.results[pair[1]], files.results[pair[2]])
    BY DEF ProvenIn, pairs
  <2>2. \A pair \in pairs :
           /\ Better(files.results[pair[1]], files.results[pair[2]]) <=> Better(base, cand)
           /\ Steadier(files.results[pair[1]], files.results[pair[2]]) <=> Steadier(base, cand)
    BY <1>1
  <2> QED
    BY <1>1, <2>1, <2>2
<1> HIDE DEF base, cand, pairs, one
<1>5. Accepted(c) <=> Better(base, cand) /\ Steadier(base, cand)
  <2>1. CASE cand = Failed
    BY <1>3, <2>1 DEF Better
  <2>2. CASE cand # Failed
    <3>1. cand \in Outcomes
      BY <1>1, <2>2
    <3>2. base[1] > 0 =>
            (Improvement(base, cand) >= MinGain
               <=> (base[1] - cand[1]) * Scale >= MinGain * base[1])
      BY <1>2, <3>1, Reaches
    <3> QED
      BY <1>2, <1>3, <2>2, <3>2 DEF Better, Steadier
  <2> QED
    BY <2>1, <2>2
<1>6. Accepted(c) => cand \in Outcomes
  BY <1>1, <1>3
<1> QED
  BY <1>4, <1>5, <1>6 DEF cand

LEMMA ClosedSupported ==
  ASSUME Due, mode = "closed"
  PROVE  /\ (\A c \in Tried : ~Accepted(c))
              => Supported(files.schedule, files.results, Restore, mode)
         /\ \A c \in Tried :
              /\ Accepted(c)
              /\ \A d \in Tried : Accepted(d) => RecordOf(c, 1)[1] <= RecordOf(d, 1)[1]
              => Supported(files.schedule, files.results, Apply(c), mode)
<1>1. /\ Len(files.results) = Len(files.schedule.trials)
      /\ TriedIn(files.schedule) = Tried
  BY DEF Due, Trials, Tried, TriedIn, Baseline
<1>2. ASSUME \A c \in Tried : ~Accepted(c)
      PROVE  Supported(files.schedule, files.results, Restore, mode)
  <2>1. Restore.action = "restore_baseline"
    BY DEF Restore
  <2>2. \A c \in Tried : ~ProvenIn(files.schedule, files.results, c)
    BY <1>2, AcceptedIsProven
  <2> QED
    BY <1>1, <2>1, <2>2 DEF Supported
<1>3. ASSUME NEW c \in Tried, Accepted(c),
             \A d \in Tried : Accepted(d) => RecordOf(c, 1)[1] <= RecordOf(d, 1)[1]
      PROVE  Supported(files.schedule, files.results, Apply(c), mode)
  <2> DEFINE r == files.results
             pairs(d) == PairsIn(files.schedule, d)
  <2>1. Apply(c).action = "apply_candidate" /\ Apply(c).config = c
    BY DEF Apply
  <2>2. c # files.schedule.baseline
    BY DEF Tried, Baseline
  <2>3. ProvenIn(files.schedule, r, c)
    BY <1>3, AcceptedIsProven
  <2>4. /\ \A pair \in pairs(c) : Better(r[pair[1]], r[pair[2]])
        /\ \A pair \in pairs(c) : Steadier(r[pair[1]], r[pair[2]])
        /\ pairs(c) # {}
    BY <2>3 DEF ProvenIn
  <2>5. /\ \E pair \in pairs(c) : Better(r[pair[1]], r[pair[2]])
        /\ \E pair \in pairs(c) : Steadier(r[pair[1]], r[pair[2]])
    BY <2>4
  <2>6. \A pair \in pairs(c) : r[pair[1]] # Failed /\ r[pair[2]] # Failed
    BY <2>4 DEF Better
  <2>7. ASSUME NEW d \in Tried, ProvenIn(files.schedule, r, d),
               NEW p \in pairs(d), NEW q \in pairs(c)
        PROVE  ~(r[p[2]][1] < r[q[2]][1])
    <3>1. Accepted(d)
      BY <2>7, AcceptedIsProven
    <3>2. r[p[2]] = RecordOf(d, 1) /\ r[q[2]] = RecordOf(c, 1)
      BY PairsByBlock DEF Blocks
    <3>3. RecordOf(c, 1)[1] <= RecordOf(d, 1)[1]
      BY <1>3, <3>1
    <3>4. RecordOf(c, 1) \in Outcomes /\ RecordOf(d, 1) \in Outcomes
      BY <1>3, <3>1, AcceptedIsProven
    <3>5. RecordOf(c, 1)[1] \in Nat /\ RecordOf(d, 1)[1] \in Nat
      BY <3>4, CampaignAssumption
    <3> QED
      BY <3>2, <3>3, <3>5
  <2>8. \A d \in Tried : ProvenIn(files.schedule, r, d) =>
           ~\E p \in pairs(d), q \in pairs(c) : r[p[2]][1] < r[q[2]][1]
    BY <2>7
  <2> HIDE DEF r
  <2>9. Supported(files.schedule, r, Apply(c), mode)
    BY <1>1, <2>1, <2>2, <2>3, <2>5, <2>6, <2>8 DEF Supported, r
  <2> QED
    BY <2>9 DEF r
<1> QED
  BY <1>2, <1>3

\* A pair of a block whose objectives are not zero.
LEMMA BlockReaches ==
  ASSUME Due, mode = "repeated", ~ZeroObjective, NEW c \in Tried, NEW b \in Block,
         BaselineOf(b) # Failed, RecordOf(c, b) # Failed
  PROVE  /\ GainIn(c, b) >= MinGain <=> Better(BaselineOf(b), RecordOf(c, b))
         /\ DeltaIn(c, b) >= MinDelta <=> Steadier(BaselineOf(b), RecordOf(c, b))
<1> DEFINE base == BaselineOf(b)
           cand == RecordOf(c, b)
<1>1. base \in Outcomes /\ cand \in Outcomes
  BY PairsByBlock DEF Blocks, BaselineOf
<1>2. \E i, j \in DOMAIN files.results : files.results[i] = base /\ files.results[j] = cand
  <2>1. PICK pair \in PairsIn(files.schedule, c) :
           files.results[pair[1]] = base /\ files.results[pair[2]] = cand
    BY PairsByBlock DEF Blocks
  <2>2. pair[1] \in DOMAIN Trials /\ pair[2] \in DOMAIN Trials
    <3>1. \A X, Y : \A p \in X \X Y : p[1] \in X /\ p[2] \in Y
      OBVIOUS
    <3>2. /\ PairsIn(files.schedule, c) \subseteq
               OfIn(files.schedule, Baseline) \X OfIn(files.schedule, c)
          /\ \A x : OfIn(files.schedule, x) \subseteq DOMAIN Trials
      BY DEF PairsIn, OfIn, Trials, Baseline
    <3>3. pair \in OfIn(files.schedule, Baseline) \X OfIn(files.schedule, c)
      BY <3>2
    <3>4. pair[1] \in OfIn(files.schedule, Baseline) /\ pair[2] \in OfIn(files.schedule, c)
      BY <3>1, <3>3
    <3> QED
      BY <3>2, <3>4
  <2>3. DOMAIN Trials = DOMAIN files.results
    <3>1. PICK k \in Nat : DOMAIN Trials = 1 .. k
      BY DEF Due, Laid, EachOnce, Trials
    <3>2. Len(Trials) = k
      BY <3>1
    <3> QED
      BY <3>1, <3>2 DEF Due, Whole
  <2> QED
    BY <2>1, <2>2, <2>3
<1> HIDE DEF base, cand
<1>3. base # Failed /\ cand # Failed
  BY DEF base, cand
<1>4. base[1] # 0 /\ cand[1] # 0
  BY <1>2, <1>3 DEF ZeroObjective
<1>5. /\ base[1] \in Nat /\ cand[1] \in Nat
      /\ base[2] \in Int /\ cand[2] \in Int
  BY <1>1, CampaignAssumption
<1>6. base[1] > 0 /\ cand[1] > 0
  BY <1>4, <1>5
<1>7. Improvement(base, cand) >= MinGain <=> Better(base, cand)
  BY <1>1, <1>3, <1>6, Reaches DEF Better
<1>8. cand[2] - base[2] >= MinDelta <=> Steadier(base, cand)
  BY <1>3 DEF Steadier
<1> QED
  BY <1>7, <1>8 DEF GainIn, DeltaIn, RateDelta, base, cand

LEMMA RepeatedSupported ==
  ASSUME Due, mode = "repeated", ~ZeroObjective
  PROVE  /\ (\A c \in Tried : Complete(c) => ~MustReach(c))
              => Supported(files.schedule, files.results, Restore, mode)
         /\ \A c \in Tried :
              Complete(c) /\ MayReach(c)
              => Supported(files.schedule, files.results, Apply(c), mode)
<1>1. /\ Len(files.results) = Len(files.schedule.trials)
      /\ TriedIn(files.schedule) = Tried
  BY DEF Due, Trials, Tried, TriedIn, Baseline
<1>2. Blocks(mode) = Block
  BY DEF Blocks
<1>3. ASSUME \A c \in Tried : Complete(c) => ~MustReach(c)
      PROVE  Supported(files.schedule, files.results, Restore, mode)
  <2>1. ASSUME NEW c \in Tried, ProvenIn(files.schedule, files.results, c) PROVE FALSE
    <3>1. \A b \in Block : Better(BaselineOf(b), RecordOf(c, b))
                           /\ Steadier(BaselineOf(b), RecordOf(c, b))
      BY <1>2, <2>1, PairsByBlock DEF ProvenIn
    <3>2. \A b \in Block : BaselineOf(b) # Failed /\ RecordOf(c, b) # Failed
      BY <3>1 DEF Better
    <3>3. MustReach(c)
      BY <3>1, <3>2, BlockReaches DEF MustReach
    <3>4. Complete(c)
      BY <3>2 DEF Complete
    <3> QED
      BY <1>3, <3>3, <3>4
  <2>2. Restore.action = "restore_baseline"
    BY DEF Restore
  <2> QED
    BY <1>1, <2>1, <2>2 DEF Supported
<1>4. ASSUME NEW c \in Tried, Complete(c), MayReach(c)
      PROVE  Supported(files.schedule, files.results, Apply(c), mode)
  <2> DEFINE r == files.results
             pairs == PairsIn(files.schedule, c)
  <2>1. Apply(c).action = "apply_candidate" /\ Apply(c).config = c
    BY DEF Apply
  <2>2. c # files.schedule.baseline
    BY DEF Tried, Baseline
  <2>3. \A b \in Block : BaselineOf(b) # Failed /\ RecordOf(c, b) # Failed
    BY <1>4 DEF Complete
  <2>4. /\ \E b \in Block : Better(BaselineOf(b), RecordOf(c, b))
        /\ \E b \in Block : Steadier(BaselineOf(b), RecordOf(c, b))
    BY <1>4, <2>3, BlockReaches DEF MayReach
  <2>5. /\ \E pair \in pairs : Better(r[pair[1]], r[pair[2]])
        /\ \E pair \in pairs : Steadier(r[pair[1]], r[pair[2]])
    <3>1. \A b \in Block : \E pair \in pairs :
             r[pair[1]] = BaselineOf(b) /\ r[pair[2]] = RecordOf(c, b)
      BY <1>2, PairsByBlock
    <3> HIDE DEF r, pairs
    <3> QED
      BY <2>4, <3>1
  <2>6. \A pair \in pairs : r[pair[1]] # Failed /\ r[pair[2]] # Failed
    BY <1>2, <2>3, PairsByBlock
  <2>7. mode # "closed"
    OBVIOUS
  <2> QED
    BY <1>1, <2>1, <2>2, <2>5, <2>6, <2>7 DEF Supported
<1> QED
  BY <1>3, <1>4

-----------------------------------------------------------------------------
(* The decision of every campaign.                                         *)

\* The schedule a campaign wrote is one of its mode, and a closed loop whose
\* baseline failed has ended.
Scheduled ==
  /\ stage \in {"gate", "schedule"} => files.results = <<>>
  /\ files.exists /\ files.manifest # {} => Laid(files.schedule, mode)
  /\ stage = "trials" => /\ files.manifest # {}
                         /\ mode = "closed" /\ files.results # <<>> => files.results[1] # Failed

DecisionInv == Scheduled /\ DecisionSupported

\* Neither a candidate nor the baseline is in a closed loop's schedule twice.
LEMMA ScheduleLaid ==
  ASSUME NEW baseline \in Baselines, NEW plan \in Plans, Schedule(plan, baseline), Whole
  PROVE  /\ Laid(files'.schedule, mode')
         /\ files'.manifest # {} /\ files'.results = files.results
<1> DEFINE chosen == Candidates(plan, baseline)
           configs == {baseline} \cup ToSet(chosen)
           once == [i \in 1 .. Len(chosen) + 1 |->
                      [block |-> 1, config |-> (<<baseline>> \o chosen)[i]]]
<1>1. PICK order \in Orders(configs) :
        files' = [files EXCEPT !.manifest = {head},
                               !.schedule = [baseline |-> baseline,
                                             trials |-> IF mode = "closed" THEN once
                                                        ELSE RepeatedTrials(order)]]
  BY DEF Schedule
<1>2. mode' = mode
  BY DEF Schedule
<1>3. baseline \in Values
  BY CampaignAssumption
<1>4. chosen \in Lists(baseline)
  <2>1. PICK budget \in Budgets : plan \in [1 .. budget -> [value : Values, applicable : BOOLEAN]]
    BY DEF Plans
  <2>2. budget \in Nat
    BY CampaignAssumption
  <2>3. DOMAIN plan = 1 .. budget /\ \A i \in 1 .. budget : plan[i].value \in Values
    BY <2>1
  <2> QED
    BY <2>2, <2>3, CandidatesDistinct
<1> HIDE DEF chosen
<1>5. IsFiniteSet(configs)
  <2>1. chosen \in Seq(Values) /\ Len(chosen) \in Nat /\ DOMAIN chosen = 1 .. Len(chosen)
    BY <1>4 DEF Lists
  <2>2. ToSet(chosen) = {chosen[i] : i \in 1 .. Len(chosen)}
    BY <2>1 DEF ToSet
  <2>3. IsFiniteSet(ToSet(chosen))
    BY <2>1, <2>2, RangeFinite
  <2>4. IsFiniteSet({baseline})
    BY FS_Singleton
  <2> QED
    BY <2>3, <2>4, FS_Union
<1>6. EachOnce(once, {1}, configs)
  BY <1>3, <1>4, ClosedOnce
<1>7. once[1] = [block |-> 1, config |-> baseline]
  <2>1. chosen \in Seq(Values) /\ Len(chosen) \in Nat
    BY <1>4 DEF Lists
  <2>2. (<<baseline>> \o chosen)[1] = baseline
    BY <1>3, <2>1
  <2>3. 1 \in 1 .. Len(chosen) + 1
    BY <2>1
  <2> QED
    BY <2>2, <2>3
<1>8. EachOnce(RepeatedTrials(order), Block, configs)
  BY <1>5, RepeatedOnce
<1>9. baseline \in configs
  OBVIOUS
<1> HIDE DEF once, configs
<1> DEFINE schedule == [baseline |-> baseline,
                        trials |-> IF mode = "closed" THEN once ELSE RepeatedTrials(order)]
<1>10. files'.schedule = schedule /\ files'.manifest = {head} /\ files'.results = files.results
  BY <1>1 DEF Whole, Parts
<1>11. schedule.baseline = baseline
       /\ schedule.trials = IF mode = "closed" THEN once ELSE RepeatedTrials(order)
  OBVIOUS
<1> HIDE DEF schedule
<1>12. Laid(schedule, mode)
  BY <1>6, <1>7, <1>8, <1>9, <1>11 DEF Laid, Blocks
<1> QED
  BY <1>2, <1>10, <1>12

LEMMA DueToDecide ==
  ASSUME CampaignInv, Scheduled, NEW m, Deciding(m)
  PROVE  Due /\ mode = m
<1>1. stage = "trials" /\ Finished /\ mode = m
  BY DEF Deciding
<1>2. Whole /\ files.manifest # {} /\ Laid(files.schedule, mode)
  BY <1>1 DEF CampaignInv, Unwritten, Busy, Whole, Scheduled
<1>3. Len(files.results) = Len(Trials)
  BY <1>1 DEF Finished
<1>4. files.results # <<>>
  <2>1. PICK configs : Baseline \in configs /\ EachOnce(Trials, Blocks(mode), configs)
    BY <1>2 DEF Laid, Baseline, Trials
  <2>2. \E b : b \in Blocks(mode)
    <3>1. 1 \in Block
      BY CampaignAssumption DEF Block
    <3> QED
      BY <3>1 DEF Blocks
  <2>3. DOMAIN Trials # {}
    BY <2>1, <2>2 DEF EachOnce
  <2>4. PICK k \in Nat : DOMAIN Trials = 1 .. k
    BY <2>1 DEF EachOnce
  <2>5. Len(Trials) = k /\ k # 0
    BY <2>3, <2>4
  <2> QED
    BY <1>3, <2>5
<1> QED
  BY <1>1, <1>2, <1>3, <1>4 DEF Due, Scheduled

LEMMA DecideClosedSupported ==
  ASSUME CampaignInv, Scheduled, DecideClosed
  PROVE  \E d : Decides(d) /\ Supported(files.schedule, files.results, d, mode)
<1>1. Due /\ mode = "closed"
  BY DueToDecide DEF DecideClosed
<1>2. CASE \A c \in Tried : ~Accepted(c)
  <2>1. Decides(Restore)
    BY <1>2 DEF DecideClosed
  <2> QED
    BY <1>1, <1>2, <2>1, ClosedSupported
<1>3. CASE ~\A c \in Tried : ~Accepted(c)
  <2>1. PICK c \in Tried :
          /\ Accepted(c) /\ Decides(Apply(c))
          /\ \A d \in Tried : Accepted(d) => RecordOf(c, 1)[1] <= RecordOf(d, 1)[1]
    BY <1>3 DEF DecideClosed
  <2> QED
    BY <1>1, <2>1, ClosedSupported
<1> QED
  BY <1>2, <1>3

LEMMA DecideRepeatedSupported ==
  ASSUME CampaignInv, Scheduled, DecideRepeated
  PROVE  \E d : Decides(d) /\ Supported(files.schedule, files.results, d, mode)
<1>1. Due /\ mode = "repeated" /\ ~ZeroObjective
  BY DueToDecide DEF DecideRepeated
<1>2. PICK accepted \in SUBSET {c \in Tried : Complete(c)} :
         /\ \A c \in accepted : MayReach(c)
         /\ \A c \in {c \in Tried : Complete(c)} \ accepted : ~MustReach(c)
         /\ IF accepted = {} THEN Decides(Restore)
            ELSE \E c \in accepted :
                   /\ \A d \in accepted :
                         \E b, other \in Block : GainIn(c, b) >= GainIn(d, other)
                   /\ Decides(Apply(c))
  BY DEF DecideRepeated
<1>3. CASE accepted = {}
  <2>1. \A c \in Tried : Complete(c) => ~MustReach(c)
    BY <1>2, <1>3
  <2> QED
    BY <1>1, <1>2, <1>3, <2>1, RepeatedSupported
<1>4. CASE accepted # {}
  <2>1. PICK c \in accepted : Decides(Apply(c))
    BY <1>2, <1>4
  <2>2. c \in Tried /\ Complete(c) /\ MayReach(c)
    BY <1>2, <2>1
  <2> QED
    BY <1>1, <2>1, <2>2, RepeatedSupported
<1> QED
  BY <1>3, <1>4

LEMMA StepDecision == CampaignInv /\ DecisionInv /\ Step => DecisionInv'
<1> SUFFICES ASSUME CampaignInv, DecisionInv, Step PROVE DecisionInv'
  OBVIOUS
<1>a. /\ stage \in {"gate", "schedule"} => files.results = <<>>
      /\ files.exists /\ files.manifest # {} => Laid(files.schedule, mode)
      /\ stage = "trials" =>
           /\ files.manifest # {}
           /\ mode = "closed" /\ files.results # <<>> => files.results[1] # Failed
      /\ files.exists => Supported(files.schedule, files.results, files.decision, mode)
  BY SupportedIs DEF DecisionInv, Scheduled
<1>b. stage \in Busy => Whole /\ files.decision = NoDecision
  BY DEF CampaignInv, Unwritten
<1>c. ASSUME /\ stage' \in {"gate", "schedule"} => files'.results = <<>>
             /\ files'.exists /\ files'.manifest # {} => Laid(files'.schedule, mode')
             /\ stage' = "trials" =>
                  /\ files'.manifest # {}
                  /\ mode' = "closed" /\ files'.results # <<>> => files'.results[1] # Failed
             /\ files'.exists =>
                  Supported(files'.schedule, files'.results, files'.decision, mode')
      PROVE  DecisionInv'
  BY <1>c, SupportedNext DEF DecisionInv, Scheduled
<1>d. ASSUME NEW schedule, NEW results, NEW m PROVE Supported(schedule, results, NoDecision, m)
  BY DEF Supported
<1>1. ASSUME NEW kind \in Kinds, Invoke(kind[1], kind[2]) PROVE DecisionInv'
  <2>1. files' = EmptyDir /\ stage' = "gate"
    BY <1>1 DEF Invoke
  <2>2. EmptyDir.manifest = {} /\ EmptyDir.results = <<>> /\ EmptyDir.decision = NoDecision
    BY DEF EmptyDir
  <2> QED
    BY <1>c, <1>d, <2>1, <2>2
<1>2. ASSUME NEW minimum \in Thresholds, Gate(minimum) PROVE DecisionInv'
  <2>1. /\ stage = "gate" /\ stage' \in {"schedule", "ended"}
        /\ files' = [files EXCEPT !.gate = GateReason(minimum)]
    BY <1>2 DEF Gate
  <2>2. Whole /\ files.decision = NoDecision /\ files.manifest = {}
    BY <2>1 DEF CampaignInv, Unwritten, Busy
  <2>3. files'.manifest = {} /\ files'.decision = NoDecision /\ files'.results = files.results
    BY <2>1, <2>2, Writes
  <2> QED
    BY <1>a, <1>c, <1>d, <2>1, <2>3
<1>3. ASSUME UNCHANGED <<files, mode>>, stage' = stage \/ stage' = "ended" PROVE DecisionInv'
  BY <1>a, <1>c, <1>3
<1>4. ASSUME NEW baseline \in Baselines, NEW plan \in Plans, Schedule(plan, baseline)
      PROVE  DecisionInv'
  <2>1. stage = "schedule"
    BY <1>4 DEF Schedule
  <2>2. Whole /\ files.decision = NoDecision
    BY <1>b, <2>1 DEF Busy
  <2>3. PICK t : files' = [files EXCEPT !.manifest = {head}, !.schedule = t]
    BY <1>4 DEF Schedule
  <2>4. files'.decision = NoDecision
    BY <2>2, <2>3, Writes
  <2>5. /\ Laid(files'.schedule, mode')
        /\ files'.manifest # {} /\ files'.results = files.results
    BY <1>4, <2>2, ScheduleLaid
  <2>6. files.results = <<>> /\ stage' = "trials"
    BY <1>a, <1>4, <2>1 DEF Schedule
  <2> QED
    BY <1>c, <1>d, <2>4, <2>5, <2>6
<1>5. ASSUME NEW outcome \in Outcomes \cup {Failed}, Trial(outcome) PROVE DecisionInv'
  <2>1. PICK t : files' = [files EXCEPT !.results = Append(files.results, outcome),
                                        !.measured = t]
    BY <1>5 DEF Trial
  <2>2. /\ stage = "trials" /\ mode' = mode
        /\ stage' = IF mode = "closed" /\ files.results = <<>> /\ outcome = Failed
                    THEN "ended" ELSE stage
    BY <1>5 DEF Trial
  <2>3. Whole /\ files.decision = NoDecision
    BY <1>b, <2>2 DEF Busy
  <2>4. /\ files'.results = Append(files.results, outcome)
        /\ files'.manifest = files.manifest /\ files'.schedule = files.schedule
        /\ files'.decision = NoDecision
    BY <2>1, <2>3, Writes
  <2>5. /\ files.results = <<>> => files'.results[1] = outcome
        /\ files.results # <<>> => files'.results[1] = files.results[1]
    BY <2>3, <2>4 DEF Whole
  <2>6. stage' = "trials" /\ mode' = "closed" => files'.results[1] # Failed
    BY <1>a, <2>2, <2>5
  <2> QED
    BY <1>a, <1>c, <1>d, <2>2, <2>3, <2>4, <2>6 DEF Whole
<1>6. ASSUME NEW d, Decides(d), stage = "trials",
             Supported(files.schedule, files.results, d, mode)
      PROVE  DecisionInv'
  <2>1. Whole
    BY <1>6, <1>b DEF Busy
  <2>2. files' = [files EXCEPT !.decision = d] /\ stage' = "ended" /\ mode' = mode
    BY <1>6 DEF Decides
  <2>3. /\ files'.results = files.results /\ files'.schedule = files.schedule
        /\ files'.manifest = files.manifest /\ files'.decision = d
    <3>1. files'.decision = d
      BY <2>1, <2>2 DEF Whole, Parts
    <3> QED
      BY <2>1, <2>2, <3>1, Writes
  <2> QED
    BY <1>a, <1>c, <1>6, <2>1, <2>2, <2>3 DEF Whole
<1>7. CASE OverBudget \/ BaselineRejected \/ RecordsRefused \/ Kill
  BY <1>3, <1>7 DEF OverBudget, BaselineRejected, RecordsRefused, Kill
<1>8. CASE DecideClosed
  BY <1>6, <1>8, DecideClosedSupported DEF DecideClosed, Deciding, DecisionInv
<1>9. CASE DecideRepeated
  BY <1>6, <1>9, DecideRepeatedSupported DEF DecideRepeated, Deciding, DecisionInv
<1>10. CASE NewDirectory
  <2>1. files' = NoDir /\ stage' = "ended"
    BY <1>10 DEF NewDirectory
  <2> QED
    BY <1>c, <2>1, NoDirParts
<1>11. CASE MoveHead \/ Deliver \/ UNCHANGED campaign
  BY <1>3, <1>11 DEF MoveHead, Deliver, campaign
<1> QED
  BY <1>1, <1>2, <1>4, <1>5, <1>7, <1>8, <1>9, <1>10, <1>11 DEF Step, CampaignNext

LEMMA InitDecision == CampaignInit => DecisionInv
  BY NoDirParts DEF CampaignInit, DecisionInv, Scheduled, DecisionSupported

\* A configuration is applied only on the records of a whole schedule that
\* show the gain that was asked for, whatever the resampling answers, and the
\* baseline is restored only when no candidate's records all show it.
THEOREM DecisionsSupported == CampaignSpec => []DecisionSupported
<1>1. CampaignInv /\ CampaignInv' /\ DecisionInv /\ Step => DecisionInv'
  BY StepDecision
<1>2. DecisionInv => DecisionSupported
  BY DEF DecisionInv
<1> QED
  BY <1>1, <1>2, InitDecision, Invariance, PTL DEF CampaignSpec, Step

-----------------------------------------------------------------------------
(* What the logger of a capture writes.                                    *)

\* The recursion of FlattenSeq.
Flattens(f, seqs) ==
  f = [i \in 1 .. Len(seqs) |-> IF i = 1 THEN seqs[i] ELSE f[i - 1] \o seqs[i]]

LEMMA OneOfThree ==
  ASSUME NEW k \in 1 .. 3, NEW a, NEW b, NEW c, NEW g,
         g = [i \in 1 .. k |-> IF i = 1 THEN a ELSE IF i = 2 THEN b ELSE c]
  PROVE  /\ g[1] = a
         /\ k >= 2 => g[2] = b
         /\ k >= 3 => g[3] = c
<1>1. 1 \in 1 .. k /\ (k >= 2 => 2 \in 1 .. k) /\ (k >= 3 => 3 \in 1 .. k)
  OBVIOUS
<1> QED
  BY <1>1

LEMMA Concat ==
  ASSUME NEW R, NEW a \in R, NEW b \in R, NEW c \in R
  PROVE  <<a>> \o <<b>> = <<a, b>> /\ (<<a>> \o <<b>>) \o <<c>> = <<a, b, c>>
<1>1. <<a>> \in Seq(R) /\ <<b>> \in Seq(R) /\ <<c>> \in Seq(R) /\ <<a, b>> \in Seq(R)
  OBVIOUS
<1>2. <<a>> \o <<b>> = <<a, b>>
  <2> DEFINE s == <<a>> \o <<b>>
  <2>1. s \in Seq(R) /\ Len(s) = 2 /\ s[1] = a /\ s[2] = b
    BY <1>1
  <2> HIDE DEF s
  <2>2. s = [i \in 1 .. 2 |-> s[i]]
    BY <2>1
  <2>3. s = <<a, b>>
    BY <2>1, <2>2
  <2> QED
    BY <2>3 DEF s
<1>3. <<a, b>> \o <<c>> = <<a, b, c>>
  <2> DEFINE s == <<a, b>> \o <<c>>
  <2>1. s \in Seq(R) /\ Len(s) = 3 /\ s[1] = a /\ s[2] = b /\ s[3] = c
    BY <1>1
  <2> HIDE DEF s
  <2>2. s = [i \in 1 .. 3 |-> s[i]]
    BY <2>1
  <2>3. s = <<a, b, c>>
    BY <2>1, <2>2
  <2> QED
    BY <2>3 DEF s
<1> QED
  BY <1>2, <1>3

LEMMA FlattenFew ==
  ASSUME NEW R, NEW k \in 1 .. 3, NEW seqs \in [1 .. k -> Seq(R)]
  PROVE  FlattenSeq(seqs) = IF k = 1 THEN seqs[1]
                            ELSE IF k = 2 THEN seqs[1] \o seqs[2]
                            ELSE (seqs[1] \o seqs[2]) \o seqs[3]
<1> DEFINE g == [i \in 1 .. k |-> IF i = 1 THEN seqs[1]
                                  ELSE IF i = 2 THEN seqs[1] \o seqs[2]
                                  ELSE (seqs[1] \o seqs[2]) \o seqs[3]]
           f == CHOOSE f : Flattens(f, seqs)
<1>1. seqs \in Seq(Seq(R)) /\ Len(seqs) = k
  OBVIOUS
<1>2. Flattens(g, seqs)
  <2>1. /\ g[1] = seqs[1]
        /\ k >= 2 => g[2] = seqs[1] \o seqs[2]
        /\ k >= 3 => g[3] = (seqs[1] \o seqs[2]) \o seqs[3]
    <3> DEFINE a == seqs[1]
               b == seqs[1] \o seqs[2]
               c == (seqs[1] \o seqs[2]) \o seqs[3]
    <3>1. g = [i \in 1 .. k |-> IF i = 1 THEN a ELSE IF i = 2 THEN b ELSE c]
      OBVIOUS
    <3> HIDE DEF g, a, b, c
    <3>2. g[1] = a /\ (k >= 2 => g[2] = b) /\ (k >= 3 => g[3] = c)
      BY <3>1, OneOfThree
    <3> QED
      BY <3>2 DEF a, b, c
  <2>2. g = [i \in 1 .. k |-> g[i]]
    OBVIOUS
  <2> HIDE DEF g
  <2>3. ASSUME NEW i \in 1 .. k PROVE g[i] = IF i = 1 THEN seqs[i] ELSE g[i - 1] \o seqs[i]
    <3>1. i = 1 \/ (i = 2 /\ i - 1 = 1 /\ k >= 2) \/ (i = 3 /\ i - 1 = 2 /\ k >= 3)
      OBVIOUS
    <3>2. CASE i = 1
      BY <2>1, <3>2
    <3>3. CASE i = 2 /\ i - 1 = 1 /\ k >= 2
      BY <2>1, <3>3
    <3>4. CASE i = 3 /\ i - 1 = 2 /\ k >= 3
      <4> HIDE DEF g
      <4>0. k >= 2 /\ k >= 3
        BY <3>4
      <4>1. g[2] = seqs[1] \o seqs[2] /\ g[3] = (seqs[1] \o seqs[2]) \o seqs[3]
        BY <2>1, <4>0
      <4>2. g[3] = g[2] \o seqs[3]
        BY ONLY <4>1
      <4> QED
        BY <3>4, <4>2
    <3> QED
      BY <3>1, <3>2, <3>3, <3>4
  <2>4. g = [i \in 1 .. k |-> IF i = 1 THEN seqs[i] ELSE g[i - 1] \o seqs[i]]
    BY <2>2, <2>3
  <2> QED
    BY <1>1, <2>4 DEF Flattens
<1>3. Flattens(f, seqs)
  BY <1>2
<1>4. FlattenSeq(seqs) = f[k]
  <2>1. Len(seqs) # 0
    BY <1>1
  <2> QED
    BY <1>1, <2>1 DEF FlattenSeq, Flattens
<1> HIDE DEF f
<1>5. \A i \in 1 .. k : f[i] = IF i = 1 THEN seqs[i] ELSE f[i - 1] \o seqs[i]
  BY <1>1, <1>3 DEF Flattens
<1>6. f[1] = seqs[1]
  BY <1>5
<1>7. CASE k = 1
  BY <1>4, <1>6, <1>7
<1>8. CASE k = 2
  <2>1. 2 \in 1 .. k /\ 2 # 1 /\ 2 - 1 = 1
    BY <1>8
  <2>2. f[2] = f[1] \o seqs[2]
    BY <1>5, <2>1
  <2> QED
    BY <1>4, <1>6, <1>8, <2>2
<1>9. CASE k = 3
  <2>1. 2 \in 1 .. k /\ 2 # 1 /\ 2 - 1 = 1 /\ 3 \in 1 .. k /\ 3 # 1 /\ 3 - 1 = 2
    BY <1>9
  <2>2. f[2] = f[1] \o seqs[2] /\ f[3] = f[2] \o seqs[3]
    BY <1>5, <2>1
  <2> QED
    BY <1>4, <1>6, <1>9, <2>2
<1>10. k = 1 \/ k = 2 \/ k = 3
  OBVIOUS
<1> QED
  BY <1>7, <1>8, <1>9, <1>10

\* What the logger writes are rows it was given, and just these when none was
\* lost or doubled.
LEMMA Written ==
  ASSUME NEW t \in Frame, NEW k \in 1 .. 3, NEW R, NEW list \in [1 .. k -> R], Write(t, list),
         rowFaults \in Nat
  PROVE  /\ rowFaults' \in Nat /\ rowFaults' >= rowFaults
         /\ \E new \in Seq(R) :
               /\ logged' = [logged EXCEPT ![t] = @ \o new]
               /\ rowFaults' = 0 => new = list
<1> DEFINE seqs(copies) == [i \in DOMAIN list |-> [c \in 1 .. copies[i] |-> list[i]]]
<1>1. PICK copies \in [1 .. k -> 0 .. 2] :
        /\ rowFaults' = rowFaults + Cardinality({i \in DOMAIN list : copies[i] # 1})
        /\ logged' = [logged EXCEPT ![t] = @ \o FlattenSeq(seqs(copies))]
  BY DEF Write
<1> DEFINE odd == {i \in DOMAIN list : copies[i] # 1}
<1>2. IsFiniteSet(odd) /\ Cardinality(odd) \in Nat
  <2>1. IsFiniteSet(1 .. k) /\ odd \subseteq 1 .. k
    BY FS_Interval
  <2>2. IsFiniteSet(odd)
    BY <2>1, FS_Subset
  <2> QED
    BY <2>2, FS_CardinalityType
<1> DEFINE q == seqs(copies)
<1>3. /\ q \in [1 .. k -> Seq(R)]
      /\ \A i \in 1 .. k : copies[i] = 1 => q[i] = <<list[i]>>
  <2>1. \A i \in 1 .. k : q[i] = [c \in 1 .. copies[i] |-> list[i]]
    OBVIOUS
  <2>2. ASSUME NEW i \in 1 .. k PROVE q[i] \in Seq(R) /\ (copies[i] = 1 => q[i] = <<list[i]>>)
    <3>1. copies[i] \in Nat /\ list[i] \in R
      OBVIOUS
    <3> HIDE DEF q
    <3>2. q[i] = [c \in 1 .. copies[i] |-> list[i]]
      BY <2>1
    <3> DEFINE m == copies[i]
               x == list[i]
    <3>3. [c \in 1 .. m |-> x] \in Seq(R)
      <4>1. m \in Nat /\ x \in R
        BY <3>1
      <4> HIDE DEF m, x
      <4>2. [c \in 1 .. m |-> x] \in [1 .. m -> R]
        BY <4>1
      <4> QED
        BY <4>1, <4>2
    <3>4. m = 1 => [c \in 1 .. m |-> x] = <<x>>
      <4> HIDE DEF m, x
      <4> QED
        OBVIOUS
    <3> QED
      BY <3>2, <3>3, <3>4
  <2>3. q = [i \in 1 .. k |-> q[i]]
    OBVIOUS
  <2> HIDE DEF q
  <2> QED
    BY <2>2, <2>3
<1> DEFINE new == FlattenSeq(q)
<1> HIDE DEF q
<1>4. new = IF k = 1 THEN q[1] ELSE IF k = 2 THEN q[1] \o q[2] ELSE (q[1] \o q[2]) \o q[3]
  BY <1>3, FlattenFew
<1> HIDE DEF new
<1>5. new \in Seq(R)
  BY <1>3, <1>4
<1>6. ASSUME rowFaults' = 0 PROVE new = list
  <2>1. Cardinality(odd) = 0
    BY <1>1, <1>2, <1>6
  <2>2. odd = {}
    BY <1>2, <2>1, FS_EmptySet
  <2>3. \A i \in 1 .. k : q[i] = <<list[i]>>
    BY <1>3, <2>2
  <2>4. list \in Seq(R) /\ Len(list) = k
    OBVIOUS
  <2>5. Len(new) = k /\ \A i \in 1 .. k : new[i] = list[i]
    <3>0. k = 1 \/ k = 2 \/ k = 3
      OBVIOUS
    <3>1. CASE k = 1
      <4>1. new = <<list[1]>>
        BY <1>4, <2>3, <3>1
      <4> QED
        BY <3>1, <4>1
    <3>2. CASE k = 2
      <4>1. 1 \in 1 .. k /\ 2 \in 1 .. k
        BY <3>2
      <4>2. q[1] = <<list[1]>> /\ q[2] = <<list[2]>> /\ list[1] \in R /\ list[2] \in R
        BY <2>3, <4>1
      <4>3. new = q[1] \o q[2]
        BY <1>4, <3>2
      <4>4. new = <<list[1], list[2]>>
        BY <4>2, <4>3, Concat
      <4> QED
        BY <3>2, <4>4
    <3>3. CASE k = 3
      <4>1. 1 \in 1 .. k /\ 2 \in 1 .. k /\ 3 \in 1 .. k
        BY <3>3
      <4>2. /\ q[1] = <<list[1]>> /\ q[2] = <<list[2]>> /\ q[3] = <<list[3]>>
            /\ list[1] \in R /\ list[2] \in R /\ list[3] \in R
        BY <2>3, <4>1
      <4>3. new = (q[1] \o q[2]) \o q[3]
        BY <1>4, <3>3
      <4>4. new = <<list[1], list[2], list[3]>>
        BY <4>2, <4>3, Concat
      <4> QED
        BY <3>3, <4>4
    <3> QED
      BY <3>0, <3>1, <3>2, <3>3
  <2> QED
    BY <1>5, <2>4, <2>5
<1>7. rowFaults' = rowFaults + Cardinality(odd)
  BY <1>1
<1>8. logged' = [logged EXCEPT ![t] = @ \o new]
  BY <1>1 DEF new, q
<1> HIDE DEF odd
<1>9. rowFaults' \in Nat /\ rowFaults' >= rowFaults
  BY <1>2, <1>7
<1> QED
  BY <1>5, <1>6, <1>8, <1>9

-----------------------------------------------------------------------------
(* Starts and ends of plannings, paired.                                   *)

StartRowsIn(list) == {i \in DOMAIN list : list[i].stage = "planner_process_start"}
EndRowsIn(list)  == {i \in DOMAIN list : list[i].stage = "planner_process_end"}

\* The fold of Paired: what is open, and the pairs so far.
PairStates(list) == [open : Seq(StartRowsIn(list)), pairs : SUBSET (StartRowsIn(list) \X EndRowsIn(list))]

PairStep(list, acc, j) ==
  CASE list[j].stage = "planner_process_start" ->
         [acc EXCEPT !.open = Append(@, j)]
    [] list[j].stage = "planner_process_end" /\ acc.open # <<>> ->
         [open |-> Front(acc.open), pairs |-> acc.pairs \cup {<<Last(acc.open), j>>}]
    [] OTHER -> acc

PairFold(f, list) ==
  f = [s \in SUBSET DOMAIN [j \in DOMAIN list |-> j] |->
         IF s = {} THEN [open |-> <<>>, pairs |-> {}]
         ELSE LET x == Max(s) IN PairStep(list, f[s \ {x}], [j \in DOMAIN list |-> j][x])]

LEMMA PairStepIn ==
  ASSUME NEW list, NEW acc \in PairStates(list), NEW j \in DOMAIN list
  PROVE  PairStep(list, acc, j) \in PairStates(list)
<1> DEFINE S == StartRowsIn(list)
           E == EndRowsIn(list)
<1>0. acc.open \in Seq(S) /\ acc.pairs \in SUBSET (S \X E) /\ DOMAIN acc = {"open", "pairs"}
  BY DEF PairStates
<1>1. CASE list[j].stage = "planner_process_start"
  <2>1. j \in S
    BY <1>1 DEF StartRowsIn
  <2> DEFINE o == Append(acc.open, j)
  <2>2. o \in Seq(S)
    BY <1>0, <2>1
  <2>3. PairStep(list, acc, j) = [acc EXCEPT !.open = o]
    BY <1>1 DEF PairStep
  <2> HIDE DEF o
  <2> QED
    BY <2>2, <2>3 DEF PairStates
<1>2. CASE list[j].stage = "planner_process_end" /\ acc.open # <<>>
  <2>1. j \in E /\ list[j].stage # "planner_process_start"
    BY <1>2 DEF EndRowsIn
  <2>2. Front(acc.open) \in Seq(S) /\ Last(acc.open) \in S
    BY <1>0, <1>2 DEF Front, Last
  <2>3. PairStep(list, acc, j) =
          [open |-> Front(acc.open), pairs |-> acc.pairs \cup {<<Last(acc.open), j>>}]
    BY <1>2, <2>1 DEF PairStep
  <2>4. acc.pairs \cup {<<Last(acc.open), j>>} \in SUBSET (S \X E)
    BY <1>0, <2>1, <2>2
  <2> QED
    BY <2>2, <2>3, <2>4 DEF PairStates
<1>3. CASE /\ list[j].stage # "planner_process_start"
           /\ ~(list[j].stage = "planner_process_end" /\ acc.open # <<>>)
  <2>1. PairStep(list, acc, j) = acc
    BY <1>3 DEF PairStep
  <2> QED
    BY <2>1
<1> QED
  BY <1>1, <1>2, <1>3

\* What the fold leaves of a set of rows.
PairChain(f, k, list) ==
  /\ f[{}] = [open |-> <<>>, pairs |-> {}]
  /\ \A s \in SUBSET (1 .. k) : s # {} => f[s] = PairStep(list, f[s \ {Max(s)}], Max(s))

LEMMA PairsExist ==
  ASSUME NEW k \in Nat, NEW list, DOMAIN list = 1 .. k
  PROVE  \E f \in [SUBSET (1 .. k) -> PairStates(list)] :
            PairFold(f, list)
<1> DEFINE S == 1 .. k
           V == PairStates(list)
           base == [open |-> <<>>, pairs |-> {}]
           pick == [s \in SUBSET S |-> Max(s)]
           step == [a \in S \X V |-> PairStep(list, a[2], a[1])]
<1>1. IsFiniteSet(S)
  BY FS_Interval
<1>2. \A s \in SUBSET S : s # {} => pick[s] \in s
  BY MaxOfNaturals
<1>3. base \in V
  BY DEF PairStates
<1>4. \A x \in S, v \in V : step[<<x, v>>] = PairStep(list, v, x)
  OBVIOUS
<1>5. \A x \in S, v \in V : step[<<x, v>>] \in V
  BY <1>4, PairStepIn
<1>6. \A s \in SUBSET S : pick[s] = Max(s)
  OBVIOUS
<1> HIDE DEF pick, step, V, base, S
<1>7. PICK f \in [SUBSET S -> V] : Folds(f, S, base, pick, step)
  BY <1>1, <1>2, <1>3, <1>5, FoldExists
<1>8. ASSUME NEW s \in SUBSET S
      PROVE  f[s] = IF s = {} THEN base ELSE PairStep(list, f[s \ {Max(s)}], Max(s))
  <2>1. CASE s = {}
    BY <1>7, <2>1 DEF Folds
  <2>2. CASE s # {}
    <3>1. f[s] = step[<<pick[s], f[s \ {pick[s]}]>>]
      BY <1>7, <2>2 DEF Folds
    <3>2. pick[s] \in S /\ f[s \ {pick[s]}] \in V
      BY <1>2, <1>7, <2>2 DEF S
    <3> QED
      BY <1>4, <1>6, <2>2, <3>1, <3>2
  <2> QED
    BY <2>1, <2>2
<1>9. PairFold(f, list)
  <2> USE DEF S
  <2> DEFINE id == [j \in DOMAIN list |-> j]
  <2>1. DOMAIN id = S /\ \A x \in S : id[x] = x
    OBVIOUS
  <2> HIDE DEF id
  <2>2. ASSUME NEW s \in SUBSET S
        PROVE  f[s] = IF s = {} THEN base
                      ELSE PairStep(list, f[s \ {Max(s)}], id[Max(s)])
    <3>1. s # {} => Max(s) \in S
      BY <1>2, <1>6
    <3> QED
      BY <1>8, <2>1, <3>1
  <2>3. f = [s \in SUBSET S |-> f[s]]
    BY <1>7
  <2>4. f = [s \in SUBSET DOMAIN id |->
               IF s = {} THEN base ELSE PairStep(list, f[s \ {Max(s)}], id[Max(s)])]
    BY <2>1, <2>2, <2>3
  <2> QED
    BY <2>4 DEF PairFold, id, base
<1> QED
  BY <1>7, <1>9 DEF V, S

\* Paired by its fold.
LEMMA PairedIs ==
  ASSUME NEW k \in Nat, NEW list, DOMAIN list = 1 .. k
  PROVE  \E f \in [SUBSET (1 .. k) -> PairStates(list)] :
            /\ Paired(list) = f[1 .. k].pairs
            /\ PairChain(f, k, list)
<1> DEFINE f == CHOOSE f : PairFold(f, list)
           id == [j \in DOMAIN list |-> j]
           V == PairStates(list)
           base == [open |-> <<>>, pairs |-> {}]
<1>1. Paired(list) = f[DOMAIN id].pairs
  BY DEF Paired, FoldLeft, MapThenFoldSet, PairFold, PairStep
<1>2. PairFold(f, list)
  BY PairsExist
<1> HIDE DEF f
<1>3. DOMAIN id = 1 .. k /\ \A x \in 1 .. k : id[x] = x
  OBVIOUS
<1>4. f = [s \in SUBSET DOMAIN id |->
             IF s = {} THEN base ELSE PairStep(list, f[s \ {Max(s)}], id[Max(s)])]
  BY <1>2 DEF PairFold
<1> HIDE DEF id, base
<1>5. f[{}] = base
  BY <1>4
<1>6. ASSUME NEW s \in SUBSET (1 .. k), s # {}
      PROVE  f[s] = PairStep(list, f[s \ {Max(s)}], Max(s))
  <2>1. Max(s) \in 1 .. k
    BY <1>6, MaxOfNaturals
  <2> QED
    BY <1>3, <1>4, <1>6, <2>1
<1>7. \A s \in SUBSET (1 .. k) : f[s] \in V
  <2> DEFINE S == 1 .. k
             pick == [s \in SUBSET S |-> Max(s)]
  <2>1. IsFiniteSet(S)
    BY FS_Interval
  <2>2. \A s \in SUBSET S : s # {} => pick[s] \in s
    BY MaxOfNaturals
  <2>3. \A s \in SUBSET S : pick[s] = Max(s)
    OBVIOUS
  <2> HIDE DEF pick, V
  <2>4. f[{}] \in V
    BY <1>5 DEF base, V, PairStates
  <2>5. ASSUME NEW s \in SUBSET S, s # {}, f[s \ {pick[s]}] \in V PROVE f[s] \in V
    <3>1. f[s] = PairStep(list, f[s \ {pick[s]}], pick[s]) /\ pick[s] \in DOMAIN list
      BY <1>6, <2>2, <2>3, <2>5
    <3> QED
      BY <2>5, <3>1, PairStepIn DEF V
  <2> QED
    BY <2>1, <2>2, <2>4, <2>5, FoldStays
<1>8. f \in [SUBSET (1 .. k) -> V]
  BY <1>3, <1>4, <1>7
<1> QED
  BY <1>1, <1>3, <1>5, <1>6, <1>8 DEF base, V, PairChain

\* A pair has a start and an end of a planning.
LEMMA PairedSound ==
  ASSUME NEW k \in Nat, NEW list, DOMAIN list = 1 .. k
  PROVE  Paired(list) \subseteq StartRowsIn(list) \X EndRowsIn(list)
<1>1. PICK f \in [SUBSET (1 .. k) -> PairStates(list)] : Paired(list) = f[1 .. k].pairs
  BY PairedIs
<1>2. f[1 .. k] \in PairStates(list)
  OBVIOUS
<1> QED
  BY <1>1, <1>2 DEF PairStates

\* One start and one later end are a pair.
LEMMA PairedOnce ==
  ASSUME NEW k \in Nat, NEW list, DOMAIN list = 1 .. k,
         NEW a \in 1 .. k, NEW b \in 1 .. k, a < b,
         StartRowsIn(list) = {a}, EndRowsIn(list) = {b}
  PROVE  <<a, b>> \in Paired(list)
<1>1. PICK f \in [SUBSET (1 .. k) -> PairStates(list)] :
        /\ Paired(list) = f[1 .. k].pairs
        /\ PairChain(f, k, list)
  BY PairedIs
<1>2. ASSUME NEW m \in 1 .. k PROVE f[1 .. m] = PairStep(list, f[1 .. m - 1], m)
  <2>1. 1 .. m \in SUBSET (1 .. k) /\ m \in 1 .. m
    <3>1. \A x \in 1 .. m : x \in 1 .. k
      OBVIOUS
    <3>2. m \in 1 .. m
      OBVIOUS
    <3> QED
      BY <3>1, <3>2
  <2>2. Max(1 .. m) = m
    <3>1. \A x \in 1 .. m : (\A y \in 1 .. m : x >= y) => x = m
      OBVIOUS
    <3>2. \A y \in 1 .. m : m >= y
      OBVIOUS
    <3> QED
      BY <2>1, <3>1, <3>2 DEF Max
  <2>3. (1 .. m) \ {m} = 1 .. m - 1
    OBVIOUS
  <2> QED
    BY <1>1, <2>1, <2>2, <2>3 DEF PairChain
<1>3. \A m \in 1 .. k : /\ list[m].stage = "planner_process_start" <=> m = a
                        /\ list[m].stage = "planner_process_end" <=> m = b
  BY DEF StartRowsIn, EndRowsIn
<1> DEFINE Ok(m) == m <= k =>
             /\ m < a => f[1 .. m].open = <<>>
             /\ a <= m /\ m < b => f[1 .. m].open = <<a>>
             /\ b <= m => <<a, b>> \in f[1 .. m].pairs
           T == {m \in Nat : Ok(m)}
<1>4. 0 \in T
  <2>1. 1 .. 0 = {}
    OBVIOUS
  <2> QED
    BY <1>1, <2>1 DEF PairChain
<1>5. ASSUME NEW m \in T PROVE m + 1 \in T
  <2> SUFFICES ASSUME m + 1 <= k PROVE Ok(m + 1)
    OBVIOUS
  <2>1. m \in Nat /\ m + 1 \in 1 .. k /\ Ok(m) /\ m <= k
    OBVIOUS
  <2> DEFINE acc == f[1 .. m]
             new == f[1 .. m + 1]
  <2>2. new = PairStep(list, acc, m + 1)
    <3>1. (m + 1) - 1 = m
      OBVIOUS
    <3> QED
      BY <1>2, <2>1, <3>1
  <2>3. acc \in PairStates(list)
    BY <2>1
  <2>4. /\ m < a => acc.open = <<>>
        /\ a <= m /\ m < b => acc.open = <<a>>
        /\ b <= m => <<a, b>> \in acc.pairs
    BY <2>1
  <2> HIDE DEF acc, new
  <2>5. CASE m + 1 = a
    <3>1. list[m + 1].stage = "planner_process_start" /\ acc.open = <<>>
      BY <1>3, <2>1, <2>4, <2>5
    <3>2. new = [acc EXCEPT !.open = Append(acc.open, m + 1)]
      BY <2>2, <3>1 DEF PairStep
    <3>3. new.open = <<a>>
      BY <2>3, <2>5, <3>1, <3>2 DEF PairStates
    <3> QED
      BY <2>5, <3>3 DEF new
  <2>6. CASE m + 1 = b
    <3>1. /\ list[m + 1].stage = "planner_process_end"
          /\ list[m + 1].stage # "planner_process_start" /\ acc.open = <<a>>
      BY <1>3, <2>1, <2>4, <2>6
    <3>2. acc.open # <<>> /\ Last(acc.open) = a
      BY <3>1 DEF Last
    <3>3. new.pairs = acc.pairs \cup {<<a, b>>}
      BY <2>2, <2>6, <3>1, <3>2 DEF PairStep
    <3> QED
      BY <2>6, <3>3 DEF new
  <2>7. CASE m + 1 # a /\ m + 1 # b
    <3>1. new = acc
      BY <1>3, <2>1, <2>2, <2>7 DEF PairStep
    <3>2. /\ m + 1 < a => m < a
          /\ a <= m + 1 /\ m + 1 < b => a <= m /\ m < b
          /\ b <= m + 1 => b <= m
      BY <2>1, <2>7
    <3> QED
      BY <2>4, <3>1, <3>2 DEF new
  <2> QED
    BY <2>5, <2>6, <2>7
<1>6. T = Nat
  <2>1. T \in SUBSET Nat
    OBVIOUS
  <2> HIDE DEF T
  <2> QED
    BY <1>4, <1>5, <2>1, Induction
<1>7. Ok(k)
  BY <1>6
<1> QED
  BY <1>1, <1>7

-----------------------------------------------------------------------------
(* The rows of a trace and its fate.                                       *)

EndStages == {"planner_process_end", "planner_command_abstained",
              "planner_request_rejected", "planner_backend_failure"}
StageNames == {"camera_frame_published", "planner_receive", "planner_process_start",
            "planner_publish"} \cup EndStages
StageRows == [stage : StageNames, at : Nat, duration : Nat, tid : Threads \cup {"camera"}]
Fates  == [published : Nat, received : Nat, started : Nat, finished : Nat,
           tid : Threads \cup {"none"},
           outcome : {"none", "planned", "rejected", "failed"}]

\* A row that a trace of this fate may have, and the stages it must have.
RowOf(row, f) ==
  \/ row.stage = "camera_frame_published" /\ row.at = f.published
     /\ row.duration = 0 /\ f.published > 0
  \/ row.stage = "planner_receive" /\ row.at = f.received
     /\ row.duration = 0 /\ row.tid = f.tid /\ f.received > 0
  \/ row.stage = "planner_process_start" /\ row.at = f.started
     /\ row.duration = 0 /\ row.tid = f.tid /\ f.started > 0
  \/ row.stage = "planner_publish" /\ row.at = f.finished
     /\ row.duration = 0 /\ row.tid = f.tid /\ f.finished > 0 /\ f.outcome = "planned"
  \/ row.stage \in EndStages /\ row.at = f.finished
     /\ row.duration = f.finished - f.received /\ row.tid = f.tid /\ f.finished > 0

Owes(name, f) ==
  \/ name = "camera_frame_published" /\ f.published > 0
  \/ name = "planner_receive" /\ f.received > 0
  \/ name = "planner_process_start" /\ f.started > 0
  \/ name = "planner_process_end" /\ f.finished > 0
  \/ name = "planner_publish" /\ f.outcome = "planned"

HasRow(l, name) == \E i \in DOMAIN l : l[i].stage = name
Exact(l, f) ==
  /\ \A i, j \in DOMAIN l : l[i].stage = l[j].stage => i = j
  /\ \A i, j \in DOMAIN l : l[i].stage = "planner_process_start"
                            /\ l[j].stage = "planner_process_end" => i < j
  /\ \A name \in StageNames : Owes(name, f) => HasRow(l, name)

LogsInv ==
  /\ rowFaults \in Nat
  /\ logged \in [Frame -> Seq(StageRows)]
  /\ \A t \in Frame : \A i \in DOMAIN logged[t] : RowOf(logged[t][i], fate[t])
  /\ rowFaults = 0 => \A t \in Frame : Exact(logged[t], fate[t])

LEMMA ConcatRows ==
  ASSUME NEW X, NEW l \in Seq(X), NEW m \in Seq(X)
  PROVE  /\ l \o m \in Seq(X)
         /\ DOMAIN (l \o m) = 1 .. Len(l) + Len(m)
         /\ DOMAIN l = 1 .. Len(l) /\ DOMAIN m = 1 .. Len(m)
         /\ Len(l) \in Nat /\ Len(m) \in Nat
         /\ \A i \in 1 .. Len(l) : (l \o m)[i] = l[i]
         /\ \A i \in 1 .. Len(m) : (l \o m)[Len(l) + i] = m[i]
         /\ \A i \in DOMAIN (l \o m) : i \in 1 .. Len(l)
                \/ \E j \in 1 .. Len(m) : i = Len(l) + j
<1>1. l \o m \in Seq(X) /\ Len(l \o m) = Len(l) + Len(m) /\ Len(l) \in Nat /\ Len(m) \in Nat
  OBVIOUS
<1>2. DOMAIN (l \o m) = 1 .. Len(l) + Len(m)
  BY <1>1
<1>3. ASSUME NEW i \in 1 .. Len(l) + Len(m), i \notin 1 .. Len(l)
      PROVE  \E j \in 1 .. Len(m) : i = Len(l) + j
  <2>1. i - Len(l) \in 1 .. Len(m) /\ i = Len(l) + (i - Len(l))
    BY <1>1, <1>3
  <2> QED
    BY <2>1
<1>4. \A i \in 1 .. Len(l) : (l \o m)[i] = l[i]
  BY <1>1
<1>5. \A i \in 1 .. Len(m) : (l \o m)[Len(l) + i] = m[i]
  BY <1>1
<1> QED
  BY <1>1, <1>2, <1>3, <1>4, <1>5

\* The rows of a step that takes a fate from f to g: each tells of it, and
\* tells something new.
Tells(list, k, f, g) ==
  /\ \A i \in 1 .. k : RowOf(list[i], g)
  /\ \A row \in StageRows : RowOf(row, f) =>
        RowOf(row, g) /\ \A i \in 1 .. k : row.stage # list[i].stage
  /\ \A i, j \in 1 .. k : list[i].stage = list[j].stage => i = j
  /\ \A i \in 1 .. k : list[i].stage = "planner_process_start" => k = 1 /\ f.finished = 0
  /\ \A name \in StageNames : Owes(name, g) => Owes(name, f) \/ HasRow(list, name)

LEMMA LogStep ==
  ASSUME LogsInv, NEW t \in Frame, NEW k \in 1 .. 3, NEW list \in [1 .. k -> StageRows],
         Write(t, list), \A u \in Frame \ {t} : fate'[u] = fate[u],
         Tells(list, k, fate[t], fate'[t])
  PROVE  LogsInv'
<1> DEFINE l == logged[t]
           R == {list[i] : i \in 1 .. k}
<1>1. /\ rowFaults \in Nat /\ logged \in [Frame -> Seq(StageRows)] /\ l \in Seq(StageRows)
      /\ \A i \in DOMAIN l : RowOf(l[i], fate[t])
      /\ rowFaults = 0 => Exact(l, fate[t])
  BY DEF LogsInv
<1>2. PICK new \in Seq(R) : /\ logged' = [logged EXCEPT ![t] = @ \o new]
                            /\ rowFaults' = 0 => new = list
                            /\ rowFaults' \in Nat /\ rowFaults' >= rowFaults
  <2>1. list \in [1 .. k -> R]
    OBVIOUS
  <2> HIDE DEF R
  <2> QED
    BY <1>1, <2>1, Written
<1>3. new \in Seq(StageRows) /\ \A j \in DOMAIN new : \E i \in 1 .. k : new[j] = list[i]
  <2>1. R \subseteq StageRows
    OBVIOUS
  <2>2. \A j \in DOMAIN new : new[j] \in R
    OBVIOUS
  <2>3. new \in Seq(StageRows)
    BY <2>1
  <2> QED
    BY <2>2, <2>3
<1> HIDE DEF l, R
<1> DEFINE both == l \o new
<1>4. /\ both \in Seq(StageRows) /\ DOMAIN both = 1 .. Len(l) + Len(new)
      /\ DOMAIN l = 1 .. Len(l) /\ DOMAIN new = 1 .. Len(new)
      /\ Len(l) \in Nat /\ Len(new) \in Nat
      /\ \A i \in 1 .. Len(l) : both[i] = l[i]
      /\ \A i \in 1 .. Len(new) : both[Len(l) + i] = new[i]
      /\ \A i \in DOMAIN both : i \in 1 .. Len(l) \/ \E j \in 1 .. Len(new) : i = Len(l) + j
  BY <1>1, <1>3, ConcatRows
<1> HIDE DEF both
<1>5. /\ logged' \in [Frame -> Seq(StageRows)] /\ logged'[t] = both
      /\ \A u \in Frame \ {t} : logged'[u] = logged[u]
  BY <1>1, <1>2, <1>4 DEF both, l
<1>6. \A i \in DOMAIN both : RowOf(both[i], fate'[t])
  <2> TAKE i \in DOMAIN both
  <2>1. CASE i \in 1 .. Len(l)
    <3>1. both[i] = l[i] /\ l[i] \in StageRows /\ RowOf(l[i], fate[t])
      BY <1>1, <1>4, <2>1
    <3>2. RowOf(l[i], fate'[t])
      BY <3>1 DEF Tells
    <3> QED
      BY <3>1, <3>2
  <2>2. ASSUME NEW j \in 1 .. Len(new), i = Len(l) + j PROVE RowOf(both[i], fate'[t])
    <3>1. both[i] = new[j] /\ j \in DOMAIN new
      BY <1>4, <2>2
    <3>2. PICK p \in 1 .. k : new[j] = list[p]
      BY <1>3, <3>1
    <3>3. RowOf(list[p], fate'[t])
      BY DEF Tells
    <3> QED
      BY <3>1, <3>2, <3>3
  <2> QED
    BY <1>4, <2>1, <2>2
<1>7. ASSUME rowFaults' = 0 PROVE Exact(both, fate'[t])
  <2>1. rowFaults = 0 /\ Exact(l, fate[t]) /\ new = list
    BY <1>1, <1>2, <1>7
  <2>2. Len(new) = k /\ \A i \in 1 .. k : new[i] = list[i]
    BY <1>4, <2>1
  <2>3. ASSUME NEW i \in 1 .. Len(l), NEW j \in 1 .. k PROVE l[i].stage # list[j].stage
    <3>1. i \in DOMAIN l /\ l[i] \in StageRows
      BY <1>1, <1>4
    <3>2. RowOf(l[i], fate[t])
      BY <1>1, <3>1
    <3> QED
      BY <3>1, <3>2 DEF Tells
  <2>4. ASSUME NEW i \in DOMAIN both, NEW j \in DOMAIN both, both[i].stage = both[j].stage
        PROVE  i = j
    <3>1. CASE i \in 1 .. Len(l) /\ j \in 1 .. Len(l)
      BY <1>4, <2>1, <2>4, <3>1 DEF Exact
    <3>2. ASSUME i \in 1 .. Len(l), NEW q \in 1 .. Len(new), j = Len(l) + q PROVE FALSE
      <4>1. both[i] = l[i] /\ both[j] = list[q] /\ q \in 1 .. k
        BY <1>4, <2>2, <3>2
      <4> QED
        BY <2>3, <2>4, <3>2, <4>1
    <3>3. ASSUME j \in 1 .. Len(l), NEW p \in 1 .. Len(new), i = Len(l) + p PROVE FALSE
      <4>1. both[j] = l[j] /\ both[i] = list[p] /\ p \in 1 .. k
        BY <1>4, <2>2, <3>3
      <4>2. l[j].stage # list[p].stage
        BY <2>3, <3>3, <4>1
      <4> QED
        BY <2>4, <4>1, <4>2
    <3>4. ASSUME NEW p \in 1 .. Len(new), i = Len(l) + p, NEW q \in 1 .. Len(new), j = Len(l) + q
          PROVE  i = j
      <4>1. list[p].stage = list[q].stage
        BY <1>4, <2>2, <2>4, <3>4
      <4>2. p = q
        BY <2>2, <4>1 DEF Tells
      <4> QED
        BY <3>4, <4>2
    <3> QED
      BY <1>4, <3>1, <3>2, <3>3, <3>4
  <2>5. ASSUME NEW i \in DOMAIN both, NEW j \in DOMAIN both,
               both[i].stage = "planner_process_start", both[j].stage = "planner_process_end"
        PROVE  i < j
    <3>1. CASE i \in 1 .. Len(l) /\ j \in 1 .. Len(l)
      BY <1>4, <2>1, <2>5, <3>1 DEF Exact
    <3>2. ASSUME i \in 1 .. Len(l), NEW q \in 1 .. Len(new), j = Len(l) + q PROVE i < j
      BY <1>4, <3>2
    <3>3. ASSUME NEW p \in 1 .. Len(new), i = Len(l) + p PROVE FALSE
      <4>1. list[p].stage = "planner_process_start" /\ p \in 1 .. k
        BY <1>4, <2>2, <2>5, <3>3
      <4>2. k = 1 /\ fate[t].finished = 0
        BY <4>1 DEF Tells
      <4>3. ASSUME NEW q \in 1 .. Len(new), j = Len(l) + q PROVE FALSE
        <5>1. list[q].stage = "planner_process_end" /\ q = p
          BY <1>4, <2>2, <2>5, <4>1, <4>2, <4>3
        <5> QED
          BY <4>1, <5>1
      <4>4. ASSUME j \in 1 .. Len(l) PROVE FALSE
        <5>1. l[j].stage = "planner_process_end" /\ RowOf(l[j], fate[t])
          BY <1>1, <1>4, <2>5, <4>4
        <5> QED
          BY <4>2, <5>1 DEF RowOf, EndStages
      <4> QED
        BY <1>4, <4>3, <4>4
    <3> QED
      BY <1>4, <3>1, <3>2, <3>3
  <2>6. ASSUME NEW name \in StageNames, Owes(name, fate'[t]) PROVE HasRow(both, name)
    <3>1. ASSUME NEW i \in DOMAIN l, l[i].stage = name PROVE HasRow(both, name)
      <4>1. i \in DOMAIN both /\ both[i].stage = name
        BY <1>4, <3>1
      <4> QED
        BY <4>1 DEF HasRow
    <3>2. ASSUME NEW i \in DOMAIN list, list[i].stage = name PROVE HasRow(both, name)
      <4>1. Len(l) + i \in DOMAIN both /\ both[Len(l) + i].stage = name
        BY <1>4, <2>2, <3>2
      <4> QED
        BY <4>1 DEF HasRow
    <3>3. HasRow(l, name) \/ HasRow(list, name)
      BY <2>1, <2>6 DEF Exact, Tells
    <3> QED
      BY <3>1, <3>2, <3>3 DEF HasRow
  <2> QED
    BY <2>4, <2>5, <2>6 DEF Exact
<1>8. ASSUME NEW u \in Frame
      PROVE  /\ \A i \in DOMAIN logged'[u] : RowOf(logged'[u][i], fate'[u])
             /\ rowFaults' = 0 => Exact(logged'[u], fate'[u])
  <2>1. CASE u = t
    BY <1>5, <1>6, <1>7, <2>1
  <2>2. CASE u # t
    <3>1. logged'[u] = logged[u] /\ fate'[u] = fate[u] /\ (rowFaults' = 0 => rowFaults = 0)
      BY <1>1, <1>2, <1>5, <2>2
    <3> QED
      BY <3>1 DEF LogsInv
  <2> QED
    BY <2>1, <2>2
<1> QED
  BY <1>2, <1>5, <1>8 DEF LogsInv

-----------------------------------------------------------------------------
(* What happens to the frames of a capture.                                *)

\* What happens to a trace, in order.
FateInv(t) ==
  LET f == fate[t]
  IN /\ f.published <= tick /\ f.received <= tick /\ f.started <= tick /\ f.finished <= tick
     /\ f.published > 0 <=> t <= published
     /\ f.received > 0 => f.published > 0
     /\ f.received = 0 => f.started = 0 /\ f.finished = 0
     /\ f.started > 0 => f.received < f.started
     /\ f.finished > 0 => f.received < f.finished /\ f.started < f.finished
     /\ f.finished > 0 <=> f.outcome # "none"
     /\ f.finished > 0 => (f.started = 0 <=> f.outcome = "rejected")
     /\ f.received > 0 /\ f.finished = 0 => busy # Idle /\ busy.trace = t

Plannings ==
  [trace : Frame, tid : Threads, begun : Nat, started : BOOLEAN]

BusyInv ==
  /\ busy = Idle \/ busy \in Plannings
  /\ busy # Idle =>
       LET f == fate[busy.trace]
       IN /\ f.tid = busy.tid /\ f.received = busy.begun /\ f.received > 0
          /\ busy.started <=> f.started > 0
          /\ f.finished = 0

\* Frames are planned one after the other, in the order of their publication.
InTurn ==
  \A t, u \in Frame :
     fate[u].received > 0 /\ fate[u].received <= fate[t].received /\ u # t =>
        u < t /\ 0 < fate[u].finished /\ fate[u].finished < fate[t].received

QueueInv ==
  /\ queue \in Seq(Frame)
  /\ \A i \in DOMAIN queue :
       /\ queue[i] <= published
       /\ \A j \in DOMAIN queue : i < j => queue[i] < queue[j]
       /\ \A u \in Frame : fate[u].received > 0 => u < queue[i]

\* What a probe has seen is what the thread was doing.
ProbeInv ==
  \A e \in probes :
     /\ e.at \in Nat /\ e.at <= tick
     /\ \A t \in Frame :
          LET f == fate[t]
          IN f.tid = e.tid /\ f.received > 0 /\ f.received <= e.at
             /\ (f.finished = 0 \/ e.at <= f.finished) => e.trace = t
     /\ e.planned =>
          /\ e.trace \in Frame
          /\ LET f == fate[e.trace]
             IN f.tid = e.tid /\ 0 < f.started /\ f.started <= e.at
                /\ (f.finished = 0 \/ e.at < f.finished)

StageTypes ==
  /\ tick \in Nat /\ published \in 0 .. NumFrames
  /\ fate \in [Frame -> Fates]

StageInv ==
  /\ StageTypes /\ (\A t \in Frame : FateInv(t)) /\ BusyInv /\ InTurn /\ QueueInv
  /\ ProbeInv /\ LogsInv

\* Nothing has been captured, or is of the capture any more.
Fresh ==
  /\ tick = 0 /\ published = 0 /\ queue = <<>> /\ busy = Idle
  /\ fate = [t \in Frame |-> Unknown]
  /\ logged = [t \in Frame |-> <<>>]
  /\ probes = {} /\ rowFaults = 0

LEMMA FreshStage == Fresh => StageInv
<1> SUFFICES ASSUME Fresh PROVE StageInv
  OBVIOUS
<1>1. Unknown \in Fates
  BY DEF Unknown, Fates
<1>2. NumFrames \in Nat
  BY StageAssumption
<1>3. StageTypes
  BY <1>1, <1>2 DEF Fresh, StageTypes
<1>4. ASSUME NEW t \in Frame PROVE FateInv(t)
  <2>1. fate[t] = Unknown /\ t > 0
    BY <1>2 DEF Fresh, Frame
  <2> QED
    BY <2>1, <1>2 DEF FateInv, Unknown, Fresh, Frame
<1>5. BusyInv /\ InTurn /\ QueueInv /\ ProbeInv
  BY DEF Fresh, BusyInv, InTurn, QueueInv, ProbeInv, Unknown
<1>6. LogsInv
  <2>1. /\ rowFaults = 0 /\ logged = [t \in Frame |-> <<>>] /\ fate = [t \in Frame |-> Unknown]
    BY DEF Fresh
  <2>2. logged \in [Frame -> Seq(StageRows)]
    BY <2>1
  <2>3. ASSUME NEW t \in Frame PROVE Exact(logged[t], fate[t]) /\ DOMAIN logged[t] = {}
    <3>1. DOMAIN logged[t] = {} /\ fate[t] = Unknown
      BY <2>1
    <3>2. \A name \in StageNames : ~Owes(name, Unknown)
      BY DEF Owes, Unknown
    <3> QED
      BY <3>1, <3>2 DEF Exact
  <2> QED
    BY <2>1, <2>2, <2>3 DEF LogsInv
<1> QED
  BY <1>3, <1>4, <1>5, <1>6 DEF StageInv

LEMMA StagePublish == StageInv /\ PublishFrame => StageInv'
<1> SUFFICES ASSUME StageInv, PublishFrame PROVE StageInv'
  OBVIOUS
<1> USE DEF StageInv
<1> DEFINE t == published + 1
           f == fate[t]
           g == fate'[t]
           row == Row("camera_frame_published", tick + 1, 0, "camera")
<1>0. NumFrames \in Nat /\ \A u \in Frame : u \in Nat /\ u > 0 /\ u <= NumFrames
  BY StageAssumption DEF Frame
<1>1. tick \in Nat /\ published \in Nat /\ t \in Frame /\ fate \in [Frame -> Fates]
  BY DEF StageTypes, PublishFrame, Frame
<1>2. tick' = tick + 1 /\ published' = t /\ busy' = busy /\ probes' = probes
  BY DEF PublishFrame, Tick
<1>3. fate' = [fate EXCEPT ![t].published = tick + 1]
  BY <1>2 DEF PublishFrame
<1>4. /\ fate' \in [Frame -> Fates]
      /\ g = [f EXCEPT !.published = tick + 1]
      /\ \A u \in Frame \ {t} : fate'[u] = fate[u]
  <2>1. g = [f EXCEPT !.published = tick + 1] /\ \A u \in Frame \ {t} : fate'[u] = fate[u]
    BY <1>1, <1>3
  <2>2. f \in Fates
    BY <1>1
  <2> HIDE DEF f
  <2>3. [f EXCEPT !.published = tick + 1] \in Fates
    BY <1>1, <2>2 DEF Fates
  <2> QED
    BY <1>1, <1>3, <2>1, <2>3 DEF f
<1>5. f \in Fates /\ f.published = 0 /\ f.received = 0 /\ f.started = 0 /\ f.finished = 0
      /\ f.outcome = "none"
  <2>1. FateInv(t) /\ f \in Fates
    BY <1>1
  <2>2. ~(t <= published)
    BY <1>1
  <2> QED
    BY <2>1, <2>2 DEF FateInv, Fates
<1>6. /\ g.published = tick + 1 /\ g.received = 0 /\ g.started = 0 /\ g.finished = 0
      /\ g.outcome = "none" /\ g.tid = f.tid
  BY <1>4, <1>5 DEF Fates
<1> HIDE DEF t, f, g
<1>7. StageTypes'
  BY <1>0, <1>1, <1>2, <1>4 DEF StageTypes, Frame
<1>8. ASSUME NEW u \in Frame PROVE FateInv(u)'
  <2>1. CASE u = t
    BY <1>0, <1>1, <1>2, <1>6, <2>1 DEF FateInv, g
  <2>2. CASE u # t
    <3>1. fate'[u] = fate[u] /\ FateInv(u) /\ fate[u] \in Fates
      BY <1>1, <1>4, <2>2
    <3>2. u <= published <=> u <= published'
      BY <1>0, <1>1, <1>2, <2>2 DEF t
    <3> QED
      BY <1>1, <1>2, <3>1, <3>2 DEF FateInv, Fates
  <2> QED
    BY <2>1, <2>2
<1>9. BusyInv'
  <2>1. busy # Idle => busy.trace \in Frame /\ busy.trace # t
    BY <1>1, <1>5 DEF BusyInv, Plannings, f
  <2> QED
    BY <1>2, <1>4, <2>1 DEF BusyInv
<1>10. \A u \in Frame : /\ fate'[u].received = fate[u].received
                        /\ fate'[u].started = fate[u].started
                        /\ fate'[u].finished = fate[u].finished
                        /\ fate'[u].tid = fate[u].tid
  BY <1>4, <1>5, <1>6 DEF f, g
<1>11. InTurn'
  BY <1>10 DEF InTurn
<1>12. QueueInv'
  <2> DEFINE q == IF Len(queue) < Depth THEN queue ELSE Tail(queue)
  <2>1. queue' = Append(q, t)
    BY <1>1 DEF PublishFrame, t
  <2>2. /\ q \in Seq(Frame)
        /\ \A i \in DOMAIN q :
             /\ q[i] <= published
             /\ \A j \in DOMAIN q : i < j => q[i] < q[j]
             /\ \A u \in Frame : fate[u].received > 0 => u < q[i]
    <3>1. CASE Len(queue) < Depth
      BY <3>1 DEF QueueInv
    <3>2. CASE ~(Len(queue) < Depth)
      <4>1. queue \in Seq(Frame) /\ queue # <<>>
        BY <3>2, StageAssumption DEF QueueInv
      <4>2. /\ q \in Seq(Frame) /\ \A i \in DOMAIN q : i + 1 \in DOMAIN queue /\ q[i] = queue[i + 1]
            /\ DOMAIN q \subseteq Nat
        BY <3>2, <4>1
      <4> HIDE DEF q
      <4>3. \A i, j \in DOMAIN q : i < j => i + 1 < j + 1
        BY <4>2
      <4> QED
        BY <4>2, <4>3 DEF QueueInv
    <3> QED
      BY <3>1, <3>2
  <2> HIDE DEF q
  <2>3. /\ queue' \in Seq(Frame) /\ DOMAIN q = 1 .. Len(q) /\ Len(q) \in Nat
        /\ DOMAIN queue' = 1 .. Len(q) + 1
        /\ \A i \in 1 .. Len(q) : queue'[i] = q[i]
        /\ queue'[Len(q) + 1] = t
    BY <1>1, <2>1, <2>2
  <2>4. \A u \in Frame : fate[u].received > 0 => u < t
    <3> SUFFICES ASSUME NEW u \in Frame, fate[u].received > 0 PROVE u < t
      OBVIOUS
    <3>1. FateInv(u)
      OBVIOUS
    <3>2. u <= published
      BY <3>1 DEF FateInv
    <3> QED
      BY <1>0, <1>1, <3>2 DEF t
  <2>5. ASSUME NEW i \in DOMAIN queue'
        PROVE  /\ queue'[i] <= published'
               /\ \A j \in DOMAIN queue' : i < j => queue'[i] < queue'[j]
               /\ \A u \in Frame : fate'[u].received > 0 => u < queue'[i]
    <3>1. CASE i = Len(q) + 1
      <4>1. queue'[i] = t /\ ~ \E j \in DOMAIN queue' : i < j
        BY <2>3, <3>1
      <4> QED
        BY <1>1, <1>2, <1>0, <1>10, <2>4, <4>1
    <3>2. CASE i \in 1 .. Len(q)
      <4>1. queue'[i] = q[i] /\ q[i] \in Frame /\ q[i] <= published
        BY <2>2, <2>3, <3>2
      <4>2. q[i] < t /\ q[i] <= published'
        BY <1>0, <1>1, <1>2, <4>1 DEF t
      <4>3. ASSUME NEW j \in DOMAIN queue', i < j PROVE queue'[i] < queue'[j]
        <5>1. j = Len(q) + 1 \/ j \in 1 .. Len(q)
          BY <2>3
        <5> QED
          BY <2>2, <2>3, <3>2, <4>1, <4>2, <4>3, <5>1
      <4>4. \A u \in Frame : fate'[u].received > 0 => u < queue'[i]
        BY <1>10, <2>2, <2>3, <3>2, <4>1
      <4> QED
        BY <4>1, <4>2, <4>3, <4>4
    <3> QED
      BY <2>3, <3>1, <3>2
  <2> QED
    BY <2>3, <2>5 DEF QueueInv
<1>13. ProbeInv'
  BY <1>1, <1>2, <1>10 DEF ProbeInv
<1>14. LogsInv'
  <2>1. row \in StageRows
    BY <1>1 DEF Row, StageRows, StageNames
  <2> DEFINE list == <<row>>
  <2>2. list \in [1 .. 1 -> StageRows] /\ list[1] = row
    BY <2>1
  <2>3. Write(t, list)
    BY <1>2 DEF PublishFrame, t
  <2>4. row.stage = "camera_frame_published" /\ row.at = tick + 1 /\ row.duration = 0
    BY DEF Row
  <2> HIDE DEF list, row
  <2>5. Tells(list, 1, f, g)
    <3>1. RowOf(row, g)
      BY <1>1, <1>6, <2>4 DEF RowOf
    <3>2. \A r \in StageRows : ~RowOf(r, f)
      BY <1>5 DEF RowOf
    <3>3. \A name \in StageNames : Owes(name, g) => Owes(name, f) \/ HasRow(list, name)
      BY <1>5, <1>6, <2>2, <2>4 DEF Owes, HasRow
    <3> QED
      BY <2>2, <2>4, <3>1, <3>2, <3>3 DEF Tells
  <2> QED
    BY <1>1, <1>4, <2>2, <2>3, <2>5, LogStep DEF f, g
<1> QED
  BY <1>7, <1>8, <1>9, <1>11, <1>12, <1>13, <1>14

LEMMA StageTake ==
  ASSUME StageInv, NEW tid \in Threads, TakeFrame(tid)
  PROVE  StageInv'
<1> USE DEF StageInv
<1> DEFINE t == Head(queue)
           f == fate[t]
           g == fate'[t]
           row == Row("planner_receive", tick + 1, 0, tid)
<1>0. NumFrames \in Nat /\ \A u \in Frame : u \in Nat /\ u > 0 /\ u <= NumFrames
  BY StageAssumption DEF Frame
<1>1. /\ tick \in Nat /\ published \in Nat /\ fate \in [Frame -> Fates]
      /\ queue \in Seq(Frame) /\ queue # <<>> /\ busy = Idle
  BY DEF StageTypes, TakeFrame, QueueInv
<1>2. tick' = tick + 1 /\ published' = published /\ probes' = probes /\ queue' = Tail(queue)
  BY DEF TakeFrame, Tick
<1>3. busy' = [trace |-> t, tid |-> tid, begun |-> tick + 1, started |-> FALSE]
  BY <1>2 DEF TakeFrame
<1>4. fate' = [fate EXCEPT ![t].received = tick + 1, ![t].tid = tid]
  BY <1>2 DEF TakeFrame
<1>5. /\ t \in Frame /\ t <= published
      /\ \A u \in Frame : fate[u].received > 0 => u < t
  <2>1. 1 \in DOMAIN queue /\ t = queue[1] /\ t \in Frame
    BY <1>1
  <2> QED
    BY <2>1 DEF QueueInv
<1>6. /\ fate' \in [Frame -> Fates]
      /\ g = [f EXCEPT !.received = tick + 1, !.tid = tid]
      /\ \A u \in Frame \ {t} : fate'[u] = fate[u]
  <2>1. /\ g = [f EXCEPT !.received = tick + 1, !.tid = tid]
        /\ \A u \in Frame \ {t} : fate'[u] = fate[u]
    BY <1>1, <1>4, <1>5
  <2>2. f \in Fates
    BY <1>1, <1>5
  <2> HIDE DEF f
  <2>3. [f EXCEPT !.received = tick + 1, !.tid = tid] \in Fates
    <3>1. tick + 1 \in Nat /\ tid \in Threads \cup {"none"}
      BY <1>1
    <3> HIDE DEF Fates
    <3>2. [f EXCEPT !.received = tick + 1] \in Fates
      BY <2>2, <3>1 DEF Fates
    <3> DEFINE h == [f EXCEPT !.received = tick + 1]
    <3>3. [h EXCEPT !.tid = tid] \in Fates
      <4>1. h \in Fates
        BY <3>2
      <4> HIDE DEF h
      <4> QED
        BY <3>1, <4>1 DEF Fates
    <3> QED
      BY <3>3
  <2> QED
    BY <1>1, <1>4, <2>1, <2>3 DEF f
<1>7. /\ f \in Fates /\ f.received = 0 /\ f.started = 0 /\ f.finished = 0
      /\ f.outcome = "none" /\ 0 < f.published /\ f.published <= tick
  <2>1. FateInv(t) /\ f \in Fates
    BY <1>1, <1>5
  <2>2. ~(f.received > 0) /\ t \in Nat
    BY <1>0, <1>5
  <2> QED
    BY <1>5, <2>1, <2>2 DEF FateInv, Fates
<1>8. /\ g.published = f.published /\ g.received = tick + 1 /\ g.started = 0 /\ g.finished = 0
      /\ g.outcome = "none" /\ g.tid = tid
  BY <1>6, <1>7 DEF Fates
<1>9. busy' # Idle /\ busy' \in Plannings /\ busy'.trace = t /\ busy'.tid = tid
      /\ busy'.begun = tick + 1 /\ busy'.started = FALSE
  <2>1. t # 0 /\ busy'.trace = t /\ Idle.trace = 0
    BY <1>0, <1>3, <1>5 DEF Idle
  <2> QED
    BY <1>1, <1>3, <1>5, <2>1 DEF Plannings
<1> HIDE DEF t, f, g
<1>10. StageTypes'
  BY <1>1, <1>2, <1>6 DEF StageTypes
<1>11. ASSUME NEW u \in Frame PROVE FateInv(u)'
  <2>1. CASE u = t
    <3>1. fate'[u] = g /\ u <= published
      BY <1>5, <2>1 DEF g
    <3>2. /\ g.published > 0 /\ g.published <= tick + 1 /\ g.published \in Nat
          /\ g.received = tick + 1 /\ g.started = 0 /\ g.finished = 0 /\ g.outcome = "none"
      BY <1>1, <1>7, <1>8 DEF Fates
    <3>3. /\ tick' = tick + 1 /\ published' = published
          /\ busy' # Idle /\ busy'.trace = u
      BY <1>2, <1>9, <2>1
    <3>4. tick \in Nat /\ tick + 1 \in Nat /\ tick + 1 > 0
      BY <1>1
    <3>5. /\ g.published <= tick' /\ g.received <= tick' /\ g.started <= tick'
          /\ g.finished <= tick' /\ g.received > 0 /\ ~(g.received = 0)
          /\ ~(g.started > 0) /\ ~(g.finished > 0) /\ u <= published'
      BY <3>1, <3>2, <3>3, <3>4
    <3> QED
      BY <3>1, <3>2, <3>3, <3>5 DEF FateInv
  <2>2. CASE u # t
    <3>1. fate'[u] = fate[u] /\ FateInv(u) /\ fate[u] \in Fates
      BY <1>1, <1>6, <2>2
    <3>2. /\ tick \in Nat /\ tick' = tick + 1 /\ published' = published
          /\ busy = Idle
      BY <1>1, <1>2
    <3>3. /\ fate[u].published <= tick' /\ fate[u].received <= tick'
          /\ fate[u].started <= tick' /\ fate[u].finished <= tick'
      BY <3>1, <3>2 DEF FateInv, Fates
    <3>4. ~(fate[u].received > 0 /\ fate[u].finished = 0)
      BY <3>1, <3>2 DEF FateInv
    <3> QED
      BY <3>1, <3>2, <3>3, <3>4 DEF FateInv
  <2> QED
    BY <2>1, <2>2
<1>12. BusyInv'
  BY <1>1, <1>8, <1>9 DEF BusyInv, g
<1>13. ASSUME NEW u \in Frame, fate[u].received > 0
       PROVE  u < t /\ 0 < fate[u].finished /\ fate[u].finished < tick + 1
  <2>1. FateInv(u) /\ fate[u] \in Fates
    BY <1>1
  <2>2. fate[u].finished <= tick
    BY <2>1 DEF FateInv
  <2>3. fate[u].finished # 0
    BY <1>1, <1>13, <2>1 DEF FateInv
  <2>4. fate[u].finished \in Nat
    BY <2>1 DEF Fates
  <2>5. 0 < fate[u].finished /\ fate[u].finished < tick + 1
    BY <1>1, <2>2, <2>3, <2>4
  <2> QED
    BY <1>5, <1>13, <2>5
<1>14. InTurn'
  <2> SUFFICES ASSUME NEW v \in Frame, NEW u \in Frame, u # v,
                      fate'[u].received > 0, fate'[u].received <= fate'[v].received
               PROVE  u < v /\ 0 < fate'[u].finished /\ fate'[u].finished < fate'[v].received
    BY DEF InTurn
  <2>1. CASE u = t
    <3>1. fate'[v] = fate[v] /\ fate[v] \in Fates /\ FateInv(v)
      BY <1>1, <1>6, <2>1
    <3>2. fate'[v].received <= tick
      BY <3>1 DEF FateInv
    <3>3. fate'[v].received \in Nat
      BY <3>1 DEF Fates
    <3>4. fate'[u].received = tick + 1
      BY <1>8, <2>1 DEF g
    <3> QED
      BY <1>1, <3>2, <3>3, <3>4
  <2>2. CASE v = t
    BY <1>6, <1>8, <1>13, <2>2 DEF g
  <2>3. CASE u # t /\ v # t
    BY <1>6, <2>3 DEF InTurn
  <2> QED
    BY <2>1, <2>2, <2>3
<1>15. QueueInv'
  <2>1. /\ queue' \in Seq(Frame) /\ DOMAIN queue' \subseteq Nat
        /\ \A i \in DOMAIN queue' : i + 1 \in DOMAIN queue /\ queue'[i] = queue[i + 1]
    BY <1>1, <1>2
  <2>2. \A i \in DOMAIN queue' : t < queue'[i]
    <3> SUFFICES ASSUME NEW i \in DOMAIN queue' PROVE t < queue'[i]
      OBVIOUS
    <3>1. 1 \in DOMAIN queue /\ t = queue[1] /\ i + 1 \in DOMAIN queue /\ 1 < i + 1
          /\ queue'[i] = queue[i + 1]
      <4>1. 1 \in DOMAIN queue /\ t = queue[1]
        BY <1>1 DEF t
      <4>2. i \in Nat /\ i > 0
        BY <2>1
      <4> QED
        BY <2>1, <4>1, <4>2
    <3> QED
      BY <3>1 DEF QueueInv
  <2>3. ASSUME NEW i \in DOMAIN queue', NEW u \in Frame, fate'[u].received > 0
        PROVE  u < queue'[i]
    <3>1. t < queue'[i] /\ t \in Nat /\ queue'[i] \in Nat /\ u \in Nat
      BY <1>0, <1>5, <2>1, <2>2
    <3>2. u = t \/ u < t
      BY <1>5, <1>6, <2>3
    <3> QED
      BY <3>1, <3>2
  <2>4. \A i, j \in DOMAIN queue' : i < j => i + 1 < j + 1
    BY <2>1
  <2> QED
    BY <1>2, <2>1, <2>3, <2>4 DEF QueueInv
<1>16. ProbeInv'
  <2> SUFFICES ASSUME NEW e \in probes
               PROVE  /\ e.at \in Nat /\ e.at <= tick'
                      /\ \A v \in Frame :
                           LET h == fate'[v]
                           IN h.tid = e.tid /\ h.received > 0 /\ h.received <= e.at
                              /\ (h.finished = 0 \/ e.at <= h.finished) => e.trace = v
                      /\ e.planned =>
                           /\ e.trace \in Frame
                           /\ LET h == fate'[e.trace]
                              IN h.tid = e.tid /\ 0 < h.started /\ h.started <= e.at
                                 /\ (h.finished = 0 \/ e.at < h.finished)
    BY <1>2 DEF ProbeInv
  <2>1. e.at \in Nat /\ e.at <= tick /\ e.at <= tick'
    BY <1>1, <1>2 DEF ProbeInv
  <2>2. g.received > e.at
    BY <1>1, <1>8, <2>1
  <2>3. e.planned => e.trace # t
    BY <1>1, <1>7 DEF ProbeInv, f
  <2>4. ~(g.received <= e.at)
    BY <1>1, <1>8, <2>1
  <2>5. ASSUME NEW v \in Frame, fate'[v].received <= e.at PROVE fate'[v] = fate[v]
    BY <1>6, <2>4, <2>5 DEF g
  <2>6. e.planned => fate'[e.trace] = fate[e.trace]
    BY <1>6, <2>3 DEF ProbeInv
  <2> QED
    BY <2>1, <2>5, <2>6 DEF ProbeInv
<1>17. LogsInv'
  <2>1. row \in StageRows
    BY <1>1 DEF Row, StageRows, StageNames
  <2> DEFINE list == <<row>>
  <2>2. list \in [1 .. 1 -> StageRows] /\ list[1] = row
    BY <2>1
  <2>3. Write(t, list)
    BY <1>2 DEF TakeFrame, t
  <2>4. row.stage = "planner_receive" /\ row.at = tick + 1 /\ row.duration = 0 /\ row.tid = tid
    BY DEF Row
  <2> HIDE DEF list, row
  <2>5. Tells(list, 1, f, g)
    <3>1. RowOf(row, g)
      BY <1>1, <1>8, <2>4 DEF RowOf
    <3>2. \A r \in StageRows : RowOf(r, f) => r.stage = "camera_frame_published" /\ RowOf(r, g)
      BY <1>7, <1>8 DEF RowOf
    <3>3. \A name \in StageNames : Owes(name, g) => Owes(name, f) \/ HasRow(list, name)
      BY <1>7, <1>8, <2>2, <2>4 DEF Owes, HasRow
    <3> QED
      BY <2>2, <2>4, <3>1, <3>2, <3>3 DEF Tells
  <2> QED
    BY <1>5, <1>6, <2>2, <2>3, <2>5, LogStep DEF f, g
<1> QED
  BY <1>10, <1>11, <1>12, <1>14, <1>15, <1>16, <1>17

LEMMA StageStart == StageInv /\ StartPlanning => StageInv'
<1> SUFFICES ASSUME StageInv, StartPlanning PROVE StageInv'
  OBVIOUS
<1> USE DEF StageInv
<1> DEFINE t == busy.trace
           f == fate[t]
           g == fate'[t]
           row == Row("planner_process_start", tick + 1, 0, busy.tid)
<1>0. NumFrames \in Nat /\ \A u \in Frame : u \in Nat /\ u > 0 /\ u <= NumFrames
  BY StageAssumption DEF Frame
<1>1. /\ tick \in Nat /\ published \in Nat /\ fate \in [Frame -> Fates]
      /\ busy # Idle /\ busy \in Plannings /\ busy.started = FALSE
  BY DEF StageTypes, StartPlanning, BusyInv, Plannings
<1>2. tick' = tick + 1 /\ published' = published /\ probes' = probes /\ queue' = queue
  BY DEF StartPlanning, Tick
<1>3. busy' = [busy EXCEPT !.started = TRUE]
  BY DEF StartPlanning
<1>4. fate' = [fate EXCEPT ![t].started = tick + 1]
  BY <1>2 DEF StartPlanning
<1>5. t \in Frame /\ busy.tid \in Threads
  BY <1>1 DEF Plannings
<1>6. /\ fate' \in [Frame -> Fates]
      /\ g = [f EXCEPT !.started = tick + 1]
      /\ \A u \in Frame \ {t} : fate'[u] = fate[u]
  <2>1. g = [f EXCEPT !.started = tick + 1] /\ \A u \in Frame \ {t} : fate'[u] = fate[u]
    BY <1>1, <1>4, <1>5
  <2>2. f \in Fates
    BY <1>1, <1>5
  <2> HIDE DEF f
  <2>3. [f EXCEPT !.started = tick + 1] \in Fates
    BY <1>1, <2>2 DEF Fates
  <2> QED
    BY <1>1, <1>4, <2>1, <2>3 DEF f
<1>7. /\ f \in Fates /\ 0 < f.received /\ f.received <= tick /\ f.started = 0 /\ f.finished = 0
      /\ f.outcome = "none" /\ f.published <= tick /\ f.tid = busy.tid
      /\ f.received = busy.begun
  <2>1. FateInv(t) /\ f \in Fates
    BY <1>1, <1>5
  <2> QED
    BY <1>1, <1>5, <2>1 DEF FateInv, Fates, BusyInv
<1>8. /\ g.published = f.published /\ g.received = f.received /\ g.started = tick + 1
      /\ g.finished = 0 /\ g.outcome = "none" /\ g.tid = f.tid
  BY <1>6, <1>7 DEF Fates
<1>9. /\ busy' # Idle /\ busy' \in Plannings /\ busy'.trace = t /\ busy'.tid = busy.tid
      /\ busy'.begun = busy.begun /\ busy'.started = TRUE
  <2>1. /\ busy'.trace = t /\ busy'.tid = busy.tid /\ busy'.begun = busy.begun
        /\ busy'.started = TRUE /\ busy' \in Plannings
    BY <1>1, <1>3 DEF Plannings
  <2>2. t # 0 /\ Idle.trace = 0
    BY <1>0, <1>5 DEF Idle
  <2> QED
    BY <2>1, <2>2
<1> HIDE DEF t, f, g
<1>10. StageTypes'
  BY <1>1, <1>2, <1>6 DEF StageTypes
<1>11. ASSUME NEW u \in Frame PROVE FateInv(u)'
  <2>1. CASE u = t
    <3>1. fate'[u] = g /\ FateInv(t) /\ fate[u] = f
      BY <2>1 DEF g, f
    <3> QED
      BY <1>1, <1>2, <1>7, <1>8, <1>9, <2>1, <3>1 DEF FateInv, Fates
  <2>2. CASE u # t
    <3>1. fate'[u] = fate[u] /\ FateInv(u) /\ fate[u] \in Fates
      BY <1>1, <1>6, <2>2
    <3>2. ~(fate[u].received > 0 /\ fate[u].finished = 0)
      BY <2>2, <3>1 DEF FateInv, t
    <3> QED
      BY <1>1, <1>2, <3>1, <3>2 DEF FateInv, Fates
  <2> QED
    BY <2>1, <2>2
<1>12. BusyInv'
  BY <1>1, <1>7, <1>8, <1>9 DEF BusyInv, g
<1>13. \A u \in Frame : /\ fate'[u].received = fate[u].received
                        /\ fate'[u].finished = fate[u].finished
                        /\ fate'[u].tid = fate[u].tid
  BY <1>6, <1>7, <1>8 DEF f, g
<1>14. InTurn'
  BY <1>13 DEF InTurn
<1>15. QueueInv'
  BY <1>2, <1>13 DEF QueueInv
<1>16. ProbeInv'
  <2>1. \A e \in probes : e.at \in Nat /\ e.at <= tick'
    BY <1>1, <1>2 DEF ProbeInv
  <2>2. ASSUME NEW e \in probes, e.planned PROVE e.trace \in Frame \ {t}
    BY <1>7, <2>2 DEF ProbeInv, f
  <2>3. \A e \in probes : e.planned => fate'[e.trace] = fate[e.trace]
    BY <1>6, <2>2
  <2> QED
    BY <1>2, <1>13, <2>1, <2>3 DEF ProbeInv
<1>17. LogsInv'
  <2>1. row \in StageRows
    BY <1>1, <1>5 DEF Row, StageRows, StageNames
  <2> DEFINE list == <<row>>
  <2>2. list \in [1 .. 1 -> StageRows] /\ list[1] = row
    BY <2>1
  <2>3. Write(t, list)
    BY <1>2 DEF StartPlanning, t
  <2>4. /\ row.stage = "planner_process_start" /\ row.at = tick + 1 /\ row.duration = 0
        /\ row.tid = f.tid
    BY <1>7 DEF Row
  <2> HIDE DEF list, row
  <2>5. Tells(list, 1, f, g)
    <3>1. RowOf(row, g)
      BY <1>1, <1>8, <2>4 DEF RowOf
    <3>2. \A r \in StageRows : RowOf(r, f) => r.stage # "planner_process_start" /\ RowOf(r, g)
      BY <1>7, <1>8 DEF RowOf, EndStages
    <3>3. \A name \in StageNames : Owes(name, g) => Owes(name, f) \/ HasRow(list, name)
      BY <1>7, <1>8, <2>2, <2>4 DEF Owes, HasRow
    <3> QED
      BY <1>7, <2>2, <2>4, <3>1, <3>2, <3>3 DEF Tells
  <2> QED
    BY <1>5, <1>6, <2>2, <2>3, <2>5, LogStep DEF f, g
<1> QED
  BY <1>10, <1>11, <1>12, <1>14, <1>15, <1>16, <1>17

LEMMA Prepend ==
  ASSUME NEW R, NEW a \in R, NEW b \in R, NEW c \in R
  PROVE  <<a>> \o <<b, c>> = <<a, b, c>>
<1> DEFINE s == <<a>> \o <<b, c>>
<1>1. s \in Seq(R) /\ Len(s) = 3 /\ s[1] = a /\ s[2] = b /\ s[3] = c
  OBVIOUS
<1> HIDE DEF s
<1>2. s = [i \in 1 .. 3 |-> s[i]]
  BY <1>1
<1>3. s = <<a, b, c>>
  BY <1>1, <1>2
<1> QED
  BY <1>3 DEF s

\* The rows of an end, by the stages they are of: the command's own is among
\* them only when the planning came to one.
StampedRows(k, stamps, at, d, tid) ==
  [i \in 1 .. k |-> Row(stamps[i], at, IF stamps[i] = "planner_publish" THEN 0 ELSE d, tid)]

Stamps(k, stamps, outcome) ==
  /\ \A i, j \in 1 .. k : stamps[i] = stamps[j] => i = j
  /\ \A i \in 1 .. k : stamps[i] \in EndStages
                        \/ (stamps[i] = "planner_publish" /\ outcome = "planned")
  /\ \E i \in 1 .. k : stamps[i] = "planner_process_end"
  /\ outcome = "planned" => \E i \in 1 .. k : stamps[i] = "planner_publish"

LEMMA EndRows ==
  ASSUME NEW at \in Nat, NEW d \in Nat, NEW tid \in Threads,
         tid = busy.tid, d = at - busy.begun,
         NEW outcome \in {"planned", "rejected", "failed"}
  PROVE  \E k \in 1 .. 3 : \E stamps \in [1 .. k -> StageNames] :
            /\ Ended(outcome, at) = StampedRows(k, stamps, at, d, tid)
            /\ Stamps(k, stamps, outcome)
<1> DEFINE row(name) == Row(name, at, d, tid)
<1>1. \A name \in StageNames, m \in Nat : Row(name, at, m, tid) \in StageRows
  BY DEF Row, StageRows
<1>2. CASE outcome = "planned"
  <2> DEFINE stamps == <<"planner_process_end", "planner_publish">>
             list == StampedRows(2, stamps, at, d, tid)
  <2>1. Ended(outcome, at) = <<row("planner_process_end"), Row("planner_publish", at, 0, tid)>>
    BY <1>2 DEF Ended
  <2>2. /\ DOMAIN stamps = 1 .. 2 /\ stamps[1] = "planner_process_end" /\ stamps[2] = "planner_publish"
        /\ stamps \in [1 .. 2 -> StageNames]
    BY DEF StageNames, EndStages
  <2> HIDE DEF stamps
  <2>3. list[1] = row("planner_process_end") /\ list[2] = Row("planner_publish", at, 0, tid)
        /\ list = [i \in 1 .. 2 |-> list[i]]
    BY <2>2 DEF StampedRows
  <2> HIDE DEF list
  <2>4. <<list[1], list[2]>> = list
    BY <2>3
  <2>5. Ended(outcome, at) = list
    BY <2>1, <2>3, <2>4
  <2> USE DEF list
  <2>6. \A i \in 1 .. 2 : i = 1 \/ i = 2
    OBVIOUS
  <2>7. 1 \in 1 .. 2 /\ 2 \in 1 .. 2 /\ 2 \in 1 .. 3
    OBVIOUS
  <2>8. "planner_process_end" # "planner_publish"
    OBVIOUS
  <2>9. \A i, j \in 1 .. 2 : stamps[i] = stamps[j] => i = j
    BY <2>2, <2>6, <2>8
  <2>10. \A i \in 1 .. 2 : stamps[i] \in EndStages
                           \/ (stamps[i] = "planner_publish" /\ outcome = "planned")
    BY <1>2, <2>2, <2>6 DEF EndStages
  <2> QED
    BY <2>2, <2>5, <2>7, <2>9, <2>10 DEF Stamps
<1>3. CASE outcome # "planned"
  <2> DEFINE first == IF outcome = "rejected" THEN "planner_request_rejected"
                      ELSE "planner_backend_failure"
             stamps == <<first, "planner_process_end", "planner_command_abstained">>
             list == StampedRows(3, stamps, at, d, tid)
  <2>0. first \in {"planner_request_rejected", "planner_backend_failure"}
    OBVIOUS
  <2>1. Ended(outcome, at)
          = <<row(first)>> \o <<row("planner_process_end"), row("planner_command_abstained")>>
    BY <1>3 DEF Ended
  <2> HIDE DEF first
  <2>2. /\ DOMAIN stamps = 1 .. 3 /\ stamps[1] = first /\ stamps[2] = "planner_process_end"
        /\ stamps[3] = "planner_command_abstained"
        /\ stamps \in [1 .. 3 -> StageNames]
    BY <2>0 DEF StageNames, EndStages
  <2> HIDE DEF stamps
  <2>a. "planner_process_end" \in StageNames /\ "planner_command_abstained" \in StageNames
        /\ first \in StageNames
    BY <2>0 DEF StageNames, EndStages
  <2>b. row(first) \in StageRows /\ row("planner_process_end") \in StageRows
        /\ row("planner_command_abstained") \in StageRows
    BY <1>1, <2>a
  <2>c. Ended(outcome, at)
          = <<row(first), row("planner_process_end"), row("planner_command_abstained")>>
    BY <2>1, <2>b, Prepend
  <2>3. /\ list[1] = row(first) /\ list[2] = row("planner_process_end")
        /\ list[3] = row("planner_command_abstained")
        /\ list = [i \in 1 .. 3 |-> list[i]]
    BY <2>0, <2>2 DEF StampedRows
  <2> HIDE DEF list
  <2>4. <<list[1], list[2], list[3]>> = list
    BY <2>3
  <2>5. Ended(outcome, at) = list
    BY <2>c, <2>3, <2>4
  <2> USE DEF list
  <2>6. \A i \in 1 .. 3 : i = 1 \/ i = 2 \/ i = 3
    OBVIOUS
  <2>7. 1 \in 1 .. 3 /\ 2 \in 1 .. 3 /\ 3 \in 1 .. 3
    OBVIOUS
  <2>8. /\ first # "planner_process_end" /\ first # "planner_command_abstained"
        /\ "planner_process_end" # "planner_command_abstained"
    BY <2>0
  <2>9. \A i, j \in 1 .. 3 : stamps[i] = stamps[j] => i = j
    BY <2>2, <2>6, <2>8
  <2>10. \A i \in 1 .. 3 : stamps[i] \in EndStages
    BY <2>0, <2>2, <2>6 DEF EndStages
  <2> QED
    BY <1>3, <2>2, <2>5, <2>7, <2>9, <2>10 DEF Stamps
<1> QED
  BY <1>2, <1>3

LEMMA StageFinish ==
  ASSUME StageInv, NEW outcome \in {"planned", "rejected", "failed"}, FinishPlanning(outcome)
  PROVE  StageInv'
<1> USE DEF StageInv
<1> DEFINE t == busy.trace
           f == fate[t]
           g == fate'[t]
           d == (tick + 1) - busy.begun
<1>0. NumFrames \in Nat /\ \A u \in Frame : u \in Nat /\ u > 0 /\ u <= NumFrames
  BY StageAssumption DEF Frame
<1>1. /\ tick \in Nat /\ published \in Nat /\ fate \in [Frame -> Fates]
      /\ busy # Idle /\ busy \in Plannings /\ busy.started = (outcome # "rejected")
  BY DEF StageTypes, FinishPlanning, BusyInv
<1>2. /\ tick' = tick + 1 /\ published' = published /\ probes' = probes /\ queue' = queue
      /\ busy' = Idle
  BY DEF FinishPlanning, Tick
<1>4. fate' = [fate EXCEPT ![t].finished = tick + 1, ![t].outcome = outcome]
  BY <1>2 DEF FinishPlanning
<1>5. t \in Frame /\ busy.tid \in Threads
  BY <1>1 DEF Plannings
<1>6. /\ fate' \in [Frame -> Fates]
      /\ g = [f EXCEPT !.finished = tick + 1, !.outcome = outcome]
      /\ \A u \in Frame \ {t} : fate'[u] = fate[u]
  <2>1. /\ g = [f EXCEPT !.finished = tick + 1, !.outcome = outcome]
        /\ \A u \in Frame \ {t} : fate'[u] = fate[u]
    BY <1>1, <1>4, <1>5
  <2>2. f \in Fates
    BY <1>1, <1>5
  <2> HIDE DEF f
  <2>3. [f EXCEPT !.finished = tick + 1, !.outcome = outcome] \in Fates
    <3>1. tick + 1 \in Nat /\ outcome \in {"none", "planned", "rejected", "failed"}
      BY <1>1
    <3> DEFINE h == [f EXCEPT !.finished = tick + 1]
    <3>2. h \in Fates
      BY <2>2, <3>1 DEF Fates
    <3> HIDE DEF h
    <3>3. [h EXCEPT !.outcome = outcome] \in Fates
      BY <3>1, <3>2 DEF Fates
    <3> QED
      BY <3>3 DEF h
  <2> QED
    BY <1>1, <1>4, <2>1, <2>3 DEF f
<1>7. /\ f \in Fates /\ 0 < f.received /\ f.received <= tick /\ f.finished = 0
      /\ f.outcome = "none" /\ f.published <= tick /\ f.started <= tick /\ f.tid = busy.tid
      /\ f.received = busy.begun /\ (f.started = 0 <=> outcome = "rejected")
      /\ (f.started > 0 => f.received < f.started)
  <2>1. FateInv(t) /\ f \in Fates
    BY <1>1, <1>5
  <2>2. busy.started <=> outcome # "rejected"
    BY <1>1
  <2>3. f.tid = busy.tid /\ f.received = busy.begun /\ f.received > 0 /\ f.finished = 0
        /\ (busy.started <=> f.started > 0)
    BY <1>1 DEF BusyInv
  <2>4. f.started = 0 <=> outcome = "rejected"
    BY <2>1, <2>2, <2>3 DEF Fates
  <2> QED
    BY <1>1, <2>1, <2>3, <2>4 DEF FateInv, Fates
<1>8. /\ g.published = f.published /\ g.received = f.received /\ g.started = f.started
      /\ g.finished = tick + 1 /\ g.outcome = outcome /\ g.tid = f.tid
  BY <1>6, <1>7 DEF Fates
<1>9. d \in Nat /\ d = g.finished - g.received
  BY <1>1, <1>7, <1>8 DEF Fates
<1> HIDE DEF t, f, g, d
<1>10. StageTypes'
  BY <1>1, <1>2, <1>6 DEF StageTypes
<1>11. ASSUME NEW u \in Frame PROVE FateInv(u)'
  <2>1. CASE u = t
    <3>1. fate'[u] = g /\ FateInv(t) /\ fate[u] = f
      BY <2>1 DEF g, f
    <3>2. /\ g.published <= tick' /\ g.received <= tick' /\ g.started <= tick'
          /\ g.finished <= tick' /\ g.received < g.finished /\ g.started < g.finished
      BY <1>1, <1>2, <1>7, <1>8 DEF Fates
    <3>3. (f.published > 0 <=> t <= published) /\ (f.received > 0 => f.published > 0)
      BY <3>1, <2>1 DEF FateInv
    <3> QED
      BY <1>1, <1>2, <1>7, <1>8, <2>1, <3>1, <3>2, <3>3 DEF FateInv, Fates
  <2>2. CASE u # t
    <3>1. fate'[u] = fate[u] /\ FateInv(u) /\ fate[u] \in Fates
      BY <1>1, <1>6, <2>2
    <3>2. ~(fate[u].received > 0 /\ fate[u].finished = 0)
      BY <2>2, <3>1 DEF FateInv, t
    <3> QED
      BY <1>1, <1>2, <3>1, <3>2 DEF FateInv, Fates
  <2> QED
    BY <2>1, <2>2
<1>12. BusyInv'
  BY <1>2 DEF BusyInv
<1>13. \A u \in Frame : /\ fate'[u].received = fate[u].received
                        /\ fate'[u].started = fate[u].started
                        /\ fate'[u].tid = fate[u].tid
                        /\ fate[u].finished > 0 => fate'[u].finished = fate[u].finished
  <2> TAKE u \in Frame
  <2>1. CASE u = t
    BY <1>7, <1>8, <2>1 DEF f, g
  <2>2. CASE u # t
    BY <1>6, <2>2
  <2> QED
    BY <2>1, <2>2
<1>14. InTurn'
  BY <1>13 DEF InTurn
<1>15. QueueInv'
  BY <1>2, <1>13 DEF QueueInv
<1>16. ProbeInv'
  <2> SUFFICES ASSUME NEW e \in probes
               PROVE  /\ e.at \in Nat /\ e.at <= tick'
                      /\ \A v \in Frame :
                           LET h == fate'[v]
                           IN h.tid = e.tid /\ h.received > 0 /\ h.received <= e.at
                              /\ (h.finished = 0 \/ e.at <= h.finished) => e.trace = v
                      /\ e.planned =>
                           /\ e.trace \in Frame
                           /\ LET h == fate'[e.trace]
                              IN h.tid = e.tid /\ 0 < h.started /\ h.started <= e.at
                                 /\ (h.finished = 0 \/ e.at < h.finished)
    BY <1>2 DEF ProbeInv
  <2>1. e.at \in Nat /\ e.at <= tick /\ e.at <= tick' /\ e.at < tick + 1
    BY <1>1, <1>2 DEF ProbeInv
  <2>2. ASSUME NEW v \in Frame, fate'[v].tid = e.tid, fate'[v].received > 0,
               fate'[v].received <= e.at, fate'[v].finished = 0 \/ e.at <= fate'[v].finished
        PROVE  e.trace = v
    <3>1. CASE v = t
      BY <1>7, <1>13, <2>2, <3>1 DEF ProbeInv, f
    <3>2. CASE v # t
      BY <1>6, <2>2, <3>2 DEF ProbeInv
    <3> QED
      BY <3>1, <3>2
  <2>3. ASSUME e.planned
        PROVE  /\ e.trace \in Frame
               /\ LET h == fate'[e.trace]
                  IN h.tid = e.tid /\ 0 < h.started /\ h.started <= e.at
                     /\ (h.finished = 0 \/ e.at < h.finished)
    <3>1. e.trace \in Frame
      BY <2>3 DEF ProbeInv
    <3>2. /\ fate[e.trace].tid = e.tid /\ 0 < fate[e.trace].started
          /\ fate[e.trace].started <= e.at
          /\ fate[e.trace].finished = 0 \/ e.at < fate[e.trace].finished
      BY <2>3 DEF ProbeInv
    <3>3. CASE e.trace = t
      <4>1. e.at < fate'[e.trace].finished
        BY <1>8, <2>1, <3>3 DEF g
      <4> QED
        BY <1>13, <3>1, <3>2, <4>1
    <3>4. CASE e.trace # t
      BY <1>6, <3>1, <3>2, <3>4
    <3> QED
      BY <3>3, <3>4
  <2> QED
    BY <2>1, <2>2, <2>3
<1>17. LogsInv'
  <2>1. tick + 1 \in Nat
    BY <1>1
  <2>a. PICK k \in 1 .. 3 : \E stamps \in [1 .. k -> StageNames] :
            /\ Ended(outcome, tick + 1) = StampedRows(k, stamps, tick + 1, d, busy.tid)
            /\ Stamps(k, stamps, outcome)
    <3>1. d = (tick + 1) - busy.begun /\ d \in Nat
      BY <1>9 DEF d
    <3> DEFINE at == tick + 1
               tid == busy.tid
    <3>2. at \in Nat /\ tid \in Threads /\ tid = busy.tid /\ d = at - busy.begun
      BY ONLY <1>5, <2>1, <3>1
    <3> HIDE DEF at, tid
    <3>3. \E k \in 1 .. 3 : \E stamps \in [1 .. k -> StageNames] :
            /\ Ended(outcome, at) = StampedRows(k, stamps, at, d, tid)
            /\ Stamps(k, stamps, outcome)
      BY <3>1, <3>2, EndRows
    <3> QED
      BY <3>3 DEF at, tid
  <2>2. PICK stamps \in [1 .. k -> StageNames] :
            /\ Ended(outcome, tick + 1) = StampedRows(k, stamps, tick + 1, d, busy.tid)
            /\ Stamps(k, stamps, outcome)
    BY <2>a
  <2> DEFINE lasted(i) == IF stamps[i] = "planner_publish" THEN 0 ELSE d
             list == StampedRows(k, stamps, tick + 1, d, busy.tid)
  <2>4. Ended(outcome, tick + 1) = list
    BY <2>2
  <2>5. Write(t, list)
    BY <1>2, <2>4 DEF FinishPlanning, t
  <2>6. ASSUME NEW i \in 1 .. k
        PROVE  /\ list[i] \in StageRows /\ list[i].stage = stamps[i] /\ list[i].at = g.finished
               /\ list[i].duration = lasted(i) /\ list[i].tid = g.tid
    <3>1. stamps[i] \in StageNames /\ lasted(i) \in Nat
      BY <1>9
    <3>2. list[i] = Row(stamps[i], tick + 1, lasted(i), busy.tid)
      BY DEF StampedRows
    <3> HIDE DEF list, lasted
    <3>3. list[i] \in StageRows
      BY <1>5, <2>1, <3>1, <3>2 DEF Row, StageRows
    <3> QED
      BY <1>7, <1>8, <3>2, <3>3 DEF Row
  <2>7. list \in [1 .. k -> StageRows] /\ DOMAIN list = 1 .. k
    BY <2>6 DEF StampedRows
  <2>8. /\ \A i, j \in 1 .. k : stamps[i] = stamps[j] => i = j
        /\ \A i \in 1 .. k : stamps[i] \in EndStages
                              \/ (stamps[i] = "planner_publish" /\ outcome = "planned")
        /\ \E i \in 1 .. k : stamps[i] = "planner_process_end"
        /\ outcome = "planned" => \E i \in 1 .. k : stamps[i] = "planner_publish"
    BY <2>2 DEF Stamps
  <2> HIDE DEF list
  <2>9. Tells(list, k, f, g)
    <3>1. ASSUME NEW i \in 1 .. k PROVE RowOf(list[i], g)
      <4>1. CASE stamps[i] \in EndStages
        <5>1. lasted(i) = d
          BY <4>1 DEF EndStages
        <5>2. g.finished > 0
          BY <1>1, <1>8
        <5> QED
          BY <1>9, <2>6, <4>1, <5>1, <5>2 DEF RowOf
      <4>2. CASE stamps[i] = "planner_publish" /\ outcome = "planned"
        <5>1. g.finished > 0 /\ g.outcome = "planned" /\ lasted(i) = 0
          BY <1>1, <1>8, <4>2
        <5> QED
          BY <2>6, <4>2, <5>1 DEF RowOf
      <4> QED
        BY <2>8, <4>1, <4>2
    <3>2. ASSUME NEW r \in StageRows, RowOf(r, f)
          PROVE  /\ RowOf(r, g) /\ r.stage \notin EndStages /\ r.stage # "planner_publish"
      BY <1>7, <1>8, <3>2 DEF RowOf, EndStages
    <3>3. \A i \in 1 .. k : list[i].stage # "planner_process_start"
      BY <2>6, <2>8 DEF EndStages
    <3>4. ASSUME NEW name \in StageNames, Owes(name, g)
          PROVE  Owes(name, f) \/ HasRow(list, name)
      <4>1. Owes(name, f) \/ name = "planner_process_end"
            \/ (name = "planner_publish" /\ outcome = "planned")
        BY <1>8, <3>4 DEF Owes
      <4>2. \A i \in 1 .. k : stamps[i] = name => HasRow(list, name)
        BY <2>6, <2>7 DEF HasRow
      <4> QED
        BY <2>8, <4>1, <4>2
    <3>5. \A i, j \in 1 .. k : list[i].stage = list[j].stage => i = j
      BY <2>6, <2>8
    <3>6. \A r \in StageRows : RowOf(r, f) =>
             RowOf(r, g) /\ \A i \in 1 .. k : r.stage # list[i].stage
      BY <2>6, <2>8, <3>2
    <3> QED
      BY <3>1, <3>3, <3>4, <3>5, <3>6 DEF Tells
  <2> QED
    BY <1>5, <1>6, <2>5, <2>7, <2>9, LogStep DEF f, g
<1> QED
  BY <1>10, <1>11, <1>12, <1>14, <1>15, <1>16, <1>17

LEMMA StageProbe ==
  ASSUME StageInv, NEW tid \in Threads, Probe(tid)
  PROVE  StageInv'
<1> USE DEF StageInv
<1>1. /\ tick \in Nat /\ fate \in [Frame -> Fates] /\ tick' = tick + 1
      /\ published' = published /\ queue' = queue /\ busy' = busy /\ fate' = fate
      /\ logged' = logged /\ rowFaults' = rowFaults
  BY DEF StageTypes, Probe, Tick
<1> DEFINE works == busy # Idle /\ busy.tid = tid
           new == [at |-> tick + 1, tid |-> tid,
                   trace |-> IF works THEN busy.trace ELSE 0,
                   planned |-> works /\ busy.started,
                   idle |-> busy = Idle]
<1>2. probes' = probes \cup {new}
  BY <1>1 DEF Probe
<1>3. /\ new.at = tick + 1 /\ new.tid = tid
      /\ works => new.trace = busy.trace
      /\ new.planned <=> works /\ busy.started
  OBVIOUS
<1> HIDE DEF new, works
<1>4. StageTypes' /\ BusyInv' /\ InTurn' /\ QueueInv'
  BY <1>1 DEF StageTypes, BusyInv, InTurn, QueueInv
<1>5. ASSUME NEW t \in Frame PROVE FateInv(t)'
  <2>1. FateInv(t) /\ fate[t] \in Fates
    BY <1>1
  <2> QED
    BY <1>1, <2>1 DEF FateInv, Fates
<1>6. ProbeInv'
  <2>1. ASSUME NEW e \in probes PROVE e.at \in Nat /\ e.at <= tick'
    BY <1>1 DEF ProbeInv
  <2>2. ASSUME NEW t \in Frame, fate[t].tid = tid, fate[t].received > 0,
               fate[t].finished = 0 \/ tick + 1 <= fate[t].finished
        PROVE  new.trace = t
    <3>1. FateInv(t) /\ fate[t] \in Fates
      BY <1>1
    <3>2. fate[t].finished = 0
      BY <1>1, <2>2, <3>1 DEF FateInv, Fates
    <3>3. busy # Idle /\ busy.trace = t
      BY <2>2, <3>1, <3>2 DEF FateInv
    <3> QED
      BY <1>3, <2>2, <3>3 DEF works, BusyInv
  <2>3. ASSUME new.planned
        PROVE  /\ new.trace \in Frame /\ fate[new.trace].tid = tid
               /\ 0 < fate[new.trace].started /\ fate[new.trace].started <= tick + 1
               /\ fate[new.trace].finished = 0
    <3>1. /\ busy # Idle /\ busy.started /\ new.trace = busy.trace /\ busy \in Plannings
          /\ busy.tid = tid
      BY <1>3, <2>3 DEF works, BusyInv
    <3>2. busy.trace \in Frame
      BY <3>1 DEF Plannings
    <3>3. FateInv(busy.trace) /\ fate[busy.trace] \in Fates
      BY <1>1, <3>2
    <3> QED
      BY <1>1, <3>1, <3>2, <3>3 DEF FateInv, Fates, BusyInv
  <2>4. /\ new.at \in Nat /\ new.at <= tick'
    BY <1>1, <1>3
  <2> QED
    BY <1>1, <1>2, <1>3, <2>1, <2>2, <2>3, <2>4 DEF ProbeInv
<1>7. LogsInv'
  BY <1>1 DEF LogsInv
<1> QED
  BY <1>4, <1>5, <1>6, <1>7

LEMMA StageStays == StageInv /\ UNCHANGED <<planning, logged, probes, rowFaults>> => StageInv'
  BY DEF StageInv, StageTypes, FateInv, BusyInv, InTurn, QueueInv, ProbeInv, LogsInv, planning

LEMMA StepStage == StageInv /\ [StageNext]_stages => StageInv'
<1> SUFFICES ASSUME StageInv, [StageNext]_stages PROVE StageInv'
  OBVIOUS
<1>1. CASE EndCapture \/ UNCHANGED stages
  BY <1>1, StageStays DEF EndCapture, stages
<1> QED
  BY <1>1, StagePublish, StageTake, StageStart, StageFinish, StageProbe DEF StageNext

-----------------------------------------------------------------------------
(* Stage windows and what they take.                                       *)

\* The time that a row of a stage tells.
When(name, f) ==
  CASE name = "camera_frame_published" -> f.published
    [] name = "planner_receive"        -> f.received
    [] name = "planner_process_start"  -> f.started
    [] OTHER                           -> f.finished

\* A window is that of a row, and only the pair of a start widens it.
LEMMA WindowTells ==
  ASSUME StageInv, NEW w \in Windows
  PROVE  /\ w.trace \in Frame /\ w.stage \in StageNames /\ w.from \in Nat
         /\ w.stage = "planner_process_start" =>
              LET f == fate[w.trace]
              IN f.started > 0 /\ w.from = f.started /\ w.tid = f.tid
                 /\ (w.to = w.from \/ (f.finished > 0 /\ w.to = f.finished))
         /\ w.stage \in EndStages =>
              LET f == fate[w.trace]
              IN f.finished > 0 /\ w.from = f.finished /\ w.tid = f.tid
         /\ w.stage # "planner_process_start" /\ w.stage \notin EndStages => w.to = w.from
<1> DEFINE to(t, i) == IF \E j \in DOMAIN logged[t] : <<i, j>> \in Paired(logged[t])
                       THEN logged[t][CHOOSE j \in DOMAIN logged[t] :
                                         <<i, j>> \in Paired(logged[t])].at
                       ELSE logged[t][i].at + logged[t][i].duration
<1>1. PICK t \in Frame : \E i \in DOMAIN logged[t] :
         w = [trace |-> t, stage |-> logged[t][i].stage, tid |-> logged[t][i].tid,
              from |-> logged[t][i].at, to |-> to(t, i)]
  BY DEF Windows
<1>2. PICK i \in DOMAIN logged[t] :
         w = [trace |-> t, stage |-> logged[t][i].stage, tid |-> logged[t][i].tid,
              from |-> logged[t][i].at, to |-> to(t, i)]
  BY <1>1
<1> DEFINE l == logged[t]
           row == l[i]
           f == fate[t]
<1>3. /\ w.trace = t /\ w.stage = row.stage /\ w.tid = row.tid /\ w.from = row.at
      /\ w.to = to(t, i)
  BY <1>2
<1>4. /\ l \in Seq(StageRows) /\ row \in StageRows /\ f \in Fates
      /\ \A j \in DOMAIN l : RowOf(l[j], f) /\ l[j] \in StageRows
  BY DEF StageInv, LogsInv, StageTypes
<1>5. Paired(l) \subseteq StartRowsIn(l) \X EndRowsIn(l)
  <2>1. Len(l) \in Nat /\ DOMAIN l = 1 .. Len(l)
    BY <1>4
  <2> HIDE DEF l
  <2> QED
    BY <2>1, PairedSound
<1>6. row.stage \in StageNames /\ row.at \in Nat /\ RowOf(row, f)
  BY <1>4 DEF StageRows
<1>7. CASE \E j \in DOMAIN l : <<i, j>> \in Paired(l)
  <2>1. PICK j \in DOMAIN l : <<i, j>> \in Paired(l) /\ to(t, i) = l[j].at
    <3> DEFINE q == CHOOSE j \in DOMAIN l : <<i, j>> \in Paired(l)
    <3>1. q \in DOMAIN l /\ <<i, q>> \in Paired(l)
      BY <1>7
    <3>2. to(t, i) = l[q].at
      BY <1>7
    <3> HIDE DEF q, to, l
    <3> QED
      BY <3>1, <3>2
  <2>2. i \in StartRowsIn(l) /\ j \in EndRowsIn(l)
    BY <1>5, <2>1
  <2>3. row.stage = "planner_process_start" /\ l[j].stage = "planner_process_end"
    BY <2>2 DEF StartRowsIn, EndRowsIn
  <2>4. f.started > 0 /\ row.at = f.started /\ row.tid = f.tid
    BY <1>6, <2>3 DEF RowOf, EndStages
  <2>5. f.finished > 0 /\ l[j].at = f.finished
    BY <1>4, <2>3 DEF RowOf, EndStages
  <2> HIDE DEF to, l, row, f
  <2> QED
    BY <1>3, <1>6, <2>1, <2>3, <2>4, <2>5 DEF f, EndStages
<1>8. CASE ~ \E j \in DOMAIN l : <<i, j>> \in Paired(l)
  <2>1. w.to = row.at + row.duration
    BY <1>3, <1>8
  <2>2. row.stage = "planner_process_start" =>
          f.started > 0 /\ row.at = f.started /\ row.tid = f.tid /\ row.duration = 0
    BY <1>6 DEF RowOf, EndStages
  <2>3. row.stage \in EndStages => f.finished > 0 /\ row.at = f.finished /\ row.tid = f.tid
    BY <1>6 DEF RowOf, EndStages
  <2>4. row.stage \notin EndStages => row.duration = 0
    BY <1>6 DEF RowOf
  <2> HIDE DEF to, l, row
  <2> QED
    BY <1>3, <1>6, <2>1, <2>2, <2>3, <2>4 DEF f
<1> QED
  BY <1>7, <1>8

\* In an undamaged capture a finished planning has its window.
LEMMA WindowThere ==
  ASSUME StageInv, NEW t \in Frame, rowFaults = 0, fate[t].started > 0, fate[t].finished > 0
  PROVE  \E w \in Windows : /\ w.trace = t /\ w.stage = "planner_process_start"
                            /\ w.tid = fate[t].tid
                            /\ w.from = fate[t].started /\ w.to = fate[t].finished
<1> DEFINE l == logged[t]
           f == fate[t]
<1>1. /\ l \in Seq(StageRows) /\ f \in Fates /\ Exact(l, f)
      /\ \A j \in DOMAIN l : RowOf(l[j], f) /\ l[j] \in StageRows
  BY DEF StageInv, LogsInv, StageTypes
<1>2. Len(l) \in Nat /\ DOMAIN l = 1 .. Len(l)
  BY <1>1
<1>3. PICK a \in DOMAIN l : l[a].stage = "planner_process_start"
  <2>1. Owes("planner_process_start", f) /\ "planner_process_start" \in StageNames
    BY DEF Owes, StageNames
  <2> QED
    BY <1>1, <2>1 DEF Exact, HasRow
<1>4. PICK b \in DOMAIN l : l[b].stage = "planner_process_end"
  <2>1. Owes("planner_process_end", f) /\ "planner_process_end" \in StageNames
    BY DEF Owes, StageNames, EndStages
  <2> QED
    BY <1>1, <2>1 DEF Exact, HasRow
<1>5. StartRowsIn(l) = {a} /\ EndRowsIn(l) = {b} /\ a < b
  BY <1>1, <1>3, <1>4 DEF StartRowsIn, EndRowsIn, Exact
<1>6. l[a].at = f.started /\ l[a].tid = f.tid /\ l[b].at = f.finished
  BY <1>1, <1>3, <1>4 DEF RowOf, EndStages
<1>7. <<a, b>> \in Paired(l) /\ Paired(l) \subseteq {a} \X {b}
  <2> HIDE DEF l
  <2>1. Paired(l) \subseteq StartRowsIn(l) \X EndRowsIn(l)
    BY <1>2, PairedSound
  <2>2. a \in 1 .. Len(l) /\ b \in 1 .. Len(l)
    BY <1>2
  <2>3. <<a, b>> \in Paired(l)
    BY <1>2, <1>5, <2>2, PairedOnce
  <2> QED
    BY <1>5, <2>1, <2>3
<1> DEFINE q == CHOOSE j \in DOMAIN l : <<a, j>> \in Paired(l)
<1>8. q = b
  <2>1. q \in DOMAIN l /\ <<a, q>> \in Paired(l)
    BY <1>7
  <2> HIDE DEF q
  <2> QED
    BY <1>7, <2>1
<1> DEFINE to(i) == IF \E j \in DOMAIN l : <<i, j>> \in Paired(l)
                    THEN l[CHOOSE j \in DOMAIN l : <<i, j>> \in Paired(l)].at
                    ELSE l[i].at + l[i].duration
           w == [trace |-> t, stage |-> l[a].stage, tid |-> l[a].tid, from |-> l[a].at,
                 to |-> to(a)]
<1>9. w \in Windows
  <2> DEFINE of(u) == {[trace |-> u, stage |-> logged[u][i].stage, tid |-> logged[u][i].tid,
                        from |-> logged[u][i].at,
                        to |-> IF \E j \in DOMAIN logged[u] : <<i, j>> \in Paired(logged[u])
                               THEN logged[u][CHOOSE j \in DOMAIN logged[u] :
                                                 <<i, j>> \in Paired(logged[u])].at
                               ELSE logged[u][i].at + logged[u][i].duration]
                       : i \in DOMAIN logged[u]}
  <2>1. Windows = UNION {of(u) : u \in Frame}
    BY DEF Windows
  <2>2. w \in of(t)
    OBVIOUS
  <2> HIDE DEF of, w
  <2> QED
    BY <2>1, <2>2
<1>10. to(a) = f.finished
  <2>1. to(a) = l[q].at
    BY <1>7
  <2> HIDE DEF to, q, l
  <2> QED
    BY <1>6, <1>8, <2>1
<1>11. /\ w.trace = t /\ w.stage = "planner_process_start" /\ w.tid = f.tid
       /\ w.from = f.started /\ w.to = f.finished
  BY <1>3, <1>6, <1>10
<1> HIDE DEF w
<1> QED
  BY <1>9, <1>11

Chosen(event, windows) == Best({w \in windows : Covers(w, event.at)}, event)
Targets(event, windows) == {<<w.trace, w.stage>> : w \in Chosen(event, windows)}

\* What is accepted is the one target of the windows chosen.
LEMMA Accepts ==
  ASSUME NEW event, NEW windows, Associate(event, windows).status = "accepted"
  PROVE  \E w \in Chosen(event, windows) : /\ Associate(event, windows).trace = w.trace
                                           /\ Associate(event, windows).stage = w.stage
<1> DEFINE targets == Targets(event, windows)
           only == CHOOSE target \in targets : TRUE
           d == Associate(event, windows)
<1>1. d = CASE targets = {} -> [status |-> "unmatched", trace |-> 0, stage |-> "none"]
            [] Cardinality(targets) > 1 ->
                 [status |-> "ambiguous", trace |-> 0, stage |-> "none"]
            [] OTHER -> [status |-> "accepted", trace |-> only[1], stage |-> only[2]]
  BY DEF Associate, Targets, Chosen
<1> HIDE DEF targets, only, d
<1>2. d.status = "accepted"
  BY DEF d
<1>3. targets # {} /\ d = [status |-> "accepted", trace |-> only[1], stage |-> only[2]]
  BY <1>1, <1>2
<1>4. only \in targets
  BY <1>3 DEF only
<1>5. PICK w \in Chosen(event, windows) : only = <<w.trace, w.stage>>
  BY <1>4 DEF targets, Targets
<1> QED
  BY <1>3, <1>5 DEF d

\* One target is accepted; more are ambiguous.
LEMMA TargetsDecide ==
  ASSUME NEW event, NEW windows, NEW x \in Targets(event, windows),
         IsFiniteSet(Targets(event, windows))
  PROVE  /\ Targets(event, windows) = {x} => /\ Associate(event, windows).status = "accepted"
                                            /\ Associate(event, windows).trace = x[1]
         /\ Targets(event, windows) # {x} => Associate(event, windows).status = "ambiguous"
<1> DEFINE targets == Targets(event, windows)
           only == CHOOSE target \in targets : TRUE
           d == Associate(event, windows)
<1>1. d = CASE targets = {} -> [status |-> "unmatched", trace |-> 0, stage |-> "none"]
            [] Cardinality(targets) > 1 ->
                 [status |-> "ambiguous", trace |-> 0, stage |-> "none"]
            [] OTHER -> [status |-> "accepted", trace |-> only[1], stage |-> only[2]]
  BY DEF Associate, Targets, Chosen
<1>2. targets # {} /\ IsFiniteSet(targets) /\ x \in targets
  OBVIOUS
<1> HIDE DEF targets, d
<1>3. CASE targets = {x}
  <2>1. Cardinality(targets) = 1
    BY <1>3, FS_Singleton
  <2>2. only = x
    BY <1>3
  <2> HIDE DEF only
  <2>3. d = [status |-> "accepted", trace |-> only[1], stage |-> only[2]]
    BY <1>1, <1>2, <2>1
  <2> QED
    BY <1>3, <2>2, <2>3 DEF d, targets
<1>4. CASE targets # {x}
  <2>1. PICK y \in targets : y # x
    BY <1>2, <1>4
  <2>2. {x, y} \subseteq targets /\ Cardinality({x, y}) = 2
    <3>1. {x, y} = {x} \cup {y} /\ {x, y} \subseteq targets
      BY <1>2, <2>1
    <3>2. IsFiniteSet({x}) /\ Cardinality({x}) = 1
      BY FS_Singleton
    <3>3. Cardinality({x} \cup {y}) = Cardinality({x}) + 1
      BY <2>1, <3>2, FS_AddElement
    <3> QED
      BY <3>1, <3>2, <3>3
  <2>3. Cardinality(targets) >= 2 /\ Cardinality(targets) \in Nat
    BY <1>2, <2>2, FS_Subset, FS_CardinalityType
  <2> HIDE DEF only
  <2>4. d = [status |-> "ambiguous", trace |-> 0, stage |-> "none"]
    BY <1>1, <1>2, <2>3
  <2> QED
    BY <1>4, <2>4 DEF d, targets
<1> QED
  BY <1>3, <1>4 DEF targets, d

LEMMA TargetsFinite ==
  ASSUME StageInv, NEW event
  PROVE  IsFiniteSet(Targets(event, Windows))
<1>1. Chosen(event, Windows) \subseteq Windows
  BY DEF Chosen, Best
<1>2. Targets(event, Windows) \subseteq Frame \X StageNames
  BY <1>1, WindowTells DEF Targets
<1>3. IsFiniteSet(Frame)
  BY FS_Interval, StageAssumption DEF Frame
<1>4. IsFiniteSet(StageNames)
  <2>1. StageNames = ((((((({} \cup {"camera_frame_published"}) \cup {"planner_receive"})
                      \cup {"planner_process_start"}) \cup {"planner_publish"})
                    \cup {"planner_process_end"}) \cup {"planner_command_abstained"})
                  \cup {"planner_request_rejected"}) \cup {"planner_backend_failure"}
    BY DEF StageNames, EndStages
  <2>2. IsFiniteSet({}) /\ \A T, x : IsFiniteSet(T) => IsFiniteSet(T \cup {x})
    BY FS_EmptySet, FS_AddElement
  <2> HIDE DEF StageNames
  <2> QED
    BY <2>1, <2>2
<1>5. IsFiniteSet(Frame \X StageNames)
  BY <1>3, <1>4, FS_Product
<1> QED
  BY <1>2, <1>5, FS_Subset

LEMMA Attributes == StageInv => AttributionSound
<1> SUFFICES ASSUME StageInv, NEW e \in probes
             PROVE  LET d == Associate(e, Windows)
                    IN /\ /\ d.status = "accepted" /\ d.stage = "planner_process_start"
                          /\ fate[d.trace].tid = e.tid
                          => e.trace = d.trace
                       /\ e.planned /\ fate[e.trace].finished > 0 /\ rowFaults = 0 =>
                             \/ d.status = "accepted" /\ d.trace = e.trace
                             \/ /\ d.status = "ambiguous"
                                /\ \E t \in 1 .. e.trace - 1 : fate[t].tid = e.tid
  BY DEF AttributionSound
<1> DEFINE d == Associate(e, Windows)
           chosen == Chosen(e, Windows)
<1>0. \A u \in Frame : u \in Nat /\ u > 0
  BY DEF Frame
<1>1. chosen \subseteq Windows /\ \A w \in chosen : Covers(w, e.at)
  BY DEF Chosen, Best
<1>2. fate \in [Frame -> Fates] /\ e.at \in Nat /\ \A u \in Frame : FateInv(u)
  BY DEF StageInv, StageTypes, ProbeInv
<1>3. ASSUME NEW w \in Windows, Covers(w, e.at), w.stage = "planner_process_start",
             fate[w.trace].tid = e.tid
      PROVE  e.trace = w.trace
  <2> DEFINE t == w.trace
             f == fate[t]
  <2>1. /\ t \in Frame /\ f.started > 0 /\ w.from = f.started
        /\ w.to = w.from \/ (f.finished > 0 /\ w.to = f.finished)
    BY <1>3, WindowTells
  <2>2. f \in Fates /\ FateInv(t)
    BY <1>2, <2>1
  <2> HIDE DEF t
  <2>3. f.started <= e.at /\ e.at <= f.finished
    BY <1>2, <1>3, <2>1, <2>2 DEF Covers, Fates
  <2>4. f.received > 0 /\ f.received <= e.at
    BY <1>2, <2>1, <2>2, <2>3 DEF FateInv, Fates
  <2>5. f.tid = e.tid
    BY <1>3 DEF t
  <2>6. e.trace = t
    BY <2>1, <2>3, <2>4, <2>5 DEF StageInv, ProbeInv
  <2> QED
    BY <2>6 DEF t
<1>4. ASSUME d.status = "accepted", d.stage = "planner_process_start", fate[d.trace].tid = e.tid
      PROVE  e.trace = d.trace
  <2>1. PICK w \in chosen : d.trace = w.trace /\ d.stage = w.stage
    BY <1>4, Accepts
  <2> HIDE DEF d, chosen
  <2> QED
    BY <1>1, <1>3, <1>4, <2>1
<1>5. ASSUME e.planned, fate[e.trace].finished > 0, rowFaults = 0
      PROVE  \/ d.status = "accepted" /\ d.trace = e.trace
             \/ /\ d.status = "ambiguous"
                /\ \E t \in 1 .. e.trace - 1 : fate[t].tid = e.tid
  <2> DEFINE t == e.trace
             f == fate[t]
             x == <<t, "planner_process_start">>
  <2>1. /\ t \in Frame /\ f \in Fates /\ FateInv(t)
        /\ f.tid = e.tid /\ 0 < f.started /\ f.started <= e.at /\ e.at < f.finished
    <3>1. t \in Frame /\ f.tid = e.tid /\ 0 < f.started /\ f.started <= e.at
          /\ (f.finished = 0 \/ e.at < f.finished)
      BY <1>5 DEF StageInv, ProbeInv
    <3>2. f \in Fates /\ FateInv(t)
      BY <1>2, <3>1
    <3> QED
      BY <1>5, <3>1, <3>2
  <2>2. PICK w0 \in Windows : /\ w0.trace = t /\ w0.stage = "planner_process_start"
                              /\ w0.tid = f.tid
                              /\ w0.from = f.started /\ w0.to = f.finished
    BY <1>5, <2>1, WindowThere
  <2>3. Covers(w0, e.at)
    BY <1>2, <2>1, <2>2 DEF Covers, Fates
  <2>4. w0 \in chosen /\ \A w \in chosen : w.tid = e.tid
    BY <2>1, <2>2, <2>3 DEF Chosen, Best
  <2>5. x \in Targets(e, Windows)
    BY <2>2, <2>4 DEF Targets
  <2>6. IsFiniteSet(Targets(e, Windows))
    BY TargetsFinite
  <2>7. ASSUME NEW w \in chosen, <<w.trace, w.stage>> # x
        PROVE  w.trace \in 1 .. t - 1 /\ fate[w.trace].tid = e.tid
    <3> DEFINE u == w.trace
               g == fate[u]
    <3>1. w \in Windows /\ Covers(w, e.at) /\ w.tid = e.tid /\ u \in Frame
      BY <1>1, <2>4, WindowTells
    <3>2. g \in Fates /\ FateInv(u)
      BY <1>2, <3>1
    <3>3. w.from < w.to /\ w.from <= e.at
      BY <3>1 DEF Covers
    <3>4. w.stage # "planner_process_start"
      <4>1. SUFFICES ASSUME w.stage = "planner_process_start" PROVE FALSE
        OBVIOUS
      <4>2. g.tid = e.tid
        BY <3>1, <4>1, WindowTells
      <4>3. u = t
        BY <1>3, <3>1, <4>1, <4>2
      <4> QED
        BY <2>7, <4>1, <4>3
    <3>5. w.stage \in EndStages
      <4>1. (w.stage \notin EndStages => w.to = w.from) /\ w.from \in Nat
        BY <3>1, <3>4, WindowTells
      <4> QED
        BY <3>3, <4>1
    <3>6. g.finished > 0 /\ w.from = g.finished /\ g.tid = e.tid
      BY <3>1, <3>5, WindowTells
    <3> HIDE DEF t, u, x
    <3>7. g.finished <= e.at /\ g.finished \in Nat /\ f.finished \in Nat /\ f.started \in Nat
          /\ g.received \in Nat /\ f.received \in Nat
      BY <2>1, <3>2, <3>3, <3>6 DEF Fates
    <3>8. u # t
      BY <1>2, <2>1, <3>7
    <3>9. 0 < g.received /\ g.received < g.finished /\ 0 < f.received /\ f.received < f.started
      BY <2>1, <3>2, <3>6, <3>7 DEF FateInv
    <3>10. u < t
      <4>1. CASE g.received <= f.received
        BY <2>1, <3>1, <3>8, <3>9, <4>1 DEF StageInv, InTurn
      <4>2. CASE f.received <= g.received
        <5>1. f.finished < g.received
          BY <2>1, <3>1, <3>8, <3>9, <4>2 DEF StageInv, InTurn
        <5> QED
          BY <1>2, <2>1, <3>7, <3>9, <5>1
      <4> QED
        BY <3>7, <4>1, <4>2
    <3> QED
      BY <1>0, <2>1, <3>1, <3>6, <3>10 DEF u
  <2>8. CASE Targets(e, Windows) = {x}
    <3>1. d.status = "accepted" /\ d.trace = x[1]
      BY <2>5, <2>6, <2>8, TargetsDecide
    <3> QED
      BY <3>1
  <2>9. CASE Targets(e, Windows) # {x}
    <3>1. d.status = "ambiguous"
      BY <2>5, <2>6, <2>9, TargetsDecide
    <3>2. PICK w \in chosen : <<w.trace, w.stage>> # x
      BY <2>5, <2>9 DEF Targets
    <3> HIDE DEF d, chosen, x
    <3> QED
      BY <2>7, <3>1, <3>2
  <2> QED
    BY <2>8, <2>9
<1> QED
  BY <1>4, <1>5

-----------------------------------------------------------------------------
(* What the trials measure.                                                *)

\* The rows of a stage tell of what happened; an undamaged capture has one of
\* each that did.
LEMMA RowsTell ==
  ASSUME StageInv, NEW t \in Frame, NEW name \in PlannerStages
  PROVE  /\ Has(t, name) => Owes(name, fate[t]) /\ FirstRow(t, name).at = When(name, fate[t])
         /\ rowFaults = 0 => ~Twice(t, name) /\ (Has(t, name) <=> Owes(name, fate[t]))
<1> DEFINE l == logged[t]
           f == fate[t]
           rows == RowsOfStage(t, name)
<1>1. /\ l \in Seq(StageRows) /\ f \in Fates /\ FateInv(t)
      /\ \A i \in DOMAIN l : RowOf(l[i], f)
      /\ rowFaults = 0 => Exact(l, f)
  BY DEF StageInv, LogsInv, StageTypes
<1>2. rows \in SUBSET Nat /\ \A i \in rows : i \in DOMAIN l /\ l[i].stage = name
  <2>1. DOMAIN l = 1 .. Len(l) /\ Len(l) \in Nat
    BY <1>1
  <2> QED
    BY <2>1 DEF RowsOfStage
<1>3. name \in StageNames
  BY DEF PlannerStages, StageNames, EndStages
<1>4. ASSUME NEW i \in rows PROVE Owes(name, f) /\ l[i].at = When(name, f)
  <2>1. RowOf(l[i], f) /\ l[i].stage = name
    BY <1>1, <1>2
  <2> QED
    BY <2>1 DEF RowOf, Owes, When, PlannerStages, EndStages
<1>5. ASSUME Has(t, name) PROVE Owes(name, f) /\ FirstRow(t, name).at = When(name, f)
  <2>1. rows # {}
    BY <1>5 DEF Has
  <2>2. Min(rows) \in rows
    <3>1. PICK k \in rows : \A j \in rows : k <= j
      BY <1>2, <2>1, NatMin
    <3> HIDE DEF rows
    <3> QED
      BY <3>1 DEF Min
  <2>3. FirstRow(t, name) = l[Min(rows)]
    BY DEF FirstRow
  <2> QED
    BY <1>4, <2>2, <2>3
<1>6. ASSUME rowFaults = 0 PROVE ~Twice(t, name) /\ (Has(t, name) <=> Owes(name, f))
  <2>1. Exact(l, f)
    BY <1>1, <1>6
  <2>2. \A i, j \in rows : i = j
    BY <1>2, <2>1 DEF Exact
  <2>3. rows = {} \/ \E i \in rows : rows = {i}
    BY <2>2
  <2>4. Cardinality(rows) = 0 \/ Cardinality(rows) = 1
    BY <2>3, FS_EmptySet, FS_Singleton
  <2>5. ASSUME Owes(name, f) PROVE Has(t, name)
    <3>1. PICK i \in DOMAIN l : l[i].stage = name
      BY <1>3, <2>1, <2>5 DEF Exact, HasRow
    <3>2. i \in rows
      BY <3>1 DEF RowsOfStage
    <3> QED
      BY <3>2 DEF Has
  <2> QED
    BY <1>5, <2>4, <2>5 DEF Twice
<1> QED
  BY <1>5, <1>6

\* A trace is measured when it has one row of either stage.
LEMMA MeasurableIs ==
  ASSUME NEW cause
  PROVE  LET from == Interval(cause)[1]
             to   == Interval(cause)[2]
         IN /\ Measurable(cause) = {t \in Frame : /\ Has(t, from) /\ ~Twice(t, from)
                                                  /\ Has(t, to) /\ ~Twice(t, to)}
            /\ Observed(cause) = {t \in Frame :
                  /\ Has(t, from) \/ Has(t, to)
                  /\ cause = "dds_communication_delay" => Has(t, "camera_frame_published")}
<1> DEFINE from == Interval(cause)[1]
           to   == Interval(cause)[2]
           D    == {t \in Frame : Has(t, from) \/ Has(t, to)}
           V(t) == IF cause = "dds_communication_delay" THEN JudgePressure(t, from, to)
                   ELSE Judge(t, from, to)
<1>1. Verdicts(cause) = [t \in D |-> V(t)]
  BY DEF Verdicts
<1>2. ASSUME NEW t PROVE V(t) = "complete" <=> /\ Has(t, from) /\ ~Twice(t, from)
                                               /\ Has(t, to) /\ ~Twice(t, to)
  <2> HIDE DEF from, to
  <2> QED
    BY DEF Judge, JudgePressure
<1> HIDE DEF V, from, to
<1>3. DOMAIN Verdicts(cause) = D /\ \A t \in D : Verdicts(cause)[t] = V(t)
  BY <1>1
<1>4. Measurable(cause) = {t \in Frame : /\ Has(t, from) /\ ~Twice(t, from)
                                         /\ Has(t, to) /\ ~Twice(t, to)}
  BY <1>2, <1>3 DEF Measurable
<1>5. Observed(cause) = {t \in Frame :
         /\ Has(t, from) \/ Has(t, to)
         /\ cause = "dds_communication_delay" => Has(t, "camera_frame_published")}
  BY <1>3 DEF Observed
<1> QED
  BY <1>4, <1>5 DEF from, to

LEMMA Measures == StageInv => MeasuredTruly
<1> DEFINE begun(cause, t) == IF cause = "application_compute_delay"
                              THEN fate[t].started ELSE fate[t].published
           ended(cause, t) == IF cause = "application_compute_delay"
                              THEN fate[t].finished ELSE fate[t].received
           real(cause) == {t \in Frame : begun(cause, t) > 0 /\ ended(cause, t) > 0}
<1> SUFFICES ASSUME StageInv,
                    NEW cause \in {"application_compute_delay", "executor_queueing",
                                   "dds_communication_delay"}
             PROVE  /\ Measurable(cause) \subseteq real(cause) \cap Observed(cause)
                    /\ \A t \in Measurable(cause) :
                         Elapsed(t, Interval(cause)[1], Interval(cause)[2])
                           = ended(cause, t) - begun(cause, t)
                    /\ rowFaults = 0 => Measurable(cause) = real(cause)
                    /\ rowFaults = 0 /\ cause # "application_compute_delay" =>
                         Observed(cause) = 1 .. published
                    /\ rowFaults = 0 =>
                         {t \in Frame : ComputeMeasured(t)}
                           = {t \in Frame : fate[t].outcome = "planned"}
  BY DEF MeasuredTruly
<1>0. /\ \A t \in Frame : t \in Nat /\ t > 0
      /\ published \in Nat /\ 1 .. published \subseteq Frame
  BY StageAssumption DEF Frame, StageInv, StageTypes
<1>1. \A t \in Frame : FateInv(t) /\ fate[t] \in Fates
  BY DEF StageInv, StageTypes
<1> DEFINE from == Interval(cause)[1]
           to   == Interval(cause)[2]
<1>2. /\ from \in PlannerStages /\ to \in PlannerStages
      /\ cause = "application_compute_delay" =>
           from = "planner_process_start" /\ to = "planner_process_end"
      /\ cause # "application_compute_delay" =>
           from = "camera_frame_published" /\ to = "planner_receive"
  BY DEF Interval, PlannerStages
<1>3. /\ Measurable(cause) = {t \in Frame : /\ Has(t, from) /\ ~Twice(t, from)
                                            /\ Has(t, to) /\ ~Twice(t, to)}
      /\ Observed(cause) = {t \in Frame :
            /\ Has(t, from) \/ Has(t, to)
            /\ cause = "dds_communication_delay" => Has(t, "camera_frame_published")}
  BY MeasurableIs
<1> HIDE DEF from, to
<1>4. ASSUME NEW t \in Frame
      PROVE  /\ Has(t, from) => begun(cause, t) > 0 /\ FirstRow(t, from).at = begun(cause, t)
             /\ Has(t, to) => ended(cause, t) > 0 /\ FirstRow(t, to).at = ended(cause, t)
             /\ rowFaults = 0 => /\ ~Twice(t, from) /\ ~Twice(t, to)
                                 /\ Has(t, from) <=> begun(cause, t) > 0
                                 /\ Has(t, to) <=> ended(cause, t) > 0
  BY <1>2, RowsTell DEF Owes, When
<1>5. Measurable(cause) \subseteq real(cause) \cap Observed(cause)
  BY <1>2, <1>3, <1>4
<1>6. ASSUME NEW t \in Measurable(cause)
      PROVE  Elapsed(t, from, to) = ended(cause, t) - begun(cause, t)
  <2>1. t \in Frame /\ Has(t, from) /\ Has(t, to)
    BY <1>3
  <2> QED
    BY <1>4, <2>1 DEF Elapsed
<1>7. rowFaults = 0 => Measurable(cause) = real(cause)
  BY <1>3, <1>4
<1>8. ASSUME rowFaults = 0, cause # "application_compute_delay"
      PROVE  Observed(cause) = 1 .. published
  <2>1. \A t \in Frame : /\ Has(t, from) <=> fate[t].published > 0
                         /\ Has(t, to) <=> fate[t].received > 0
    BY <1>4, <1>8
  <2>2. from = "camera_frame_published"
    BY <1>2, <1>8
  <2>3. \A t \in Frame : t \in Observed(cause) <=> fate[t].published > 0
    BY <1>1, <1>3, <2>1, <2>2 DEF FateInv
  <2>4. \A t \in Frame : fate[t].published > 0 <=> t <= published
    BY <1>1 DEF FateInv
  <2>5. Observed(cause) \subseteq Frame
    BY <1>3
  <2>6. \A t \in Frame : t \in Observed(cause) <=> t \in 1 .. published
    BY <1>0, <2>3, <2>4
  <2> QED
    BY <1>0, <2>5, <2>6
<1>9. ASSUME rowFaults = 0, NEW t \in Frame
      PROVE  ComputeMeasured(t) <=> fate[t].outcome = "planned"
  <2>1. \A name \in PlannerStages : Has(t, name) <=> Owes(name, fate[t])
    BY <1>9, RowsTell
  <2>2. ComputeMeasured(t) <=>
          /\ fate[t].published > 0 /\ fate[t].started > 0 /\ fate[t].finished > 0
          /\ fate[t].outcome = "planned"
    BY <2>1 DEF ComputeMeasured, Owes, PlannerStages
  <2>3. ASSUME fate[t].outcome = "planned"
        PROVE  fate[t].published > 0 /\ fate[t].started > 0 /\ fate[t].finished > 0
    BY <1>1, <2>3 DEF FateInv, Fates
  <2> QED
    BY <2>2, <2>3
<1> QED
  BY <1>5, <1>6, <1>7, <1>8, <1>9 DEF from, to

-----------------------------------------------------------------------------
LEMMA InitCapture == Init => StageInv
<1>1. StageInit => Fresh
  BY DEF StageInit, Fresh
<1> QED
  BY <1>1, FreshStage DEF Init

LEMMA FreshNext == Fresh' => StageInv'
  BY FreshStage, PTL

\* The pipeline captures as StageEvidence does, and forgets the capture when a
\* trace is picked.
LEMMA StepCapture == StageInv /\ [Next]_vars => StageInv'
<1> SUFFICES ASSUME StageInv, [Next]_vars PROVE StageInv'
  OBVIOUS
<1>1. [StageNext]_stages \/ Fresh'
  <2>1. CASE Capture \/ Optimize \/ UNCHANGED vars \/ \E profile \in Profiles : Infer(profile)
    BY <2>1 DEF Capture, Optimize, Infer, vars, halves
  <2>2. CASE CapturePlanner
    BY <2>2 DEF CapturePlanner
  <2>3. CASE (\E t \in Trace : Pick(t)) \/ (\E t \in Frame : PickPlanned(t))
    BY <2>3 DEF Pick, PickPlanned, Picks, Fresh
  <2> QED
    BY <2>1, <2>2, <2>3 DEF Next
<1> QED
  BY <1>1, StepStage, FreshNext

\* A kernel event that the interval of a planning claims on its own thread is
\* work on that trace, whatever was lost or doubled, and an undamaged capture
\* gives no event of a planning away.
THEOREM AttributesSoundly == Spec => []AttributionSound
  BY InitCapture, StepCapture, Attributes, PTL DEF Spec

\* Trials and adapters measure what happened to each frame; a lost row loses a
\* trace and changes none.
THEOREM MeasuresTruly == Spec => []MeasuredTruly
  BY InitCapture, StepCapture, Measures, PTL DEF Spec

-----------------------------------------------------------------------------
(* Folds over a sequence, step by step.                                    *)

\* A chain: from `base`, by `step`, to the k-th value.
Chain(h, k, base, step) ==
  h[0] = base /\ \A m \in 1 .. k : h[m] = step[<<m, h[m - 1]>>]

\* What FoldLeft's function is required to be, its step being `step` on V.
FoldsLeft(f, k, V, base, step) ==
  /\ f[{}] = base
  /\ \A s \in SUBSET (1 .. k) : s # {} /\ f[s \ {Max(s)}] \in V =>
        f[s] = step[<<Max(s), f[s \ {Max(s)}]>>]

StepsIn(step, k, V) == \A x \in 1 .. k, v \in V : step[<<x, v>>] \in V

FoldsAll(f, k, base, step) ==
  \A s \in SUBSET (1 .. k) :
     f[s] = IF s = {} THEN base ELSE step[<<Max(s), f[s \ {Max(s)}]>>]

\* There is a function that folds each prefix ...
LEMMA FoldLeftExists ==
  ASSUME NEW k \in Nat, NEW V, NEW base \in V, NEW step, StepsIn(step, k, V)
  PROVE  \E f \in [SUBSET (1 .. k) -> V] : FoldsAll(f, k, base, step)
<1> DEFINE S == 1 .. k
           pick == [s \in SUBSET S |-> Max(s)]
<1>1. IsFiniteSet(S)
  BY FS_Interval
<1>2. \A s \in SUBSET S : s # {} => pick[s] \in s
  BY MaxOfNaturals
<1>3. \A s \in SUBSET S : pick[s] = Max(s)
  OBVIOUS
<1> HIDE DEF pick
<1>4. \E f \in [SUBSET S -> V] : Folds(f, S, base, pick, step)
  BY <1>1, <1>2, FoldExists DEF StepsIn
<1> QED
  BY <1>3, <1>4 DEF Folds, FoldsAll

\* ... and whatever folds as it does goes along a chain.
LEMMA FoldLeftChain ==
  ASSUME NEW k \in Nat, NEW V, NEW base \in V, NEW step, StepsIn(step, k, V),
         NEW f, FoldsLeft(f, k, V, base, step)
  PROVE  \E h \in [0 .. k -> V] : Chain(h, k, base, step) /\ f[1 .. k] = h[k]
<1> DEFINE h == [m \in 0 .. k |-> f[1 .. m]]
           T == {m \in Nat : m <= k => f[1 .. m] \in V}
<1>1. ASSUME NEW m \in 1 .. k, f[1 .. m - 1] \in V
      PROVE  f[1 .. m] = step[<<m, f[1 .. m - 1]>>]
  <2>1. 1 .. m \in SUBSET (1 .. k) /\ m \in 1 .. m
    <3>1. \A x \in 1 .. m : x \in 1 .. k
      OBVIOUS
    <3>2. m \in 1 .. m
      OBVIOUS
    <3> QED
      BY <3>1, <3>2
  <2>2. Max(1 .. m) = m
    <3>1. \A x \in 1 .. m : (\A y \in 1 .. m : x >= y) => x = m
      OBVIOUS
    <3>2. \A y \in 1 .. m : m >= y
      OBVIOUS
    <3> QED
      BY <2>1, <3>1, <3>2 DEF Max
  <2>3. (1 .. m) \ {m} = 1 .. m - 1
    OBVIOUS
  <2> QED
    BY <1>1, <2>1, <2>2, <2>3 DEF FoldsLeft
<1>2. f[1 .. 0] = base
  <2>1. 1 .. 0 = {}
    OBVIOUS
  <2> QED
    BY <2>1 DEF FoldsLeft
<1>3. 0 \in T
  BY <1>2
<1>4. ASSUME NEW m \in T PROVE m + 1 \in T
  <2> SUFFICES ASSUME m + 1 <= k PROVE f[1 .. m + 1] \in V
    OBVIOUS
  <2>1. m + 1 \in 1 .. k /\ (m + 1) - 1 = m /\ f[1 .. m] \in V
    OBVIOUS
  <2>2. f[1 .. m + 1] = step[<<m + 1, f[1 .. m]>>]
    BY <1>1, <2>1
  <2> QED
    BY <2>1, <2>2 DEF StepsIn
<1>5. T = Nat
  <2>1. T \in SUBSET Nat
    OBVIOUS
  <2> HIDE DEF T
  <2> QED
    BY <1>3, <1>4, <2>1, Induction
<1>6. \A m \in 0 .. k : f[1 .. m] \in V
  BY <1>5
<1> HIDE DEF T
<1>7. h \in [0 .. k -> V] /\ h[k] = f[1 .. k] /\ h[0] = f[1 .. 0]
  BY <1>6
<1>8. ASSUME NEW m \in 1 .. k PROVE h[m] = step[<<m, h[m - 1]>>]
  <2>1. m - 1 \in 0 .. k /\ m \in 0 .. k
    OBVIOUS
  <2>2. h[m] = f[1 .. m] /\ h[m - 1] = f[1 .. m - 1]
    BY <2>1
  <2> QED
    BY <1>1, <1>6, <2>1, <2>2
<1> HIDE DEF h
<1> QED
  BY <1>2, <1>7, <1>8 DEF Chain

\* Chains of the same steps come to the same.
LEMMA ChainUnique ==
  ASSUME NEW k \in Nat, NEW h, NEW g, NEW base, NEW step, NEW other,
         Chain(h, k, base, step), Chain(g, k, base, other),
         \A m \in 1 .. k : step[<<m, h[m - 1]>>] = other[<<m, h[m - 1]>>]
  PROVE  h[k] = g[k]
<1> DEFINE T == {m \in Nat : m <= k => h[m] = g[m]}
<1>1. 0 \in T
  BY DEF Chain
<1>2. ASSUME NEW m \in T PROVE m + 1 \in T
  <2> SUFFICES ASSUME m + 1 <= k PROVE h[m + 1] = g[m + 1]
    OBVIOUS
  <2>1. m + 1 \in 1 .. k /\ (m + 1) - 1 = m /\ h[m] = g[m]
    OBVIOUS
  <2> QED
    BY <2>1 DEF Chain
<1>3. T = Nat
  <2>1. T \in SUBSET Nat
    OBVIOUS
  <2> HIDE DEF T
  <2> QED
    BY <1>1, <1>2, <2>1, Induction
<1> QED
  BY <1>3

-----------------------------------------------------------------------------
(* The rows of some events.                                                *)

Selected(rows, row, events) == IF row.event \in events THEN Append(rows, row) ELSE rows
SelectStep(l, events) ==
  [a \in (DOMAIN l) \X Seq(Rows) |-> Selected(a[2], l[a[1]], events)]

\* Only by its fold.
LEMMA OnlyIs ==
  ASSUME NEW l \in Seq(Rows), NEW events
  PROVE  \E h \in [0 .. Len(l) -> Seq(Rows)] :
            /\ Chain(h, Len(l), <<>>, SelectStep(l, events))
            /\ Only(events, l) = h[Len(l)]
<1> DEFINE k == Len(l)
           V == Seq(Rows)
           base == <<>>
           step == SelectStep(l, events)
           Eq(f) == f = [s \in SUBSET DOMAIN l |->
                           IF s = {} THEN <<>>
                           ELSE LET x == Max(s) IN Selected(f[s \ {x}], l[x], events)]
           f == CHOOSE f : Eq(f)
<1>1. l \in Seq(Rows) /\ k \in Nat /\ DOMAIN l = 1 .. k
  OBVIOUS
<1>2. Only(events, l) = f[DOMAIN l]
  BY DEF Only, FoldLeft, MapThenFoldSet, Selected
<1> HIDE DEF k
<1>3. base \in V
  OBVIOUS
<1>4. \A x \in 1 .. k, v \in V : step[<<x, v>>] = Selected(v, l[x], events)
  <2>1. l \in Seq(Rows) /\ DOMAIN l = 1 .. k
    BY <1>1
  <2>2. ASSUME NEW x \in 1 .. k, NEW v \in V PROVE step[<<x, v>>] = Selected(v, l[x], events)
    <3>1. <<x, v>> \in (DOMAIN l) \X Seq(Rows)
      BY <2>1
    <3> QED
      BY <3>1 DEF SelectStep
  <2> QED
    BY <2>2
<1>5. ASSUME NEW x \in 1 .. k, NEW v \in V PROVE step[<<x, v>>] \in V
  <2>1. l[x] \in Rows
    BY <1>1
  <2>2. Selected(v, l[x], events) \in V
    BY <2>1 DEF Selected
  <2> QED
    BY <1>4, <2>2
<1>a. k \in Nat /\ StepsIn(step, k, V)
  BY <1>1, <1>5 DEF StepsIn
<1> HIDE DEF step, V, base
<1>6. PICK g \in [SUBSET (1 .. k) -> V] : FoldsAll(g, k, base, step)
  BY <1>3, <1>a, FoldLeftExists
<1>7. Eq(g)
  <2> USE DEF base
  <2>1. ASSUME NEW s \in SUBSET (1 .. k)
        PROVE  g[s] = IF s = {} THEN <<>>
                      ELSE LET x == Max(s) IN Selected(g[s \ {x}], l[x], events)
    <3>1. CASE s = {}
      BY <1>6, <3>1 DEF FoldsAll
    <3>2. CASE s # {}
      <4>1. Max(s) \in 1 .. k /\ g[s \ {Max(s)}] \in V
        BY <1>1, <3>2, MaxOfNaturals
      <4> QED
        BY <1>4, <1>6, <3>2, <4>1 DEF FoldsAll
    <3> QED
      BY <3>1, <3>2
  <2>2. g = [s \in SUBSET (1 .. k) |-> g[s]]
    OBVIOUS
  <2> QED
    BY <1>1, <2>1, <2>2
<1>8. Eq(f)
  BY <1>7
<1> HIDE DEF f
<1>9. FoldsLeft(f, k, V, base, step)
  <2>1. \A s \in SUBSET (1 .. k) :
           f[s] = IF s = {} THEN base
                  ELSE LET x == Max(s) IN Selected(f[s \ {x}], l[x], events)
    BY <1>1, <1>8 DEF base
  <2>2. ASSUME NEW s \in SUBSET (1 .. k), s # {}, f[s \ {Max(s)}] \in V
        PROVE  f[s] = step[<<Max(s), f[s \ {Max(s)}]>>]
    <3>1. Max(s) \in 1 .. k
      BY <1>1, <2>2, MaxOfNaturals
    <3> QED
      BY <1>4, <2>1, <2>2, <3>1
  <2> QED
    BY <2>1, <2>2 DEF FoldsLeft
<1>10. \E h \in [0 .. k -> V] : Chain(h, k, base, step) /\ f[1 .. k] = h[k]
  BY <1>3, <1>9, <1>a, FoldLeftChain
<1> QED
  BY <1>1, <1>2, <1>10 DEF V, k, step, base

LEMMA SelectIs ==
  ASSUME NEW l \in Seq(Rows), NEW events, NEW m \in 1 .. Len(l), NEW v \in Seq(Rows)
  PROVE  SelectStep(l, events)[<<m, v>>] = Selected(v, l[m], events)
<1>1. <<m, v>> \in (DOMAIN l) \X Seq(Rows)
  OBVIOUS
<1> QED
  BY <1>1 DEF SelectStep

LEMMA OnlyEmpty ==
  ASSUME NEW events
  PROVE  Only(events, <<>>) = <<>>
<1> DEFINE l == <<>>
<1>1. l \in Seq(Rows) /\ Len(l) = 0
  OBVIOUS
<1> HIDE DEF l
<1>2. PICK h \in [0 .. Len(l) -> Seq(Rows)] :
         Chain(h, Len(l), <<>>, SelectStep(l, events)) /\ Only(events, l) = h[Len(l)]
  BY <1>1, OnlyIs
<1>3. Only(events, l) = <<>>
  BY <1>1, <1>2 DEF Chain
<1> QED
  BY <1>3 DEF l

\* A row more is selected, or is not.
LEMMA OnlyAppend ==
  ASSUME NEW l \in Seq(Rows), NEW row \in Rows, NEW events
  PROVE  /\ Only(events, l) \in Seq(Rows)
         /\ Only(events, Append(l, row)) = Selected(Only(events, l), row, events)
<1> DEFINE k == Len(l)
           w == Append(l, row)
           one == SelectStep(l, events)
           two == SelectStep(w, events)
<1>1. /\ k \in Nat /\ w \in Seq(Rows) /\ Len(w) = k + 1 /\ w[k + 1] = row
      /\ \A m \in 1 .. k : w[m] = l[m] /\ m \in 1 .. Len(w)
  OBVIOUS
<1>2. PICK h \in [0 .. k -> Seq(Rows)] : Chain(h, k, <<>>, one) /\ Only(events, l) = h[k]
  BY OnlyIs
<1> HIDE DEF w
<1>3. PICK g \in [0 .. k + 1 -> Seq(Rows)] :
         Chain(g, k + 1, <<>>, two) /\ Only(events, w) = g[k + 1]
  BY <1>1, OnlyIs
<1>4. h[k] \in Seq(Rows)
  BY <1>1
<1>5. \A m \in 1 .. k : one[<<m, h[m - 1]>>] = two[<<m, h[m - 1]>>]
  <2> SUFFICES ASSUME NEW m \in 1 .. k PROVE one[<<m, h[m - 1]>>] = two[<<m, h[m - 1]>>]
    OBVIOUS
  <2>1. h[m - 1] \in Seq(Rows)
    OBVIOUS
  <2>2. one[<<m, h[m - 1]>>] = Selected(h[m - 1], l[m], events)
    BY <2>1, SelectIs
  <2>3. two[<<m, h[m - 1]>>] = Selected(h[m - 1], w[m], events)
    BY <1>1, <2>1, SelectIs
  <2> QED
    BY <1>1, <2>2, <2>3
<1> HIDE DEF one, two, k
<1>6. Chain(g, k, <<>>, two)
  <2>1. \A m \in 1 .. k : m \in 1 .. k + 1
    BY <1>1
  <2> QED
    BY <1>3, <2>1 DEF Chain
<1>7. h[k] = g[k]
  BY <1>1, <1>2, <1>5, <1>6, ChainUnique
<1>8. g[k + 1] = two[<<k + 1, g[k]>>]
  BY <1>1, <1>3 DEF Chain
<1>9. two[<<k + 1, h[k]>>] = Selected(h[k], row, events)
  BY <1>1, <1>4, SelectIs DEF two
<1> QED
  BY <1>2, <1>3, <1>4, <1>7, <1>8, <1>9 DEF w

\* What is selected was there, and is of one of the events.
LEMMA OnlyMember ==
  ASSUME NEW l \in Seq(Rows), NEW events
  PROVE  /\ Only(events, l) \in Seq(Rows)
         /\ \A i \in 1 .. Len(Only(events, l)) : \E j \in 1 .. Len(l) :
               Only(events, l)[i] = l[j] /\ l[j].event \in events
<1> DEFINE k == Len(l)
           From1(v) == \A i \in 1 .. Len(v) : \E j \in 1 .. k :
                          v[i] = l[j] /\ l[j].event \in events
<1>1. PICK h \in [0 .. k -> Seq(Rows)] :
         Chain(h, k, <<>>, SelectStep(l, events)) /\ Only(events, l) = h[k]
  BY OnlyIs
<1> DEFINE T == {m \in Nat : m <= k => From1(h[m])}
<1>2. 0 \in T
  BY <1>1 DEF Chain
<1>3. ASSUME NEW m \in T PROVE m + 1 \in T
  <2>k. k \in Nat
    OBVIOUS
  <2> HIDE DEF From1, k
  <2>m. m \in Nat /\ m + 1 \in Nat /\ (m <= k => From1(h[m]))
    OBVIOUS
  <2> SUFFICES ASSUME m + 1 <= k PROVE From1(h[m + 1])
    BY <2>m
  <2>0. m \in 0 .. k /\ m + 1 \in 1 .. k /\ (m + 1) - 1 = m
    BY <2>k, <2>m
  <2>1. m + 1 \in 1 .. k /\ (m + 1) - 1 = m /\ From1(h[m]) /\ h[m] \in Seq(Rows)
    BY <1>1, <2>0, <2>m
  <2> USE DEF From1, k
  <2>2. h[m + 1] = Selected(h[m], l[m + 1], events)
    <3>1. h[m + 1] = SelectStep(l, events)[<<m + 1, h[m]>>]
      BY <1>1, <2>1 DEF Chain
    <3> QED
      BY <2>1, <3>1, SelectIs
  <2> DEFINE v == h[m]
             r == l[m + 1]
  <2>3. CASE r.event \in events
    <3>1. h[m + 1] = Append(v, r)
      BY <2>2, <2>3 DEF Selected
    <3>2. r \in Rows /\ v \in Seq(Rows)
      BY <2>1
    <3> HIDE DEF v, r, T
    <3>3. \A i \in 1 .. Len(Append(v, r)) :
             \/ i \in 1 .. Len(v) /\ Append(v, r)[i] = v[i]
             \/ Append(v, r)[i] = r
      BY <3>2
    <3>4. From1(v)
      BY <2>1 DEF v
    <3> HIDE DEF k
    <3>5. ASSUME NEW i \in 1 .. Len(Append(v, r))
          PROVE  \E j \in 1 .. k : Append(v, r)[i] = l[j] /\ l[j].event \in events
      <4>1. CASE i \in 1 .. Len(v) /\ Append(v, r)[i] = v[i]
        BY <3>4, <4>1
      <4>2. CASE Append(v, r)[i] = r
        BY <2>1, <2>3, <4>2 DEF r
      <4> QED
        BY <3>3, <4>1, <4>2
    <3> QED
      BY <3>1, <3>5
  <2>4. CASE r.event \notin events
    BY <2>1, <2>2, <2>4 DEF Selected
  <2> QED
    BY <2>3, <2>4
<1>4. T = Nat
  <2>1. T \in SUBSET Nat
    OBVIOUS
  <2> HIDE DEF T
  <2> QED
    BY <1>2, <1>3, <2>1, Induction
<1>5. From1(h[k]) /\ h[k] \in Seq(Rows)
  <2>1. k \in Nat /\ k \in T
    BY <1>4
  <2> QED
    BY <2>1
<1> QED
  BY <1>1, <1>5

-----------------------------------------------------------------------------
(* The life of a command and the rows it leaves.                           *)

BridgeSteps == {"receive", "send", "failed", "wait", "waiting", "retry", "exhausted",
           "over", "closed"}
Life   == [state : States, waits : Nat, timeouts : Nat, retries : Nat]
LifeOf(state, waits, timeouts, retries) ==
  [state |-> state, waits |-> waits, timeouts |-> timeouts, retries |-> retries]

\* Where the bridge is says what the current command has been through; the
\* commands to come have no rows.
PlaceInv ==
  /\ pc \in BridgeSteps
  /\ pc = "receive" => n = 0 /\ truth[cur] = NotYet /\ log[cur] = <<>>
  /\ pc \in {"send", "failed", "wait"} => n <= MaxRetries /\ truth[cur] = LifeOf("open", n, n, n)
  /\ pc = "waiting" => n <= MaxRetries /\ truth[cur] = LifeOf("open", n + 1, n, n)
  /\ pc \in {"retry", "exhausted"} => truth[cur] = LifeOf("open", n + 1, n + 1, n)
  /\ pc = "retry" => n < MaxRetries
  /\ pc = "exhausted" => n = MaxRetries
  /\ \A t \in Trace : t > cur => truth[t] = NotYet /\ log[t] = <<>>

\* The row of an end, its retry count included, tells how it came to it.
TellsEnd(row, life) ==
  /\ row.event = "can_ack_received" => life = LifeOf("ack_received", row.n + 1, row.n, row.n)
  /\ row.event = "can_retry_exhausted" =>
       /\ row.n = MaxRetries
       /\ life = LifeOf("retry_exhausted", row.n + 1, row.n + 1, row.n)
  /\ row.event = "can_frame_send_failed" => life.state = "send_failed"

EndsTold == \A t \in Trace : \A i \in 1 .. Len(log[t]) : TellsEnd(log[t][i], truth[t])

FramesInv ==
  /\ bus \in {"mock", "vcan"} /\ variant \in {"control", "injected"}
  /\ dump \in [command : Nat, ack : Nat]
  /\ seen \in SUBSET Nat /\ IsFiniteSet(seen) /\ faults \in Nat

\* The rows of an undamaged capture: each follows the one that the bridge's
\* step before it left, ...
Follows ==
  {<<"prefix", "can_frame_sent">>,
   <<"can_frame_sent", "can_frame_send_failed">>,
   <<"can_frame_sent", "can_ack_wait_start">>,
   <<"can_ack_wait_start", "can_ack_received">>,
   <<"can_ack_wait_start", "can_ack_timeout">>,
   <<"can_ack_timeout", "can_retry_exhausted">>,
   <<"can_ack_timeout", "can_retry_scheduled">>,
   <<"can_retry_scheduled", "can_frame_sent">>}

InOrder(l) ==
  /\ Len(l) > 0 => l[1].event = "prefix"
  /\ \A i \in 1 .. Len(l) - 1 : <<l[i].event, l[i + 1].event>> \in Follows

\* ... the waits, timeouts and retries are numbered one by one, ...
Numbers(l, event) == [i \in DOMAIN Only({event}, l) |-> Only({event}, l)[i].n]
NumbersFrom(first, k) == [i \in 1 .. k |-> first + i - 1]

Counted(l, life) ==
  /\ Numbers(l, "can_ack_wait_start") = NumbersFrom(0, life.waits)
  /\ Numbers(l, "can_ack_timeout") = NumbersFrom(0, life.timeouts)
  /\ Numbers(l, "can_retry_scheduled") = NumbersFrom(1, life.retries)

\* ... and the row of the end is the last one.
EndOf == [ack_received |-> "can_ack_received", retry_exhausted |-> "can_retry_exhausted",
          send_failed |-> "can_frame_send_failed"]

EndShown(l, life) ==
  /\ life.state \in DOMAIN EndOf => Len(l) > 0 /\ l[Len(l)].event = EndOf[life.state]
  /\ life.state \in {"ack_received", "retry_exhausted"} =>
       \E row \in Rows : /\ Only(AckTerminals, l) = <<row>>
                         /\ Len(Only(AckEvents, l)) > 0
                         /\ Only(AckEvents, l)[Len(Only(AckEvents, l))] = row

WholeRows(l, life) == InOrder(l) /\ Counted(l, life) /\ EndShown(l, life)

Latest == [send |-> {"prefix", "can_retry_scheduled"}, failed |-> {"can_frame_sent"},
           wait |-> {"can_frame_sent"}, waiting |-> {"can_ack_wait_start"},
           retry |-> {"can_ack_timeout"}, exhausted |-> {"can_ack_timeout"}]

Undamaged ==
  faults = 0 =>
    /\ \A t \in Trace : WholeRows(log[t], truth[t])
    /\ pc \in DOMAIN Latest => Len(log[cur]) > 0 /\ log[cur][Len(log[cur])].event \in Latest[pc]

LifeInv == PlaceInv /\ EndsTold /\ FramesInv /\ Undamaged

\* A row more, a number more.
LEMMA NumbersAppend ==
  ASSUME NEW l \in Seq(Rows), NEW row \in Rows, NEW event
  PROVE  /\ Numbers(l, event) \in Seq(Nat)
         /\ Numbers(Append(l, row), event) =
              IF row.event = event THEN Append(Numbers(l, event), row.n) ELSE Numbers(l, event)
<1> DEFINE some == Only({event}, l)
           more == Only({event}, Append(l, row))
<1>1. some \in Seq(Rows) /\ more = Selected(some, row, {event})
  BY OnlyAppend
<1>2. /\ Numbers(l, event) = [i \in DOMAIN some |-> some[i].n]
      /\ Numbers(Append(l, row), event) = [i \in DOMAIN more |-> more[i].n]
  BY DEF Numbers
<1> HIDE DEF some, more
<1>3. [i \in DOMAIN some |-> some[i].n] \in Seq(Nat)
  <2>1. DOMAIN some = 1 .. Len(some) /\ Len(some) \in Nat
    BY <1>1
  <2>2. \A i \in 1 .. Len(some) : some[i].n \in Nat
    <3>1. \A i \in 1 .. Len(some) : some[i] \in Rows
      BY <1>1
    <3> QED
      BY <3>1 DEF Rows
  <2>3. [i \in 1 .. Len(some) |-> some[i].n] \in Seq(Nat)
    BY <2>1, <2>2
  <2> QED
    BY <2>1, <2>3
<1>4. CASE row.event = event
  <2>1. more = Append(some, row)
    BY <1>1, <1>4 DEF Selected
  <2>2. [i \in DOMAIN Append(some, row) |-> Append(some, row)[i].n]
          = Append([i \in DOMAIN some |-> some[i].n], row.n)
    BY <1>1, <1>3 DEF Rows
  <2> QED
    BY <1>2, <1>3, <1>4, <2>1, <2>2
<1>5. CASE row.event # event
  BY <1>1, <1>2, <1>3, <1>5 DEF Selected
<1> QED
  BY <1>4, <1>5

LEMMA NumbersFromNext ==
  \A first, k \in Nat : Append(NumbersFrom(first, k), first + k) = NumbersFrom(first, k + 1)
<1> SUFFICES ASSUME NEW first \in Nat, NEW k \in Nat
             PROVE  Append(NumbersFrom(first, k), first + k) = NumbersFrom(first, k + 1)
  OBVIOUS
<1> DEFINE a == NumbersFrom(first, k)
           b == NumbersFrom(first, k + 1)
<1>1. /\ a \in Seq(Nat) /\ Len(a) = k /\ b \in Seq(Nat) /\ Len(b) = k + 1
      /\ (\A i \in 1 .. k : a[i] = b[i]) /\ b[k + 1] = first + k
  BY DEF NumbersFrom
<1> HIDE DEF a, b
<1>2. first + k \in Nat
  OBVIOUS
<1> DEFINE c == Append(a, first + k)
<1>3. c \in Seq(Nat) /\ Len(c) = k + 1 /\ (\A i \in 1 .. k : c[i] = a[i]) /\ c[k + 1] = first + k
  BY <1>1, <1>2
<1> HIDE DEF c
<1>4. \A i \in 1 .. k + 1 : c[i] = b[i]
  BY <1>1, <1>3
<1>5. /\ c = [i \in 1 .. k + 1 |-> c[i]]
      /\ b = [i \in 1 .. k + 1 |-> b[i]]
  BY <1>1, <1>3
<1>6. c = b
  BY <1>4, <1>5
<1> QED
  BY <1>6 DEF a, b, c

\* What a row adds to the life of its command.
Lived(row, life, next) ==
  /\ IF row.event = "can_ack_wait_start"
     THEN row.n = life.waits /\ next.waits = life.waits + 1 ELSE next.waits = life.waits
  /\ IF row.event = "can_ack_timeout"
     THEN row.n = life.timeouts /\ next.timeouts = life.timeouts + 1
     ELSE next.timeouts = life.timeouts
  /\ IF row.event = "can_retry_scheduled"
     THEN row.n = life.retries + 1 /\ next.retries = life.retries + 1
     ELSE next.retries = life.retries
  /\ IF next.state \in DOMAIN EndOf THEN row.event = EndOf[next.state]
     ELSE row.event \notin Terminals

\* A whole capture stays whole with the row of the next step.
LEMMA WholeAppend ==
  ASSUME NEW l \in Seq(Rows), NEW row \in Rows, NEW life \in Life, NEW next \in Life,
         WholeRows(l, life), \A i \in 1 .. Len(l) : l[i].event \notin Terminals,
         IF Len(l) = 0 THEN row.event = "prefix"
                       ELSE <<l[Len(l)].event, row.event>> \in Follows,
         Lived(row, life, next)
  PROVE  WholeRows(Append(l, row), next)
<1> DEFINE w == Append(l, row)
<1>1. /\ w \in Seq(Rows) /\ Len(w) = Len(l) + 1 /\ Len(l) \in Nat /\ w[Len(w)] = row
      /\ \A i \in 1 .. Len(l) : w[i] = l[i]
  OBVIOUS
<1>2. InOrder(w)
  <2> HIDE DEF w
  <2>1. InOrder(l)
    BY DEF WholeRows
  <2>2. Len(w) > 0 => w[1].event = "prefix"
    BY <1>1, <2>1 DEF InOrder
  <2>3. ASSUME NEW i \in 1 .. Len(w) - 1 PROVE <<w[i].event, w[i + 1].event>> \in Follows
    <3>1. CASE i = Len(l)
      <4>1. Len(l) # 0 /\ w[i] = l[Len(l)] /\ w[i + 1] = row
        BY <1>1, <2>3, <3>1
      <4> QED
        BY <4>1
    <3>2. CASE i # Len(l)
      <4>1. i \in 1 .. Len(l) - 1 /\ i \in 1 .. Len(l) /\ i + 1 \in 1 .. Len(l)
        BY <1>1, <2>3, <3>2
      <4> QED
        BY <1>1, <2>1, <4>1 DEF InOrder
    <3> QED
      BY <3>1, <3>2
  <2> QED
    BY <2>2, <2>3 DEF InOrder
<1>3. Counted(w, next)
  <2>1. Counted(l, life)
    BY DEF WholeRows
  <2>2. ASSUME NEW event, NEW first \in Nat, NEW k \in Nat, NEW j,
               Numbers(l, event) = NumbersFrom(first, k),
               IF row.event = event THEN row.n = first + k /\ j = k + 1 ELSE j = k
        PROVE  Numbers(w, event) = NumbersFrom(first, j)
    <3>1. Numbers(w, event) =
            IF row.event = event THEN Append(Numbers(l, event), row.n) ELSE Numbers(l, event)
      BY NumbersAppend
    <3>2. Append(NumbersFrom(first, k), first + k) = NumbersFrom(first, k + 1)
      BY <2>2, NumbersFromNext
    <3> HIDE DEF w
    <3> QED
      BY <2>2, <3>1, <3>2
  <2>3. Numbers(w, "can_ack_wait_start") = NumbersFrom(0, next.waits)
    <3>1. IF row.event = "can_ack_wait_start"
          THEN row.n = 0 + life.waits /\ next.waits = life.waits + 1
          ELSE next.waits = life.waits
      BY DEF Lived, Life
    <3> QED
      BY <2>1, <2>2, <3>1 DEF Counted, Life
  <2>4. Numbers(w, "can_ack_timeout") = NumbersFrom(0, next.timeouts)
    <3>1. IF row.event = "can_ack_timeout"
          THEN row.n = 0 + life.timeouts /\ next.timeouts = life.timeouts + 1
          ELSE next.timeouts = life.timeouts
      BY DEF Lived, Life
    <3> QED
      BY <2>1, <2>2, <3>1 DEF Counted, Life
  <2>5. Numbers(w, "can_retry_scheduled") = NumbersFrom(1, next.retries)
    <3>1. IF row.event = "can_retry_scheduled"
          THEN row.n = 1 + life.retries /\ next.retries = life.retries + 1
          ELSE next.retries = life.retries
      BY DEF Lived, Life
    <3> QED
      BY <2>1, <2>2, <3>1 DEF Counted, Life
  <2> QED
    BY <2>3, <2>4, <2>5 DEF Counted
<1>4. EndShown(w, next)
  <2>1. ASSUME next.state \in DOMAIN EndOf
        PROVE  Len(w) > 0 /\ w[Len(w)].event = EndOf[next.state]
    BY <1>1, <2>1 DEF Lived
  <2>2. ASSUME next.state \in {"ack_received", "retry_exhausted"}
        PROVE  /\ Only(AckTerminals, w) = <<row>>
               /\ Len(Only(AckEvents, w)) > 0
               /\ Only(AckEvents, w)[Len(Only(AckEvents, w))] = row
    <3>1. row.event \in AckTerminals
      BY <2>2 DEF Lived, EndOf, AckTerminals
    <3>2. row.event \in AckEvents
      BY <3>1 DEF AckEvents
    <3>3. Only(AckTerminals, l) = <<>>
      <4> DEFINE some == Only(AckTerminals, l)
      <4>1. /\ some \in Seq(Rows)
            /\ \A i \in 1 .. Len(some) : \E j \in 1 .. Len(l) :
                  some[i] = l[j] /\ l[j].event \in AckTerminals
        BY OnlyMember
      <4> HIDE DEF some
      <4>2. 1 \notin 1 .. Len(some)
        BY <4>1 DEF Terminals
      <4> QED
        BY <4>1, <4>2 DEF some
    <3>4. Only(AckTerminals, w) = Append(<<>>, row)
      BY <3>1, <3>3, OnlyAppend DEF Selected
    <3>5. Only(AckEvents, l) \in Seq(Rows) /\ Only(AckEvents, w) = Append(Only(AckEvents, l), row)
      BY <3>2, OnlyAppend DEF Selected
    <3>6. Append(<<>>, row) = <<row>>
      OBVIOUS
    <3> HIDE DEF w
    <3> QED
      BY <3>4, <3>5, <3>6
  <2> QED
    BY <2>1, <2>2 DEF EndShown
<1> QED
  BY <1>2, <1>3, <1>4 DEF WholeRows

-----------------------------------------------------------------------------
(* A step of the bridge and the rows it leaves.                            *)

RowOfEvent(event, num, at) == [event |-> event, n |-> num, at |-> at]

\* What a recorded event leaves in the rows of its command.
LEMMA RecordedRow ==
  ASSUME RowInv, NEW event \in Events, NEW num \in Nat, NEW at \in Nat, NEW more \in Nat,
         faults \in Nat, Record(event, num, at, more)
  PROVE  /\ faults' \in Nat
         /\ \A t \in Trace : t # cur => log'[t] = log[t]
         /\ \A i \in 1 .. Len(log'[cur]) :
               \/ i \in 1 .. Len(log[cur]) /\ log'[cur][i] = log[cur][i]
               \/ log'[cur][i] = RowOfEvent(event, num, at)
         /\ faults' = 0 => /\ faults = 0 /\ more = 0
                           /\ log'[cur] = Append(log[cur], RowOfEvent(event, num, at))
<1> DEFINE row == RowOfEvent(event, num, at)
<1>1. PICK rows \in {<<>>, <<row>>, <<row, row>>} :
         /\ faults' = faults + more + (IF Len(rows) = 1 THEN 0 ELSE 1)
         /\ log' = [log EXCEPT ![cur] = @ \o rows]
  BY DEF Record, RowOfEvent
<1>2. row \in Rows
  BY DEF Rows, RowOfEvent
<1> HIDE DEF row
<1>3. rows \in Seq(Rows) /\ (\A i \in 1 .. Len(rows) : rows[i] = row)
      /\ (Len(rows) = 1 => rows = <<row>>)
  <2>1. CASE rows = <<>>
    BY <2>1
  <2>2. CASE rows = <<row>>
    BY <1>2, <2>2
  <2>3. CASE rows = <<row, row>>
    BY <1>2, <2>3
  <2> QED
    BY <1>1, <2>1, <2>2, <2>3
<1>4. log[cur] \in Seq(Rows) /\ cur \in Trace /\ log \in [Trace -> Seq(Rows)]
  BY DEF RowInv
<1>5. /\ log'[cur] = log[cur] \o rows
      /\ \A t \in Trace \ {cur} : log'[t] = log[t]
  BY <1>1, <1>4
<1>6. ASSUME NEW i \in 1 .. Len(log'[cur])
      PROVE  \/ i \in 1 .. Len(log[cur]) /\ log'[cur][i] = log[cur][i]
             \/ log'[cur][i] = row
  BY <1>3, <1>4, <1>5, <1>6
<1>7. log[cur] \o <<row>> = Append(log[cur], row)
  BY <1>2, <1>4
<1>8. faults' \in Nat
  BY <1>1, <1>3
<1>9. ASSUME faults' = 0 PROVE faults = 0 /\ more = 0 /\ log'[cur] = Append(log[cur], row)
  <2>1. faults = 0 /\ more = 0 /\ Len(rows) = 1
    BY <1>1, <1>9
  <2> QED
    BY <1>3, <1>5, <1>7, <2>1
<1> QED
  BY <1>5, <1>6, <1>8, <1>9 DEF row

\* A row of the current command, before its end: what is told stays told, and
\* an undamaged capture stays whole.
LEMMA RowLives ==
  ASSUME RowInv, LifeInv, NEW event \in Events, NEW num \in Nat, NEW at \in Nat, NEW more \in Nat,
         Record(event, num, at, more),
         UNCHANGED cur, truth' \in Lives, \A t \in Trace : t # cur => truth'[t] = truth[t],
         truth[cur].state = "open",
         TellsEnd(RowOfEvent(event, num, at), truth'[cur]),
         Lived(RowOfEvent(event, num, at), truth[cur], truth'[cur]),
         \/ log[cur] = <<>> /\ event = "prefix"
         \/ pc \in DOMAIN Latest /\ \A e \in Latest[pc] : <<e, event>> \in Follows,
         pc' \in DOMAIN Latest => event \in Latest[pc']
  PROVE  /\ EndsTold' /\ Undamaged' /\ faults' \in Nat
         /\ \A t \in Trace : t > cur' => truth'[t] = NotYet /\ log'[t] = <<>>
<1> DEFINE row == RowOfEvent(event, num, at)
<1>1. /\ faults' \in Nat
      /\ \A t \in Trace : t # cur => log'[t] = log[t]
      /\ \A i \in 1 .. Len(log'[cur]) :
               \/ i \in 1 .. Len(log[cur]) /\ log'[cur][i] = log[cur][i]
               \/ log'[cur][i] = row
      /\ faults' = 0 => /\ faults = 0 /\ more = 0 /\ log'[cur] = Append(log[cur], row)
  BY RecordedRow DEF LifeInv, FramesInv
<1>2. /\ cur \in Trace /\ cur \in Nat /\ log[cur] \in Seq(Rows) /\ row \in Rows /\ row.event = event
      /\ truth[cur] \in Life /\ truth'[cur] \in Life
  <2>1. cur \in Trace /\ cur \in Nat /\ log[cur] \in Seq(Rows)
    BY DEF RowInv, Trace
  <2>2. row \in Rows /\ row.event = event
    BY DEF Rows, RowOfEvent
  <2>3. Lives = [Trace -> Life]
    BY DEF Lives, Life
  <2>4. truth \in Lives
    BY DEF RowInv
  <2> QED
    BY <2>1, <2>2, <2>3, <2>4
<1>3. \A i \in 1 .. Len(log[cur]) : log[cur][i].event \notin Terminals
  BY <1>2 DEF RowInv, EndsLogged
<1> HIDE DEF row
<1>4. EndsTold'
  <2> SUFFICES ASSUME NEW t \in Trace, NEW i \in 1 .. Len(log'[t]) PROVE TellsEnd(log'[t][i], truth'[t])
    BY DEF EndsTold
  <2>1. CASE t # cur
    BY <1>1, <2>1 DEF LifeInv, EndsTold
  <2>2. CASE t = cur /\ i \in 1 .. Len(log[cur]) /\ log'[cur][i] = log[cur][i]
    BY <1>3, <2>2 DEF TellsEnd, Terminals, AckTerminals
  <2>3. CASE t = cur /\ log'[cur][i] = row
    BY <2>3 DEF row
  <2> QED
    BY <1>1, <2>1, <2>2, <2>3
<1>5. Undamaged'
  <2> SUFFICES ASSUME faults' = 0
               PROVE  /\ \A t \in Trace : WholeRows(log'[t], truth'[t])
                      /\ pc' \in DOMAIN Latest =>
                           Len(log'[cur]) > 0 /\ log'[cur][Len(log'[cur])].event \in Latest[pc']
    BY DEF Undamaged, WholeRows, InOrder, Counted, EndShown, Numbers
  <2>1. /\ \A t \in Trace : WholeRows(log[t], truth[t])
        /\ pc \in DOMAIN Latest => Len(log[cur]) > 0 /\ log[cur][Len(log[cur])].event \in Latest[pc]
        /\ log'[cur] = Append(log[cur], row)
    BY <1>1 DEF LifeInv, Undamaged
  <2>2. IF Len(log[cur]) = 0 THEN row.event = "prefix"
                             ELSE <<log[cur][Len(log[cur])].event, row.event>> \in Follows
    BY <1>2, <2>1
  <2>3. WholeRows(log'[cur], truth'[cur])
    BY <1>2, <1>3, <2>1, <2>2, WholeAppend DEF row
  <2>4. Len(log'[cur]) > 0 /\ log'[cur][Len(log'[cur])] = row
    BY <1>2, <2>1
  <2> QED
    BY <1>1, <1>2, <2>1, <2>3, <2>4
<1>6. \A t \in Trace : t > cur => truth'[t] = NotYet /\ log'[t] = <<>>
  BY <1>1, <1>2 DEF LifeInv, PlaceInv, Trace
<1> QED
  BY <1>1, <1>4, <1>5, <1>6

\* A capture without rows is whole.
LEMMA NoneWhole == WholeRows(<<>>, NotYet)
<1>1. Len(<<>>) = 0
  OBVIOUS
<1>2. InOrder(<<>>)
  BY <1>1 DEF InOrder
<1>3. ASSUME NEW event PROVE Numbers(<<>>, event) = <<>>
  BY OnlyEmpty DEF Numbers
<1>4. ASSUME NEW first \in Nat PROVE NumbersFrom(first, 0) = <<>>
  BY DEF NumbersFrom
<1>5. Counted(<<>>, NotYet)
  BY <1>3, <1>4 DEF Counted, NotYet
<1>6. EndShown(<<>>, NotYet)
  BY DEF EndShown, NotYet, EndOf
<1> QED
  BY <1>2, <1>5, <1>6 DEF WholeRows

\* Without rows and steps nothing is told.
LEMMA NoLives ==
  ASSUME cur = 1, n = 0, pc \in {"receive", "closed"}, log = [t \in Trace |-> <<>>],
         truth = [t \in Trace |-> NotYet], dump = [command |-> 0, ack |-> 0], seen = {},
         faults = 0, bus \in {"mock", "vcan"}, variant \in {"control", "injected"}
  PROVE  LifeInv
<1>1. 1 \in Trace
  BY EvidenceAssumption DEF Trace
<1>2. PlaceInv
  BY <1>1 DEF PlaceInv, BridgeSteps
<1>3. EndsTold
  BY DEF EndsTold
<1>4. FramesInv
  BY FS_EmptySet DEF FramesInv
<1>5. Undamaged
  BY NoneWhole DEF Undamaged, Latest
<1> QED
  BY <1>2, <1>3, <1>4, <1>5 DEF LifeInv

\* A capture begins with no row.
LEMMA InitLife == EvidenceInit => LifeInv
<1> SUFFICES ASSUME EvidenceInit PROVE LifeInv
  OBVIOUS
<1> QED
  BY NoLives, EvidenceAssumption DEF EvidenceInit

LEMMA LivesAre == Lives = [Trace -> Life]
  BY DEF Lives, Life

\* Each step of the bridge lives on, and its row tells so.
LEMMA StepLife == RowInv /\ LifeInv /\ EvidenceNext => LifeInv'
<1> SUFFICES ASSUME RowInv, LifeInv, EvidenceNext PROVE LifeInv'
  OBVIOUS
<1> USE DEF Events, States
<1>0. /\ cur \in Trace /\ cur \in Nat /\ n \in Nat /\ clock \in Nat /\ clock + 1 \in Nat /\ n + 1 \in Nat
      /\ truth \in [Trace -> Life] /\ truth[cur] \in Life /\ MaxRetries \in Nat
      /\ log \in [Trace -> Seq(Rows)]
  BY LivesAre, EvidenceAssumption DEF RowInv, Trace
<1>p. PlaceInv /\ FramesInv /\ EndsTold
  BY DEF LifeInv
<1>c. Cardinality({}) = 0 /\ 0 \in Nat
  BY FS_EmptySet
\* What RowLives asks for, of a row with the number `num` and the time `at`.
<1> DEFINE LivesOn == /\ EndsTold' /\ Undamaged' /\ faults' \in Nat
                    /\ \A t \in Trace : t > cur' => truth'[t] = NotYet /\ log'[t] = <<>>
           Fits(event) ==
             /\ \/ log[cur] = <<>> /\ event = "prefix"
                \/ pc \in DOMAIN Latest /\ \A e \in Latest[pc] : <<e, event>> \in Follows
             /\ pc' \in DOMAIN Latest => event \in Latest[pc']
<1>1. ASSUME NEW event \in Events, NEW num \in Nat, NEW at \in Nat, NEW more \in Nat,
             Record(event, num, at, more), UNCHANGED cur,
             NEW life \in Life, truth' = [truth EXCEPT ![cur] = life], truth[cur].state = "open",
             TellsEnd(RowOfEvent(event, num, at), life),
             Lived(RowOfEvent(event, num, at), truth[cur], life), Fits(event)
      PROVE  LivesOn /\ truth'[cur'] = life
  <2>1. truth' \in Lives /\ truth'[cur] = life /\ \A t \in Trace : t # cur => truth'[t] = truth[t]
    BY <1>0, <1>1, LivesAre
  <2> QED
    BY <1>1, <2>1, RowLives
<1> HIDE DEF LivesOn, Fits
<1>2. ASSUME NEW state, Ends(state)
      PROVE  /\ truth' = [truth EXCEPT ![cur] = LifeOf(state, truth[cur].waits,
                                                 truth[cur].timeouts, truth[cur].retries)]
             /\ pc' = "over"
  <2>1. ASSUME NEW life \in Life
        PROVE  [life EXCEPT !.state = state]
                 = LifeOf(state, life.waits, life.timeouts, life.retries)
    BY DEF LifeOf, Life
  <2>2. truth' = [truth EXCEPT ![cur] = [truth[cur] EXCEPT !.state = state]]
    BY <1>2 DEF Ends
  <2> QED
    BY <1>0, <1>2, <2>1, <2>2 DEF Ends
<1>3. CASE Receive
  <2>1. /\ Record("prefix", n, clock, 0) /\ pc = "receive" /\ pc' = "send"
        /\ UNCHANGED <<run, cur, n, clock, truth, frames>>
    BY <1>3 DEF Receive, Emit, run
  <2>2. n = 0 /\ truth[cur] = NotYet /\ log[cur] = <<>> /\ NotYet = LifeOf("open", 0, 0, 0)
    BY <1>p, <2>1 DEF PlaceInv, NotYet, LifeOf
  <2>3. NotYet \in Life /\ truth' = [truth EXCEPT ![cur] = NotYet] /\ truth[cur].state = "open"
    BY <1>0, <2>1, <2>2 DEF NotYet, Life
  <2>4. /\ TellsEnd(RowOfEvent("prefix", n, clock), NotYet)
        /\ Lived(RowOfEvent("prefix", n, clock), truth[cur], NotYet)
    BY <2>2 DEF TellsEnd, Lived, RowOfEvent, NotYet, EndOf, Terminals, AckTerminals
  <2>5. Fits("prefix")
    BY <2>1, <2>2 DEF Fits, Latest
  <2>6. LivesOn /\ truth'[cur'] = NotYet
    BY <1>0, <1>c, <1>1, <2>1, <2>3, <2>4, <2>5
  <2> QED
    BY <1>0, <1>p, <2>1, <2>2, <2>6 DEF LivesOn, LifeInv, PlaceInv, BridgeSteps, FramesInv, frames, run
<1> DEFINE open(w, o, r) == LifeOf("open", w, o, r)
<1>4. ASSUME NEW w \in Nat, NEW o \in Nat, NEW r \in Nat, NEW state \in States
      PROVE  /\ LifeOf(state, w, o, r) \in Life
             /\ LifeOf(state, w, o, r).state = state /\ LifeOf(state, w, o, r).waits = w
             /\ LifeOf(state, w, o, r).timeouts = o /\ LifeOf(state, w, o, r).retries = r
  BY DEF LifeOf, Life
<1>5. CASE CommandExpires
  <2>1. /\ Ends("rejected") /\ pc = "send" /\ UNCHANGED <<bus, variant, cur, n, log, dump, seen, faults>>
    BY <1>5 DEF CommandExpires, captured, run
  <2> DEFINE life == LifeOf("rejected", truth[cur].waits, truth[cur].timeouts, truth[cur].retries)
  <2>2. /\ truth' = [truth EXCEPT ![cur] = life] /\ pc' = "over" /\ truth[cur].state = "open"
        /\ life.state = "rejected" /\ life.waits = truth[cur].waits
        /\ life.timeouts = truth[cur].timeouts /\ life.retries = truth[cur].retries
    BY <1>2, <1>p, <2>1 DEF PlaceInv, LifeOf
  <2> HIDE DEF life
  <2>3. truth'[cur] = life /\ \A t \in Trace : t # cur => truth'[t] = truth[t]
    BY <1>0, <2>2
  <2>4. \A i \in 1 .. Len(log[cur]) : log[cur][i].event \notin Terminals
    BY <1>0, <2>2 DEF RowInv, EndsLogged
  <2>5. EndsTold'
    <3> SUFFICES ASSUME NEW t \in Trace, NEW i \in 1 .. Len(log[t]) PROVE TellsEnd(log[t][i], truth'[t])
      BY <2>1 DEF EndsTold
    <3>1. CASE t # cur
      BY <1>p, <2>3, <3>1 DEF EndsTold
    <3>2. CASE t = cur
      BY <2>4, <3>2 DEF TellsEnd, Terminals, AckTerminals
    <3> QED
      BY <3>1, <3>2
  <2>6. WholeRows(log[cur], truth[cur]) => WholeRows(log[cur], life)
    BY <2>2 DEF WholeRows, Counted, EndShown, EndOf
  <2>7. Undamaged'
    <3> SUFFICES ASSUME faults = 0 PROVE \A t \in Trace : WholeRows(log[t], truth'[t])
      BY <2>1, <2>2 DEF Undamaged, Latest, WholeRows, InOrder, Counted, EndShown, Numbers
    <3> QED
      BY <1>0, <2>3, <2>6 DEF LifeInv, Undamaged
  <2> QED
    BY <1>0, <1>p, <2>1, <2>2, <2>3, <2>5, <2>7 DEF LifeInv, PlaceInv, BridgeSteps, FramesInv
<1>6. CASE FrameRejected
  <2>1. /\ Record("can_frame_sent", n, clock + 1, 0) /\ pc = "send" /\ pc' = "failed"
        /\ UNCHANGED <<run, cur, n, truth, frames>>
    BY <1>6 DEF FrameRejected, run
  <2>2. n <= MaxRetries /\ truth[cur] = open(n, n, n)
    BY <1>p, <2>1 DEF PlaceInv
  <2>3. truth' = [truth EXCEPT ![cur] = truth[cur]]
    BY <1>0, <2>1
  <2>4. /\ TellsEnd(RowOfEvent("can_frame_sent", n, clock + 1), truth[cur])
        /\ Lived(RowOfEvent("can_frame_sent", n, clock + 1), truth[cur], truth[cur])
        /\ truth[cur].state = "open"
    BY <2>2 DEF TellsEnd, Lived, RowOfEvent, LifeOf, EndOf, Terminals, AckTerminals
  <2>5. Fits("can_frame_sent")
    BY <2>1 DEF Fits, Latest, Follows
  <2>6. LivesOn /\ truth'[cur'] = truth[cur]
    BY <1>0, <1>c, <1>1, <2>1, <2>3, <2>4, <2>5
  <2> QED
    BY <1>0, <1>p, <2>1, <2>2, <2>6 DEF LivesOn, LifeInv, PlaceInv, BridgeSteps, FramesInv, frames, run
<1>7. CASE SendFailed
  <2>1. /\ Record("can_frame_send_failed", n, clock, 0) /\ pc = "failed" /\ Ends("send_failed")
        /\ UNCHANGED <<run, cur, n, frames>>
    BY <1>7 DEF SendFailed, Emit, run
  <2>2. n <= MaxRetries /\ truth[cur] = open(n, n, n)
    BY <1>p, <2>1 DEF PlaceInv
  <2> DEFINE life == LifeOf("send_failed", n, n, n)
  <2>3. truth' = [truth EXCEPT ![cur] = life] /\ pc' = "over" /\ life \in Life
    <3>1. truth[cur].waits = n /\ truth[cur].timeouts = n /\ truth[cur].retries = n
      BY <2>2 DEF LifeOf
    <3>2. life \in Life
      BY <1>0, <1>4
    <3>3. /\ truth' = [truth EXCEPT ![cur] = LifeOf("send_failed", truth[cur].waits,
                                                 truth[cur].timeouts, truth[cur].retries)]
          /\ pc' = "over"
      BY <1>2, <2>1
    <3> QED
      BY <3>1, <3>2, <3>3
  <2>4. /\ TellsEnd(RowOfEvent("can_frame_send_failed", n, clock), life)
        /\ Lived(RowOfEvent("can_frame_send_failed", n, clock), truth[cur], life)
        /\ truth[cur].state = "open"
    BY <2>2 DEF TellsEnd, Lived, RowOfEvent, LifeOf, EndOf, Terminals, AckTerminals
  <2>5. Fits("can_frame_send_failed")
    BY <2>1, <2>3 DEF Fits, Latest, Follows
  <2> HIDE DEF life
  <2>6. LivesOn /\ truth'[cur'] = life
    BY <1>0, <1>c, <1>1, <2>1, <2>3, <2>4, <2>5
  <2> QED
    BY <1>0, <1>p, <2>1, <2>3, <2>6 DEF LivesOn, LifeInv, PlaceInv, BridgeSteps, FramesInv, frames, run
<1>8. CASE FrameSent
  <2>1. PICK observed \in BOOLEAN, gotCommand \in BOOLEAN, gotAck \in BOOLEAN :
          LET answers == observed /\ variant = "control"
              lost    == {k \in {"command", "ack"} :
                            ~(IF k = "command" THEN gotCommand ELSE gotAck)}
          IN /\ Record("can_frame_sent", n, clock + 1, Cardinality(lost))
             /\ IF bus = "mock" THEN UNCHANGED frames
                ELSE /\ dump' = [command |-> dump.command
                                               + (IF gotCommand THEN 1 ELSE 0),
                                 ack |-> dump.ack
                                   + (IF answers /\ gotAck THEN 1 ELSE 0)]
                     /\ seen' = IF observed THEN seen \cup {clock + 1} ELSE seen
    BY <1>8 DEF FrameSent
  <2>a. /\ pc = "send" /\ pc' = "wait" /\ UNCHANGED <<run, cur, n, truth>>
    BY <1>8 DEF FrameSent, run
  <2>2. n <= MaxRetries /\ truth[cur] = open(n, n, n)
    BY <1>p, <2>a DEF PlaceInv
  <2>3. truth' = [truth EXCEPT ![cur] = truth[cur]]
    BY <1>0, <2>a
  <2>4. /\ TellsEnd(RowOfEvent("can_frame_sent", n, clock + 1), truth[cur])
        /\ Lived(RowOfEvent("can_frame_sent", n, clock + 1), truth[cur], truth[cur])
        /\ truth[cur].state = "open"
    BY <2>2 DEF TellsEnd, Lived, RowOfEvent, LifeOf, EndOf, Terminals, AckTerminals
  <2>5. Fits("can_frame_sent")
    BY <2>a DEF Fits, Latest, Follows
  <2>b. PICK more \in Nat : Record("can_frame_sent", n, clock + 1, more)
    <3> DEFINE both == {"command", "ack"}
               lost == {k \in both : ~(IF k = "command" THEN gotCommand ELSE gotAck)}
    <3>1. IsFiniteSet(both)
      <4>1. IsFiniteSet({} \cup {"command"})
        BY FS_EmptySet, FS_AddElement
      <4>2. IsFiniteSet(({} \cup {"command"}) \cup {"ack"})
        BY <4>1, FS_AddElement
      <4>3. ({} \cup {"command"}) \cup {"ack"} = both
        OBVIOUS
      <4> QED
        BY <4>2, <4>3
    <3>2. lost \subseteq both
      OBVIOUS
    <3>3. Record("can_frame_sent", n, clock + 1, Cardinality(lost))
      BY <2>1
    <3> HIDE DEF both, lost
    <3>4. Cardinality(lost) \in Nat
      BY <3>1, <3>2, FS_Subset, FS_CardinalityType
    <3> QED
      BY <3>3, <3>4
  <2>6. LivesOn /\ truth'[cur'] = truth[cur]
    BY <1>0, <1>1, <2>a, <2>b, <2>3, <2>4, <2>5
  <2>7. FramesInv'
    <3>1. CASE bus = "mock"
      BY <1>p, <2>1, <2>6, <2>a, <3>1 DEF LivesOn, FramesInv, frames, run
    <3>2. CASE bus # "mock"
      <4>1. dump' \in [command : Nat, ack : Nat]
        BY <1>p, <2>1, <3>2 DEF FramesInv
      <4>2. seen' \in SUBSET Nat /\ IsFiniteSet(seen')
        <5>1. seen' = seen \/ seen' = seen \cup {clock + 1}
          BY <2>1, <3>2
        <5>2. seen \in SUBSET Nat /\ IsFiniteSet(seen)
          BY <1>p DEF FramesInv
        <5>3. IsFiniteSet(seen \cup {clock + 1})
          BY <5>2, FS_AddElement
        <5> QED
          BY <1>0, <5>1, <5>2, <5>3
      <4> QED
        BY <1>p, <2>6, <2>a, <4>1, <4>2 DEF LivesOn, FramesInv, run
    <3> QED
      BY <3>1, <3>2
  <2> QED
    BY <1>0, <1>p, <2>a, <2>2, <2>6, <2>7 DEF LivesOn, LifeInv, PlaceInv, BridgeSteps, run
<1>9. CASE StartWait
  <2>1. /\ Record("can_ack_wait_start", n, clock, 0) /\ pc = "wait" /\ pc' = "waiting"
        /\ truth' = [truth EXCEPT ![cur].waits = @ + 1]
        /\ UNCHANGED <<run, cur, n, frames>>
    BY <1>9 DEF StartWait, Emit, run
  <2>2. n <= MaxRetries /\ truth[cur] = open(n, n, n)
    BY <1>p, <2>1 DEF PlaceInv
  <2> DEFINE life == open(n + 1, n, n)
  <2>3. truth' = [truth EXCEPT ![cur] = life] /\ life \in Life
    <3>1. life = [truth[cur] EXCEPT !.waits = truth[cur].waits + 1]
      BY <2>2 DEF LifeOf
    <3> QED
      BY <1>0, <1>4, <2>1, <3>1
  <2>4. /\ TellsEnd(RowOfEvent("can_ack_wait_start", n, clock), life)
        /\ Lived(RowOfEvent("can_ack_wait_start", n, clock), truth[cur], life)
        /\ truth[cur].state = "open"
    BY <2>2 DEF TellsEnd, Lived, RowOfEvent, LifeOf, EndOf, Terminals, AckTerminals
  <2>5. Fits("can_ack_wait_start")
    BY <2>1 DEF Fits, Latest, Follows
  <2> HIDE DEF life
  <2>6. LivesOn /\ truth'[cur'] = life
    BY <1>0, <1>c, <1>1, <2>1, <2>3, <2>4, <2>5
  <2> QED
    BY <1>0, <1>p, <2>1, <2>2, <2>6 DEF LivesOn, LifeInv, PlaceInv, BridgeSteps, FramesInv, frames, run, life
<1>10. CASE AckArrives
  <2>1. /\ Record("can_ack_received", n, clock, 0) /\ pc = "waiting" /\ Ends("ack_received")
        /\ UNCHANGED <<run, cur, n, frames>>
    BY <1>10 DEF AckArrives, Emit, run
  <2>2. n <= MaxRetries /\ truth[cur] = open(n + 1, n, n)
    BY <1>p, <2>1 DEF PlaceInv
  <2> DEFINE life == LifeOf("ack_received", n + 1, n, n)
  <2>3. truth' = [truth EXCEPT ![cur] = life] /\ pc' = "over" /\ life \in Life
    <3>1. truth[cur].waits = n + 1 /\ truth[cur].timeouts = n /\ truth[cur].retries = n
      BY <2>2 DEF LifeOf
    <3>2. life \in Life
      BY <1>0, <1>4
    <3>3. /\ truth' = [truth EXCEPT ![cur] = LifeOf("ack_received", truth[cur].waits,
                                                 truth[cur].timeouts, truth[cur].retries)]
          /\ pc' = "over"
      BY <1>2, <2>1
    <3> QED
      BY <3>1, <3>2, <3>3
  <2>4. /\ TellsEnd(RowOfEvent("can_ack_received", n, clock), life)
        /\ Lived(RowOfEvent("can_ack_received", n, clock), truth[cur], life)
        /\ truth[cur].state = "open"
    BY <2>2 DEF TellsEnd, Lived, RowOfEvent, LifeOf, EndOf, Terminals, AckTerminals
  <2>5. Fits("can_ack_received")
    BY <2>1, <2>3 DEF Fits, Latest, Follows
  <2> HIDE DEF life
  <2>6. LivesOn /\ truth'[cur'] = life
    BY <1>0, <1>c, <1>1, <2>1, <2>3, <2>4, <2>5
  <2> QED
    BY <1>0, <1>p, <2>1, <2>3, <2>6 DEF LivesOn, LifeInv, PlaceInv, BridgeSteps, FramesInv, frames, run
<1>11. CASE AckTimesOut
  <2>1. /\ Record("can_ack_timeout", n, clock, 0) /\ pc = "waiting"
        /\ pc' = IF n < MaxRetries THEN "retry" ELSE "exhausted"
        /\ truth' = [truth EXCEPT ![cur].timeouts = @ + 1]
        /\ UNCHANGED <<run, cur, n, frames>>
    BY <1>11 DEF AckTimesOut, Emit, run
  <2>2. n <= MaxRetries /\ truth[cur] = open(n + 1, n, n)
    BY <1>p, <2>1 DEF PlaceInv
  <2> DEFINE life == open(n + 1, n + 1, n)
  <2>3. truth' = [truth EXCEPT ![cur] = life] /\ life \in Life
    <3>1. life = [truth[cur] EXCEPT !.timeouts = truth[cur].timeouts + 1]
      BY <2>2 DEF LifeOf
    <3> QED
      BY <1>0, <1>4, <2>1, <3>1
  <2>4. /\ TellsEnd(RowOfEvent("can_ack_timeout", n, clock), life)
        /\ Lived(RowOfEvent("can_ack_timeout", n, clock), truth[cur], life)
        /\ truth[cur].state = "open"
    BY <2>2 DEF TellsEnd, Lived, RowOfEvent, LifeOf, EndOf, Terminals, AckTerminals
  <2>5. Fits("can_ack_timeout")
    BY <2>1 DEF Fits, Latest, Follows
  <2> HIDE DEF life
  <2>6. LivesOn /\ truth'[cur'] = life
    BY <1>0, <1>c, <1>1, <2>1, <2>3, <2>4, <2>5
  <2> QED
    BY <1>0, <1>p, <2>1, <2>2, <2>6 DEF LivesOn, LifeInv, PlaceInv, BridgeSteps, FramesInv, frames, run, life
<1>12. CASE Exhaust
  <2>1. /\ Record("can_retry_exhausted", n, clock, 0) /\ pc = "exhausted" /\ Ends("retry_exhausted")
        /\ UNCHANGED <<run, cur, n, frames>>
    BY <1>12 DEF Exhaust, Emit, run
  <2>2. n = MaxRetries /\ truth[cur] = open(n + 1, n + 1, n)
    BY <1>p, <2>1 DEF PlaceInv
  <2> DEFINE life == LifeOf("retry_exhausted", n + 1, n + 1, n)
  <2>3. truth' = [truth EXCEPT ![cur] = life] /\ pc' = "over" /\ life \in Life
    <3>1. truth[cur].waits = n + 1 /\ truth[cur].timeouts = n + 1 /\ truth[cur].retries = n
      BY <2>2 DEF LifeOf
    <3>2. life \in Life
      BY <1>0, <1>4
    <3>3. /\ truth' = [truth EXCEPT ![cur] = LifeOf("retry_exhausted", truth[cur].waits,
                                                 truth[cur].timeouts, truth[cur].retries)]
          /\ pc' = "over"
      BY <1>2, <2>1
    <3> QED
      BY <3>1, <3>2, <3>3
  <2>4. /\ TellsEnd(RowOfEvent("can_retry_exhausted", n, clock), life)
        /\ Lived(RowOfEvent("can_retry_exhausted", n, clock), truth[cur], life)
        /\ truth[cur].state = "open"
    BY <2>2 DEF TellsEnd, Lived, RowOfEvent, LifeOf, EndOf, Terminals, AckTerminals
  <2>5. Fits("can_retry_exhausted")
    BY <2>1, <2>3 DEF Fits, Latest, Follows
  <2> HIDE DEF life
  <2>6. LivesOn /\ truth'[cur'] = life
    BY <1>0, <1>c, <1>1, <2>1, <2>3, <2>4, <2>5
  <2> QED
    BY <1>0, <1>p, <2>1, <2>3, <2>6 DEF LivesOn, LifeInv, PlaceInv, BridgeSteps, FramesInv, frames, run
<1>13. CASE ScheduleRetry
  <2>1. /\ Record("can_retry_scheduled", n + 1, clock, 0) /\ pc = "retry" /\ pc' = "send"
        /\ truth' = [truth EXCEPT ![cur].retries = @ + 1] /\ n' = n + 1
        /\ UNCHANGED <<run, cur, frames>>
    BY <1>13 DEF ScheduleRetry, run
  <2>2. n < MaxRetries /\ truth[cur] = open(n + 1, n + 1, n)
    BY <1>p, <2>1 DEF PlaceInv
  <2> DEFINE life == open(n + 1, n + 1, n + 1)
  <2>3. truth' = [truth EXCEPT ![cur] = life] /\ life \in Life
    <3>1. life = [truth[cur] EXCEPT !.retries = truth[cur].retries + 1]
      BY <2>2 DEF LifeOf
    <3> QED
      BY <1>0, <1>4, <2>1, <3>1
  <2>4. /\ TellsEnd(RowOfEvent("can_retry_scheduled", n + 1, clock), life)
        /\ Lived(RowOfEvent("can_retry_scheduled", n + 1, clock), truth[cur], life)
        /\ truth[cur].state = "open"
    BY <2>2 DEF TellsEnd, Lived, RowOfEvent, LifeOf, EndOf, Terminals, AckTerminals
  <2>5. Fits("can_retry_scheduled")
    BY <2>1 DEF Fits, Latest, Follows
  <2> HIDE DEF life
  <2>6. LivesOn /\ truth'[cur'] = life
    BY <1>0, <1>c, <1>1, <2>1, <2>3, <2>4, <2>5
  <2>7. n + 1 <= MaxRetries
    BY <1>0, <2>2
  <2> QED
    BY <1>0, <1>p, <2>1, <2>6, <2>7 DEF LivesOn, LifeInv, PlaceInv, BridgeSteps, FramesInv, frames, run, life
<1>14. CASE NextCommand
  <2>1. /\ cur' = cur + 1 /\ cur + 1 \in Trace /\ pc' = "receive" /\ n' = 0
        /\ UNCHANGED <<bus, variant, truth, log, dump, seen, faults>>
    BY <1>0, <1>14, EvidenceAssumption DEF NextCommand, captured, Trace
  <2>2. \A t \in Trace : t > cur => truth[t] = NotYet /\ log[t] = <<>>
    BY <1>p DEF PlaceInv
  <2>3. PlaceInv'
    BY <1>0, <2>1, <2>2 DEF PlaceInv, BridgeSteps, Trace
  <2>4. EndsTold' /\ FramesInv'
    BY <1>p, <2>1 DEF EndsTold, FramesInv
  <2>5. Undamaged'
    BY <2>1 DEF LifeInv, Undamaged, Latest, WholeRows, InOrder, Counted, EndShown, Numbers
  <2> QED
    BY <2>3, <2>4, <2>5 DEF LifeInv
<1>15. CASE Cut
  <2>1. pc' = "closed" /\ UNCHANGED <<bus, variant, cur, n, truth, log, dump, seen, faults>>
    BY <1>15 DEF Cut, captured, run
  <2>2. PlaceInv'
    BY <1>p, <2>1 DEF PlaceInv, BridgeSteps
  <2>3. EndsTold' /\ FramesInv'
    BY <1>p, <2>1 DEF EndsTold, FramesInv
  <2>4. Undamaged'
    BY <2>1 DEF LifeInv, Undamaged, Latest, WholeRows, InOrder, Counted, EndShown, Numbers
  <2> QED
    BY <2>2, <2>3, <2>4 DEF LifeInv
<1> QED
  BY <1>3, <1>5, <1>6, <1>7, <1>8, <1>9, <1>10, <1>11, <1>12, <1>13, <1>14, <1>15 DEF EvidenceNext

\* A picked trace: the rest of the capture is forgotten.
LEMMA PicksLife ==
  ASSUME NEW topology, NEW state, NEW least, NEW most, Picks(topology, state, least, most)
  PROVE  LifeInv'
<1>1. /\ cur' = 1 /\ n' = 0 /\ pc' = "closed" /\ log' = [t \in Trace |-> <<>>]
      /\ truth' = [t \in Trace |-> NotYet] /\ dump' = [command |-> 0, ack |-> 0]
      /\ seen' = {} /\ faults' = 0 /\ bus' = "mock" /\ variant' = "control"
  BY DEF Picks
<1>2. PlaceInv'
  BY <1>1 DEF PlaceInv, BridgeSteps
<1>3. EndsTold'
  BY <1>1 DEF EndsTold
<1>4. FramesInv'
  BY <1>1, FS_EmptySet DEF FramesInv
<1>5. Undamaged'
  <2>1. \A t \in Trace : WholeRows(log'[t], truth'[t])
    BY <1>1, NoneWhole
  <2> QED
    BY <1>1, <2>1 DEF Undamaged, Latest, WholeRows, InOrder, Counted, EndShown, Numbers
<1> QED
  BY <1>2, <1>3, <1>4, <1>5 DEF LifeInv

\* Steps of the other parts.
LEMMA LifeStays ==
  ASSUME LifeInv, UNCHANGED evidence
  PROVE  LifeInv'
<1>1. UNCHANGED <<pc, n, cur, truth, log, bus, variant, dump, seen, faults>>
  BY DEF evidence, bridge, captured
<1>2. PlaceInv'
  BY <1>1 DEF LifeInv, PlaceInv
<1>3. EndsTold'
  BY <1>1 DEF LifeInv, EndsTold
<1>4. FramesInv'
  BY <1>1 DEF LifeInv, FramesInv
<1>5. Undamaged'
  BY <1>1 DEF LifeInv, Undamaged, WholeRows, InOrder, Counted, EndShown, Numbers
<1> QED
  BY <1>2, <1>3, <1>4, <1>5 DEF LifeInv

\* The inductive invariant of the capture.
LEMMA LifeInvariant == Spec => []LifeInv
<1>1. Init => LifeInv
  BY InitLife DEF Init
<1>2. PipelineInv /\ LifeInv /\ [Next]_vars => LifeInv'
  <2> SUFFICES ASSUME PipelineInv, LifeInv, [Next]_vars PROVE LifeInv'
    OBVIOUS
  <2>1. CASE Capture
    BY <2>1, StepLife DEF Capture, PipelineInv
  <2>2. ASSUME NEW t \in Trace, Pick(t) PROVE LifeInv'
    BY <2>2, PicksLife DEF Pick
  <2>3. ASSUME NEW t \in Frame, PickPlanned(t) PROVE LifeInv'
    <3>1. \E topology, state, least, most : Picks(topology, state, least, most)
      BY <2>3 DEF PickPlanned
    <3> QED
      BY <3>1, PicksLife
  <2>4. CASE CapturePlanner
    BY <2>4, LifeStays DEF CapturePlanner
  <2>5. ASSUME NEW profile \in Profiles, Infer(profile) PROVE LifeInv'
    BY <2>5, LifeStays DEF Infer, halves
  <2>6. CASE Optimize
    BY <2>6, LifeStays DEF Optimize, halves
  <2>7. CASE UNCHANGED vars
    BY <2>7, LifeStays DEF vars, halves
  <2> QED
    BY <2>1, <2>2, <2>3, <2>4, <2>5, <2>6, <2>7 DEF Next
<1> QED
  BY <1>1, <1>2, PipelineInvariant, PTL DEF Spec

-----------------------------------------------------------------------------
(* An undamaged capture passes.                                            *)

\* The stages of a path, and their order.
LEMMA PathPlaces ==
  ASSUME NEW terminal \in Terminals
  PROVE  LET path     == Path(terminal)
             place(e) == CHOOSE p \in DOMAIN path : path[p] = e
         IN /\ ToSet(path) = {"prefix", "can_frame_sent", terminal}
                 \cup (IF terminal = "can_frame_send_failed" THEN {} ELSE {"can_ack_wait_start"})
            /\ place("prefix") = 1 /\ place("can_frame_sent") = 2
            /\ terminal # "can_frame_send_failed" =>
                 place("can_ack_wait_start") = 3 /\ place(terminal) = 4
            /\ terminal = "can_frame_send_failed" => place(terminal) = 3
<1> DEFINE path     == Path(terminal)
           place(e) == CHOOSE p \in DOMAIN path : path[p] = e
<1>0. terminal \in {"can_ack_received", "can_retry_exhausted", "can_frame_send_failed"}
  BY DEF Terminals, AckTerminals
<1>1. CASE terminal = "can_frame_send_failed"
  <2>1. path = <<"prefix", "can_frame_sent", terminal>>
    BY <1>1 DEF Path
  <2> HIDE DEF path
  <2>2. DOMAIN path = {1, 2, 3} /\ path[1] = "prefix" /\ path[2] = "can_frame_sent" /\ path[3] = terminal
    BY <2>1
  <2>3. ToSet(path) = {"prefix", "can_frame_sent", terminal}
    BY <2>2 DEF ToSet
  <2>4. place("prefix") = 1 /\ place("can_frame_sent") = 2 /\ place(terminal) = 3
    BY <1>1, <2>2
  <2> QED
    BY <1>1, <2>3, <2>4 DEF path
<1>2. CASE terminal # "can_frame_send_failed"
  <2>1. path = <<"prefix", "can_frame_sent", "can_ack_wait_start", terminal>>
    BY <1>2 DEF Path
  <2> HIDE DEF path
  <2>2. /\ DOMAIN path = {1, 2, 3, 4} /\ path[1] = "prefix" /\ path[2] = "can_frame_sent"
        /\ path[3] = "can_ack_wait_start" /\ path[4] = terminal
    BY <2>1
  <2>3. ToSet(path) = {"prefix", "can_frame_sent", "can_ack_wait_start", terminal}
    BY <2>2 DEF ToSet
  <2>4. place("prefix") = 1 /\ place("can_frame_sent") = 2
        /\ place("can_ack_wait_start") = 3 /\ place(terminal) = 4
    BY <1>0, <1>2, <2>2
  <2> QED
    BY <1>2, <2>3, <2>4 DEF path
<1> QED
  BY <1>1, <1>2

\* What comes before a row of an undamaged capture.
LEMMA RowBefore ==
  ASSUME NEW l \in Seq(Rows), InOrder(l), NEW i \in 1 .. Len(l)
  PROVE  /\ l[i].event = "prefix" <=> i = 1
         /\ l[i].event = "can_frame_sent" =>
              i - 1 \in 1 .. Len(l) /\ l[i - 1].event \in {"prefix", "can_retry_scheduled"}
         /\ l[i].event = "can_ack_wait_start" =>
              i - 1 \in 1 .. Len(l) /\ l[i - 1].event = "can_frame_sent"
         /\ l[i].event = "can_ack_received" =>
              i - 1 \in 1 .. Len(l) /\ l[i - 1].event = "can_ack_wait_start"
         /\ l[i].event = "can_ack_timeout" =>
              i - 1 \in 1 .. Len(l) /\ l[i - 1].event = "can_ack_wait_start"
         /\ l[i].event = "can_retry_exhausted" =>
              i - 1 \in 1 .. Len(l) /\ l[i - 1].event = "can_ack_timeout"
         /\ l[i].event = "can_frame_send_failed" =>
              i - 1 \in 1 .. Len(l) /\ l[i - 1].event = "can_frame_sent"
         /\ l[i].event \in Terminals => i = Len(l)
<1>0. Len(l) \in Nat /\ i \in Nat /\ Len(l) > 0
  OBVIOUS
<1>1. l[1].event = "prefix" /\ \A j \in 1 .. Len(l) - 1 : <<l[j].event, l[j + 1].event>> \in Follows
  BY <1>0 DEF InOrder
<1>2. ASSUME i # 1
      PROVE  i - 1 \in 1 .. Len(l) /\ <<l[i - 1].event, l[i].event>> \in Follows
  <2>1. i - 1 \in 1 .. Len(l) - 1 /\ (i - 1) + 1 = i /\ i - 1 \in 1 .. Len(l)
    BY <1>0, <1>2
  <2> QED
    BY <1>1, <2>1
<1>3. ASSUME l[i].event \in Terminals, i # Len(l) PROVE FALSE
  <2>1. i \in 1 .. Len(l) - 1
    BY <1>0, <1>3
  <2>2. <<l[i].event, l[i + 1].event>> \in Follows
    BY <1>1, <2>1
  <2> QED
    BY <1>3, <2>2 DEF Follows, Terminals, AckTerminals
<1>4. CASE i = 1
  BY <1>1, <1>3, <1>4
<1>5. CASE i # 1
  <2>1. i - 1 \in 1 .. Len(l) /\ <<l[i - 1].event, l[i].event>> \in Follows
    BY <1>2, <1>5
  <2> DEFINE a == l[i - 1].event
             b == l[i].event
  <2>2. <<a, b>> \in Follows
    BY <2>1
  <2> HIDE DEF a, b
  <2>3. /\ b # "prefix"
        /\ b = "can_frame_sent" => a \in {"prefix", "can_retry_scheduled"}
        /\ b = "can_ack_wait_start" => a = "can_frame_sent"
        /\ b = "can_ack_received" => a = "can_ack_wait_start"
        /\ b = "can_ack_timeout" => a = "can_ack_wait_start"
        /\ b = "can_retry_exhausted" => a = "can_ack_timeout"
        /\ b = "can_frame_send_failed" => a = "can_frame_sent"
    BY <2>2 DEF Follows
  <2> QED
    BY <1>3, <1>5, <2>1, <2>3 DEF a, b
<1> QED
  BY <1>4, <1>5

\* In an undamaged capture no path goes backward: a stage that comes again
\* comes after a retry, which restarts the order.
LEMMA NeverInvalid ==
  ASSUME RowInv, NEW t \in Trace, NEW terminal \in Terminals, InOrder(log[t])
  PROVE  PathStatus(t, terminal) =
           IF {log[t][i].event : i \in {j \in DOMAIN log[t] :
                                          log[t][j].event \in ToSet(Path(terminal))}}
                # ToSet(Path(terminal))
           THEN "partial" ELSE "valid"
<1> DEFINE path     == Path(terminal)
           rows     == log[t]
           of(e) == CHOOSE p \in DOMAIN path : path[p] = e
           place(i) == CHOOSE p \in DOMAIN path : path[p] = rows[i].event
           admitted == {i \in DOMAIN rows : rows[i].event \in ToSet(path)}
           backward == \E i, k \in admitted :
                          /\ i < k /\ \A j \in i + 1 .. k - 1 : j \notin admitted
                          /\ k \notin Restarts(t, terminal)
                          /\ place(k) < place(i)
           some     == {rows[i].event : i \in admitted}
<1>1. PathStatus(t, terminal) = IF backward THEN "invalid"
                                ELSE IF some # ToSet(path) THEN "partial" ELSE "valid"
  BY DEF PathStatus
<1>2. /\ ToSet(path) = {"prefix", "can_frame_sent", terminal}
           \cup (IF terminal = "can_frame_send_failed" THEN {} ELSE {"can_ack_wait_start"})
      /\ of("prefix") = 1 /\ of("can_frame_sent") = 2
      /\ terminal # "can_frame_send_failed" =>
           of("can_ack_wait_start") = 3 /\ of(terminal) = 4
      /\ terminal = "can_frame_send_failed" => of(terminal) = 3
  BY PathPlaces
<1>3. \A i \in admitted : place(i) = of(rows[i].event)
  OBVIOUS
<1>4. rows \in Seq(Rows) /\ DOMAIN rows = 1 .. Len(rows) /\ Len(rows) \in Nat
  BY DEF RowInv
<1>5. ~backward
  <2> SUFFICES ASSUME NEW i \in admitted, NEW k \in admitted, i < k,
                      \A j \in i + 1 .. k - 1 : j \notin admitted,
                      k \notin Restarts(t, terminal), place(k) < place(i)
               PROVE  FALSE
    OBVIOUS
  <2>1. /\ i \in 1 .. Len(rows) /\ k \in 1 .. Len(rows)
        /\ rows[i].event \in ToSet(path) /\ rows[k].event \in ToSet(path)
    BY <1>4
  <2>2. of(rows[k].event) < of(rows[i].event)
    BY <1>3
  <2> HIDE DEF of
  <2>3. rows[i].event \in Terminals => i = Len(rows)
    BY <1>4, <2>1, RowBefore
  <2>4. rows[i].event \notin Terminals
    BY <1>4, <2>1, <2>3
  <2>5. rows[k].event # "prefix"
    BY <1>4, <2>1, RowBefore
  <2>6. ASSUME k - 1 \in admitted PROVE i = k - 1
    BY <1>4, <2>1, <2>6
  <2>7. rows[i].event # terminal /\ terminal # "can_frame_sent" /\ terminal # "can_ack_wait_start"
    BY <2>4 DEF Terminals, AckTerminals
  <2>8. CASE rows[k].event = "can_frame_sent"
    <3>1. k - 1 \in 1 .. Len(rows) /\ rows[k - 1].event \in {"prefix", "can_retry_scheduled"}
      BY <1>4, <2>1, <2>8, RowBefore
    <3>2. CASE rows[k - 1].event = "prefix"
      <4>1. k - 1 \in admitted
        BY <1>2, <1>4, <3>1, <3>2
      <4> QED
        BY <1>2, <2>2, <2>6, <2>8, <3>2, <4>1
    <3>3. CASE rows[k - 1].event = "can_retry_scheduled"
      <4>1. CASE terminal = "can_frame_send_failed"
        BY <1>2, <2>1, <2>2, <2>7, <2>8, <4>1
      <4>2. CASE terminal # "can_frame_send_failed"
        <5>1. k - 1 \in 1 .. k - 1 /\ (k - 1) + 1 .. k - 1 = {}
          BY <1>4, <2>1, <3>1
        <5>2. \E j \in 1 .. k - 1 :
                 /\ rows[j].event = "can_retry_scheduled"
                 /\ \A m \in j + 1 .. k - 1 : rows[m].event \notin ToSet(path)
          BY <3>3, <5>1
        <5> QED
          BY <1>4, <2>1, <2>8, <4>2, <5>2 DEF Restarts
      <4> QED
        BY <4>1, <4>2
    <3> QED
      BY <3>1, <3>2, <3>3
  <2>9. CASE rows[k].event = "can_ack_wait_start"
    <3>1. k - 1 \in 1 .. Len(rows) /\ rows[k - 1].event = "can_frame_sent"
      BY <1>4, <2>1, <2>9, RowBefore
    <3>2. k - 1 \in admitted
      BY <1>2, <1>4, <3>1
    <3>3. terminal # "can_frame_send_failed"
      BY <1>2, <2>1, <2>7, <2>9
    <3> QED
      BY <1>2, <2>2, <2>6, <2>9, <3>1, <3>2, <3>3
  <2>10. CASE rows[k].event = terminal
    BY <1>2, <2>1, <2>2, <2>7, <2>10
  <2> QED
    BY <1>2, <2>1, <2>5, <2>8, <2>9, <2>10
<1> HIDE DEF backward
<1> QED
  BY <1>1, <1>5

\* The terminals that an undamaged capture shows: the one that happened.
LEMMA EndObserved ==
  ASSUME RowInv, LifeInv, faults = 0, NEW t \in Trace
  PROVE  {log[t][i].event : i \in DOMAIN log[t]} \cap Terminals
           = IF truth[t].state \in DOMAIN EndOf THEN {EndOf[truth[t].state]} ELSE {}
<1> DEFINE l == log[t]
           life == truth[t]
           observed == {l[i].event : i \in DOMAIN l} \cap Terminals
<1>1. l \in Seq(Rows) /\ DOMAIN l = 1 .. Len(l) /\ Len(l) \in Nat
  BY DEF RowInv
<1>2. \A i \in DOMAIN l : TellsEnd(l[i], life)
  BY <1>1 DEF LifeInv, EndsTold
<1>3. EndShown(l, life)
  BY DEF LifeInv, Undamaged, WholeRows
<1>4. \A i \in DOMAIN l : l[i].event \in Terminals =>
         life.state \in DOMAIN EndOf /\ EndOf[life.state] = l[i].event
  <2> SUFFICES ASSUME NEW i \in DOMAIN l, l[i].event \in Terminals
               PROVE  life.state \in DOMAIN EndOf /\ EndOf[life.state] = l[i].event
    OBVIOUS
  <2>1. TellsEnd(l[i], life)
    BY <1>2
  <2> DEFINE e == l[i].event
             state == life.state
  <2>2. \/ e = "can_ack_received" /\ state = "ack_received"
        \/ e = "can_retry_exhausted" /\ state = "retry_exhausted"
        \/ e = "can_frame_send_failed" /\ state = "send_failed"
    BY <2>1 DEF TellsEnd, Terminals, AckTerminals, LifeOf
  <2> HIDE DEF e, state
  <2>3. state \in DOMAIN EndOf /\ EndOf[state] = e
    BY <2>2 DEF EndOf
  <2> QED
    BY <2>3 DEF e, state
<1>5. CASE life.state \in DOMAIN EndOf
  <2>1. Len(l) \in DOMAIN l /\ l[Len(l)].event = EndOf[life.state]
    BY <1>1, <1>3, <1>5 DEF EndShown
  <2>2. EndOf[life.state] \in Terminals
    BY <1>5 DEF EndOf, Terminals, AckTerminals
  <2>3. EndOf[life.state] \in observed
    BY <2>1, <2>2
  <2>4. \A e \in observed : e = EndOf[life.state]
    BY <1>4
  <2> QED
    BY <1>5, <2>3, <2>4
<1>6. CASE life.state \notin DOMAIN EndOf
  <2>1. observed = {}
    BY <1>4, <1>6
  <2> QED
    BY <1>6, <2>1
<1> QED
  BY <1>5, <1>6

\* A terminal that an undamaged capture shows has its whole path before it.
LEMMA PathThere ==
  ASSUME RowInv, LifeInv, faults = 0, NEW t \in Trace, NEW terminal \in Terminals,
         NEW at \in DOMAIN log[t], log[t][at].event = terminal
  PROVE  PathStatus(t, terminal) = "valid"
<1> DEFINE l == log[t]
           some == {l[i].event : i \in {j \in DOMAIN l : l[j].event \in ToSet(Path(terminal))}}
<1>1. l \in Seq(Rows) /\ DOMAIN l = 1 .. Len(l) /\ Len(l) \in Nat
  BY DEF RowInv
<1>2. InOrder(l)
  BY DEF LifeInv, Undamaged, WholeRows
<1>3. ToSet(Path(terminal)) = {"prefix", "can_frame_sent", terminal}
         \cup (IF terminal = "can_frame_send_failed" THEN {} ELSE {"can_ack_wait_start"})
  BY PathPlaces
<1>4. 1 \in DOMAIN l /\ l[1].event = "prefix"
  <2>1. 1 \in DOMAIN l
    BY <1>1
  <2> QED
    BY <1>1, <1>2, <2>1, RowBefore
<1>5. ASSUME NEW i \in DOMAIN l, l[i].event = "can_ack_wait_start"
      PROVE  \E j \in DOMAIN l : l[j].event = "can_frame_sent"
  BY <1>1, <1>2, <1>5, RowBefore
<1>6. terminal # "can_frame_send_failed" => \E i \in DOMAIN l : l[i].event = "can_ack_wait_start"
  <2>1. CASE terminal = "can_ack_received"
    BY <1>1, <1>2, <2>1, RowBefore
  <2>2. CASE terminal = "can_retry_exhausted"
    <3>1. at - 1 \in DOMAIN l /\ l[at - 1].event = "can_ack_timeout"
      BY <1>1, <1>2, <2>2, RowBefore
    <3> DEFINE before == at - 1
    <3>2. before \in 1 .. Len(l) /\ l[before].event = "can_ack_timeout"
      BY <1>1, <3>1
    <3> HIDE DEF before
    <3>3. before - 1 \in 1 .. Len(l) /\ l[before - 1].event = "can_ack_wait_start"
      BY <1>1, <1>2, <3>2, RowBefore
    <3> QED
      BY <1>1, <3>3
  <2> QED
    BY <2>1, <2>2 DEF Terminals, AckTerminals
<1>7. \E i \in DOMAIN l : l[i].event = "can_frame_sent"
  <2>1. CASE terminal = "can_frame_send_failed"
    BY <1>1, <1>2, <2>1, RowBefore
  <2>2. CASE terminal # "can_frame_send_failed"
    BY <1>5, <1>6, <2>2
  <2> QED
    BY <2>1, <2>2
<1>8. \A e \in ToSet(Path(terminal)) : \E i \in DOMAIN l : l[i].event = e
  BY <1>3, <1>4, <1>6, <1>7
<1>9. some = ToSet(Path(terminal))
  BY <1>8
<1> QED
  BY <1>2, <1>9, NeverInvalid

\* The contract's verdict of an undamaged capture.
LEMMA TopologyOfWhole ==
  ASSUME RowInv, LifeInv, faults = 0, NEW t \in Trace
  PROVE  Topology(t) = IF truth[t].state \in DOMAIN EndOf THEN "valid" ELSE "partial"
<1> DEFINE l == log[t]
           observed == {l[i].event : i \in DOMAIN l} \cap Terminals
           paths    == IF observed = {} THEN Terminals ELSE observed
           found    == {PathStatus(t, terminal) : terminal \in paths}
           many     == Cardinality(observed) > 1
<1>1. Topology(t) = IF many THEN "invalid" ELSE IF "valid" \in found THEN "valid"
                    ELSE IF "partial" \in found THEN "partial" ELSE "invalid"
  BY DEF Topology
<1>2. observed = IF truth[t].state \in DOMAIN EndOf THEN {EndOf[truth[t].state]} ELSE {}
  BY EndObserved
<1>3. CASE truth[t].state \in DOMAIN EndOf
  <2> DEFINE terminal == EndOf[truth[t].state]
  <2>1. observed = {terminal}
    BY <1>2, <1>3
  <2>2. PICK i \in DOMAIN l : l[i].event = terminal
    <3>1. terminal \in observed
      BY <2>1
    <3> QED
      BY <3>1
  <2>3. terminal \in Terminals
    BY <1>3 DEF EndOf, Terminals, AckTerminals
  <2>4. PathStatus(t, terminal) = "valid"
    BY <2>2, <2>3, PathThere
  <2> HIDE DEF terminal
  <2>5. found = {"valid"}
    BY <2>1, <2>4
  <2>6. ~many
    <3>1. Cardinality({terminal}) = 1
      BY FS_Singleton
    <3> QED
      BY <2>1, <3>1
  <2> HIDE DEF found, many
  <2> QED
    BY <1>1, <1>3, <2>5, <2>6
<1>4. CASE truth[t].state \notin DOMAIN EndOf
  <2>1. observed = {}
    BY <1>2, <1>4
  <2>2. InOrder(l)
    BY DEF LifeInv, Undamaged, WholeRows
  <2>3. ASSUME NEW terminal \in Terminals PROVE PathStatus(t, terminal) = "partial"
    <3> DEFINE some == {l[i].event : i \in {j \in DOMAIN l : l[j].event \in ToSet(Path(terminal))}}
    <3>1. terminal \in ToSet(Path(terminal))
      BY PathPlaces
    <3>2. terminal \notin some
      BY <2>1
    <3>3. some # ToSet(Path(terminal))
      BY <3>1, <3>2
    <3> QED
      BY <2>2, <3>3, NeverInvalid
  <2>4. "can_ack_received" \in Terminals
    BY DEF Terminals, AckTerminals
  <2>5. found = {"partial"}
    BY <2>1, <2>3, <2>4
  <2>6. ~many
    BY <2>1, FS_EmptySet
  <2> HIDE DEF found, many
  <2> QED
    BY <1>1, <1>4, <2>5, <2>6
<1> QED
  BY <1>3, <1>4

-----------------------------------------------------------------------------
(* The mock adapter.                                                       *)

LEMMA CountsAre ==
  ASSUME NEW t, NEW event
  PROVE  Counts(t, event) = Numbers(log[t], event)
BY DEF Counts, RowsOf, Numbers

LEMMA FromAre ==
  ASSUME NEW k \in Nat
  PROVE  From(0, k) = NumbersFrom(0, k + 1) /\ From(1, k) = NumbersFrom(1, k)
         /\ [i \in 1 .. k |-> i - 1] = NumbersFrom(0, k)
<1>1. From(0, k) = NumbersFrom(0, k + 1)
  BY DEF From, NumbersFrom
<1>2. From(1, k) = NumbersFrom(1, k)
  BY DEF From, NumbersFrom
<1>3. [i \in 1 .. k |-> i - 1] = NumbersFrom(0, k)
  BY DEF NumbersFrom
<1> QED
  BY <1>1, <1>2, <1>3

\* The adapter's verdict of an undamaged capture.
LEMMA MockOfWhole ==
  ASSUME RowInv, LifeInv, faults = 0, NEW t \in Trace
  PROVE  MockVerdict(t) \in IF truth[t].state \in {"ack_received", "retry_exhausted"}
                            THEN {"valid"} ELSE {"incomplete", "absent"}
<1> DEFINE l == log[t]
           life == truth[t]
           rows == Only(AckEvents, l)
           terminals == Only(AckTerminals, l)
           waits == Counts(t, "can_ack_wait_start")
           ok == Lifecycle(t, terminals[1])
<1>1. l \in Seq(Rows) /\ rows \in Seq(Rows) /\ terminals \in Seq(Rows)
  BY OnlyMember DEF RowInv
<1>2. MockVerdict(t) =
        IF rows = <<>> THEN "absent"
        ELSE IF terminals = <<>> THEN "incomplete"
        ELSE IF Len(terminals) > 1 THEN "conflicting_terminal"
        ELSE IF Last(rows) # terminals[1] THEN "event_after_terminal"
        ELSE IF waits = <<>> THEN "incomplete"
        ELSE IF ~ok THEN "retry_sequence_mismatch"
        ELSE "valid"
  BY DEF MockVerdict, RowsOf
<1>3. \A i \in 1 .. Len(l) : TellsEnd(l[i], life)
  BY DEF LifeInv, EndsTold
<1>4. EndShown(l, life) /\ Counted(l, life)
  BY DEF LifeInv, Undamaged, WholeRows
<1>5. CASE life.state \in {"ack_received", "retry_exhausted"}
  <2>1. PICK row \in Rows : terminals = <<row>> /\ Len(rows) > 0 /\ rows[Len(rows)] = row
    BY <1>4, <1>5 DEF EndShown
  <2>2. row.event \in AckTerminals /\ TellsEnd(row, life)
    <3>1. 1 \in 1 .. Len(terminals) /\ terminals[1] = row
      BY <2>1
    <3> HIDE DEF terminals
    <3>2. \E j \in 1 .. Len(l) : terminals[1] = l[j] /\ l[j].event \in AckTerminals
      BY <1>1, <3>1, OnlyMember DEF terminals
    <3> QED
      BY <1>3, <3>1, <3>2
  <2>3. /\ Len(terminals) = 1 /\ terminals[1] = row /\ terminals # <<>> /\ rows # <<>>
        /\ Last(rows) = terminals[1]
    BY <1>1, <2>1 DEF Last
  <2>4. row.n \in Nat
    BY <2>1 DEF Rows
  <2>5. /\ life.waits = row.n + 1 /\ life.retries = row.n
        /\ row.event = "can_ack_received" => life.timeouts = row.n
        /\ row.event = "can_retry_exhausted" => life.timeouts = row.n + 1 /\ row.n = MaxRetries
    BY <2>2 DEF TellsEnd, LifeOf, AckTerminals
  <2>6. /\ waits = NumbersFrom(0, row.n + 1)
        /\ Counts(t, "can_ack_timeout") = NumbersFrom(0, life.timeouts)
        /\ Counts(t, "can_retry_scheduled") = NumbersFrom(1, row.n)
    BY <1>4, <2>5, CountsAre DEF Counted
  <2>7. waits # <<>>
    <3>1. DOMAIN waits = 1 .. row.n + 1 /\ 1 \in 1 .. row.n + 1
      BY <2>4, <2>6 DEF NumbersFrom
    <3> HIDE DEF waits
    <3>2. DOMAIN (<<>>) = {}
      OBVIOUS
    <3> QED
      BY <3>1, <3>2
  <2>8. Lifecycle(t, row)
    <3>1. CASE row.event = "can_ack_received"
      BY <2>4, <2>5, <2>6, <3>1, FromAre DEF Lifecycle, ValidSuccess
    <3>2. CASE row.event = "can_retry_exhausted"
      BY <2>4, <2>5, <2>6, <3>2, FromAre DEF Lifecycle, ValidExhausted
    <3> QED
      BY <2>2, <3>1, <3>2 DEF AckTerminals
  <2>9. ok
    BY <2>3, <2>8
  <2> HIDE DEF rows, terminals, waits, ok
  <2> QED
    BY <1>2, <1>5, <2>3, <2>7, <2>9
<1>6. CASE life.state \notin {"ack_received", "retry_exhausted"}
  <2>1. terminals = <<>>
    <3>1. 1 \notin 1 .. Len(terminals)
      <4>1. ASSUME 1 \in 1 .. Len(terminals) PROVE FALSE
        <5>1. PICK j \in 1 .. Len(l) : l[j].event \in AckTerminals
          BY <1>1, <4>1, OnlyMember
        <5>2. TellsEnd(l[j], life)
          BY <1>3
        <5>3. life.state \in {"ack_received", "retry_exhausted"}
          BY <5>1, <5>2 DEF TellsEnd, AckTerminals, LifeOf
        <5> QED
          BY <1>6, <5>3
      <4> QED
        BY <4>1
    <3> QED
      BY <1>1, <3>1
  <2> HIDE DEF rows, terminals, waits, ok
  <2> QED
    BY <1>2, <1>6, <2>1
<1> QED
  BY <1>5, <1>6

LEMMA WholeAdmitted == RowInv /\ LifeInv => CompleteLifeAdmitted
<1> SUFFICES ASSUME RowInv, LifeInv, faults = 0, NEW t \in Trace
             PROVE  /\ Topology(t) = IF truth[t].state \in {"ack_received", "retry_exhausted",
                                                            "send_failed"}
                                     THEN "valid" ELSE "partial"
                    /\ MockVerdict(t) \in
                         IF truth[t].state \in {"ack_received", "retry_exhausted"}
                         THEN {"valid"} ELSE {"incomplete", "absent"}
  BY DEF CompleteLifeAdmitted
<1>1. DOMAIN EndOf = {"ack_received", "retry_exhausted", "send_failed"}
  BY DEF EndOf
<1> QED
  BY <1>1, TopologyOfWhole, MockOfWhole

\* An undamaged capture is taken at its word: a finished life, retried or not,
\* passes the topology contract and the mock adapter, and one that the timeout
\* cut is incomplete, never invalid.
THEOREM AdmitsWholeLives == Spec => []CompleteLifeAdmitted
<1>1. PipelineInv /\ LifeInv => CompleteLifeAdmitted
  BY WholeAdmitted DEF PipelineInv
<1> QED
  BY <1>1, PipelineInvariant, LifeInvariant, PTL

-----------------------------------------------------------------------------
(* What a damaged capture shows.                                           *)

\* A lifecycle of one terminal that fits its counts is the one that happened.
LEMMA LifecycleTrue ==
  ASSUME RowInv, LifeInv, NEW t \in Trace,
         Only(AckTerminals, log[t]) # <<>>, Lifecycle(t, Only(AckTerminals, log[t])[1])
  PROVE  LET terminal == RowsOf(t, AckTerminals)[1].event
         IN /\ truth[t].state = IF terminal = "can_ack_received"
                                THEN "ack_received" ELSE "retry_exhausted"
            /\ Len(Counts(t, "can_ack_wait_start")) = truth[t].waits
            /\ Len(Counts(t, "can_ack_timeout")) = truth[t].timeouts
            /\ Len(Counts(t, "can_retry_scheduled")) = truth[t].retries
<1> DEFINE l == log[t]
           life == truth[t]
           terminals == Only(AckTerminals, l)
           row == terminals[1]
<1>1. l \in Seq(Rows) /\ terminals \in Seq(Rows) /\ RowsOf(t, AckTerminals) = terminals
  BY OnlyMember DEF RowInv, RowsOf
<1>2. row \in Rows /\ row.event \in AckTerminals /\ TellsEnd(row, life) /\ Lifecycle(t, row)
  <2> HIDE DEF terminals
  <2>1. 1 \in 1 .. Len(terminals)
    BY <1>1 DEF terminals
  <2>2. PICK j \in 1 .. Len(l) : row = l[j] /\ l[j].event \in AckTerminals
    BY <1>1, <2>1, OnlyMember DEF terminals
  <2>3. TellsEnd(l[j], life)
    BY DEF LifeInv, EndsTold
  <2> QED
    BY <1>1, <2>1, <2>2, <2>3 DEF terminals
<1> HIDE DEF row
<1>3. row.n \in Nat /\ MaxRetries \in Nat
  BY <1>2, EvidenceAssumption DEF Rows
<1>4. \A k \in Nat, first \in Nat : Len(NumbersFrom(first, k)) = k
  BY DEF NumbersFrom
<1>5. CASE row.event = "can_ack_received"
  <2>1. life.state = "ack_received" /\ life.waits = row.n + 1 /\ life.timeouts = row.n /\ life.retries = row.n
    BY <1>2, <1>5 DEF TellsEnd, LifeOf
  <2>2. /\ Counts(t, "can_ack_wait_start") = NumbersFrom(0, row.n + 1)
        /\ Counts(t, "can_ack_timeout") = NumbersFrom(0, row.n)
        /\ Counts(t, "can_retry_scheduled") = NumbersFrom(1, row.n)
    BY <1>2, <1>3, <1>5, FromAre DEF Lifecycle, ValidSuccess
  <2> QED
    BY <1>1, <1>3, <1>4, <1>5, <2>1, <2>2 DEF row
<1>6. CASE row.event # "can_ack_received"
  <2>1. row.event = "can_retry_exhausted"
    BY <1>2, <1>6 DEF AckTerminals
  <2>2. /\ life.state = "retry_exhausted" /\ life.waits = row.n + 1 /\ life.timeouts = row.n + 1
        /\ life.retries = row.n /\ row.n = MaxRetries
    BY <1>2, <2>1 DEF TellsEnd, LifeOf
  <2>3. /\ Counts(t, "can_ack_wait_start") = NumbersFrom(0, row.n + 1)
        /\ Counts(t, "can_ack_timeout") = NumbersFrom(0, row.n + 1)
        /\ Counts(t, "can_retry_scheduled") = NumbersFrom(1, row.n)
    BY <1>2, <1>3, <2>1, <2>2, FromAre DEF Lifecycle, ValidExhausted
  <2> QED
    BY <1>1, <1>3, <1>4, <1>6, <2>2, <2>3 DEF row
<1> QED
  BY <1>5, <1>6

\* What the adapters accept has such a lifecycle.
LEMMA MockAccepts ==
  ASSUME NEW t, MockVerdict(t) = "valid"
  PROVE  Only(AckTerminals, log[t]) # <<>> /\ Lifecycle(t, Only(AckTerminals, log[t])[1])
<1> DEFINE rows == Only(AckEvents, log[t])
           terminals == Only(AckTerminals, log[t])
           waits == Counts(t, "can_ack_wait_start")
           ok == Lifecycle(t, terminals[1])
<1>1. MockVerdict(t) =
        IF rows = <<>> THEN "absent"
        ELSE IF terminals = <<>> THEN "incomplete"
        ELSE IF Len(terminals) > 1 THEN "conflicting_terminal"
        ELSE IF Last(rows) # terminals[1] THEN "event_after_terminal"
        ELSE IF waits = <<>> THEN "incomplete"
        ELSE IF ~ok THEN "retry_sequence_mismatch"
        ELSE "valid"
  BY DEF MockVerdict, RowsOf
<1> HIDE DEF rows, terminals, waits, ok
<1>2. terminals # <<>> /\ ok
  BY <1>1
<1> QED
  BY <1>2 DEF terminals, ok

RowVerdicts == {"absent", "incomplete", "conflicting_terminal", "event_after_terminal",
                "terminal_variant_mismatch", "retry_sequence_mismatch", "valid"}

LEMMA SocketAccepts ==
  ASSUME NEW t
  PROVE  /\ SocketRows(t) \in RowVerdicts
         /\ SocketRows(t) = "valid" =>
              Only(AckTerminals, log[t]) # <<>> /\ Lifecycle(t, Only(AckTerminals, log[t])[1])
<1> DEFINE rows == Only(SocketEvents, log[t])
           terminals == Only(AckTerminals, log[t])
           waits == Counts(t, "can_ack_wait_start")
           expected == IF variant = "injected" THEN "can_retry_exhausted" ELSE "can_ack_received"
           ok == Lifecycle(t, terminals[1])
           sends == Counts(t, "can_frame_sent")
<1>1. SocketRows(t) =
        IF rows = <<>> THEN "absent"
        ELSE IF terminals = <<>> \/ waits = <<>> THEN "incomplete"
        ELSE IF Len(terminals) > 1 THEN "conflicting_terminal"
        ELSE IF Last(rows) # terminals[1] THEN "event_after_terminal"
        ELSE IF terminals[1].event # expected THEN "terminal_variant_mismatch"
        ELSE IF ~ok \/ sends # waits THEN "retry_sequence_mismatch"
        ELSE "valid"
  BY DEF SocketRows, RowsOf
<1> HIDE DEF rows, terminals, waits, ok, sends, expected
<1>2. SocketRows(t) \in RowVerdicts
  BY <1>1 DEF RowVerdicts
<1>3. SocketRows(t) = "valid" => terminals # <<>> /\ ok
  BY <1>1
<1> QED
  BY <1>2, <1>3 DEF terminals, ok

-----------------------------------------------------------------------------
(* What the frames and records are matched with.                           *)

Reasons == RowVerdicts \cup {"missing_candump_command", "missing_responder_observation",
                             "unexpected_candump_ack", "missing_candump_ack"}
Left == [command : Nat, ack : Nat, seen : {s \in SUBSET Nat : IsFiniteSet(s)},
         reason : Reasons, verdict : Seq(Reasons)]

\* One send takes from what is left, or fails.
LEMMA MatchTakes ==
  ASSUME NEW left \in Left, NEW send \in Rows
  PROVE  LET after == MatchSend(left, send)
         IN /\ after \in Left
            /\ after.verdict = left.verdict
            /\ after.command <= left.command /\ after.ack <= left.ack
            /\ Cardinality(after.seen) <= Cardinality(left.seen)
            /\ after.reason = "valid" =>
                 /\ left.reason = "valid"
                 /\ after.command + 1 <= left.command
                 /\ Cardinality(after.seen) + 1 <= Cardinality(left.seen)
                 /\ variant # "injected" => after.ack + 1 <= left.ack
<1> DEFINE after == MatchSend(left, send)
           later == {a \in left.seen : a >= send.at}
           first == CHOOSE a \in later : \A b \in later : a <= b
           taken == [left EXCEPT !.command = @ - 1, !.seen = @ \ {first}]
<1>1. after = IF left.reason # "valid" THEN left
       ELSE IF left.command = 0 THEN [left EXCEPT !.reason = "missing_candump_command"]
       ELSE IF later = {} THEN [left EXCEPT !.command = @ - 1,
                                            !.reason = "missing_responder_observation"]
       ELSE IF variant = "injected"
            THEN IF dump.ack = 0 THEN taken
                 ELSE [taken EXCEPT !.reason = "unexpected_candump_ack"]
       ELSE IF left.ack = 0 THEN [taken EXCEPT !.reason = "missing_candump_ack"]
       ELSE [taken EXCEPT !.ack = @ - 1]
  BY DEF MatchSend
<1>2. /\ left.command \in Nat /\ left.ack \in Nat /\ left.reason \in Reasons
      /\ left.seen \in SUBSET Nat /\ IsFiniteSet(left.seen) /\ left.verdict \in Seq(Reasons)
      /\ Cardinality(left.seen) \in Nat
  BY FS_CardinalityType DEF Left
<1>3. later # {} => first \in left.seen
  <2> SUFFICES ASSUME later # {} PROVE first \in left.seen
    OBVIOUS
  <2>1. later \in SUBSET Nat
    BY <1>2
  <2>2. \E a \in later : \A b \in later : a <= b
    BY <2>1, NatMin
  <2>3. first \in later
    BY <2>2
  <2> QED
    BY <2>3
<1> HIDE DEF first
<1> DEFINE fewer == left.seen \ {first}
<1>4. /\ fewer \in SUBSET Nat /\ IsFiniteSet(fewer) /\ Cardinality(fewer) \in Nat
      /\ later # {} => Cardinality(fewer) + 1 = Cardinality(left.seen)
  <2>1. /\ IsFiniteSet(fewer)
        /\ Cardinality(fewer) = IF first \in left.seen THEN Cardinality(left.seen) - 1
                                                       ELSE Cardinality(left.seen)
    BY <1>2, FS_RemoveElement
  <2>2. Cardinality(fewer) \in Nat
    BY <2>1, FS_CardinalityType
  <2> QED
    BY <1>2, <1>3, <2>1, <2>2
<1> DEFINE Now(command, ack, some, reason) ==
             [command |-> command, ack |-> ack, seen |-> some, reason |-> reason,
              verdict |-> left.verdict]
<1>5. left = Now(left.command, left.ack, left.seen, left.reason)
  BY DEF Left
<1>6. taken = Now(left.command - 1, left.ack, fewer, left.reason)
  <2> DEFINE less == [left EXCEPT !.command = @ - 1]
  <2>1. less = Now(left.command - 1, left.ack, left.seen, left.reason)
    BY <1>5
  <2>2. taken = [less EXCEPT !.seen = fewer]
    <3>1. less.seen = left.seen
      BY <2>1
    <3> QED
      OBVIOUS
  <2> HIDE DEF less, fewer
  <2>3. [less EXCEPT !.seen = fewer] = Now(left.command - 1, left.ack, fewer, left.reason)
    BY <2>1
  <2> QED
    BY <2>2, <2>3
<1> HIDE DEF taken, fewer, later
<1>7. CASE left.reason # "valid"
  BY <1>1, <1>2, <1>7
<1>8. CASE left.reason = "valid" /\ left.command = 0
  <2>1. after = Now(left.command, left.ack, left.seen, "missing_candump_command")
    BY <1>1, <1>5, <1>8
  <2> QED
    BY <1>2, <2>1 DEF Left, Reasons
<1>9. CASE left.reason = "valid" /\ left.command # 0 /\ later = {}
  <2>1. after = Now(left.command - 1, left.ack, left.seen, "missing_responder_observation")
    BY <1>1, <1>5, <1>9
  <2> QED
    BY <1>2, <1>9, <2>1 DEF Left, Reasons
<1>10. CASE left.reason = "valid" /\ left.command # 0 /\ later # {}
  <2>0. left.command - 1 \in Nat /\ (left.ack # 0 => left.ack - 1 \in Nat)
    BY <1>2, <1>10
  <2>1. CASE variant = "injected"
    <3>1. \/ after = Now(left.command - 1, left.ack, fewer, "valid")
          \/ after = Now(left.command - 1, left.ack, fewer, "unexpected_candump_ack")
      BY <1>1, <1>6, <1>10, <2>1
    <3>2. CASE after = Now(left.command - 1, left.ack, fewer, "valid")
      BY <1>2, <1>4, <1>10, <2>0, <2>1, <3>2 DEF Left, Reasons, RowVerdicts
    <3>3. CASE after = Now(left.command - 1, left.ack, fewer, "unexpected_candump_ack")
      BY <1>2, <1>4, <1>10, <2>0, <3>3 DEF Left, Reasons
    <3> QED
      BY <3>1, <3>2, <3>3
  <2>2. CASE variant # "injected" /\ left.ack = 0
    <3>1. after = Now(left.command - 1, left.ack, fewer, "missing_candump_ack")
      BY <1>1, <1>6, <1>10, <2>2
    <3> QED
      BY <1>2, <1>4, <1>10, <2>0, <3>1 DEF Left, Reasons
  <2>3. CASE variant # "injected" /\ left.ack # 0
    <3>1. after = Now(left.command - 1, left.ack - 1, fewer, "valid")
      BY <1>1, <1>6, <1>10, <2>3
    <3> QED
      BY <1>2, <1>4, <1>10, <2>0, <2>3, <3>1 DEF Left, Reasons, RowVerdicts
  <2> QED
    BY <2>1, <2>2, <2>3
<1> QED
  BY <1>7, <1>8, <1>9, <1>10

MatchStep(l) == [a \in (DOMAIN l) \X Left |-> MatchSend(a[2], l[a[1]])]

\* The sends of a command are matched by their fold.
LEMMA MatchIs ==
  ASSUME NEW l \in Seq(Rows), NEW left \in Left
  PROVE  \E h \in [0 .. Len(l) -> Left] :
            /\ \A m \in 1 .. Len(l) : h[m] = MatchSend(h[m - 1], l[m])
            /\ h[0] = left /\ h[Len(l)] = FoldLeft(MatchSend, left, l)
<1> DEFINE k == Len(l)
           V == Left
           step == MatchStep(l)
           Eq(f) == f = [s \in SUBSET DOMAIN l |->
                           IF s = {} THEN left
                           ELSE LET x == Max(s) IN MatchSend(f[s \ {x}], l[x])]
           f == CHOOSE f : Eq(f)
<1>1. l \in Seq(Rows) /\ k \in Nat /\ DOMAIN l = 1 .. k
  OBVIOUS
<1>2. FoldLeft(MatchSend, left, l) = f[DOMAIN l]
  BY DEF FoldLeft, MapThenFoldSet
<1> HIDE DEF k
<1>4. \A x \in 1 .. k, v \in V : step[<<x, v>>] = MatchSend(v, l[x])
  <2>1. ASSUME NEW x \in 1 .. k, NEW v \in V PROVE step[<<x, v>>] = MatchSend(v, l[x])
    <3>1. <<x, v>> \in (DOMAIN l) \X Left
      BY <1>1
    <3> QED
      BY <3>1 DEF MatchStep
  <2> QED
    BY <2>1
<1>5. ASSUME NEW x \in 1 .. k, NEW v \in V PROVE step[<<x, v>>] \in V
  <2>1. l[x] \in Rows
    BY <1>1
  <2>2. MatchSend(v, l[x]) \in V
    BY <2>1, MatchTakes
  <2> QED
    BY <1>4, <2>2
<1>a. k \in Nat /\ StepsIn(step, k, V)
  BY <1>1, <1>5 DEF StepsIn
<1>b. left \in V
  OBVIOUS
<1> HIDE DEF step, V
<1>6. PICK g \in [SUBSET (1 .. k) -> V] : FoldsAll(g, k, left, step)
  BY <1>a, <1>b, FoldLeftExists
<1>7. Eq(g)
  <2>1. ASSUME NEW s \in SUBSET (1 .. k)
        PROVE  g[s] = IF s = {} THEN left
                      ELSE LET x == Max(s) IN MatchSend(g[s \ {x}], l[x])
    <3>1. CASE s = {}
      BY <1>6, <3>1 DEF FoldsAll
    <3>2. CASE s # {}
      <4>1. Max(s) \in 1 .. k /\ g[s \ {Max(s)}] \in V
        BY <1>1, <3>2, MaxOfNaturals
      <4> QED
        BY <1>4, <1>6, <3>2, <4>1 DEF FoldsAll
    <3> QED
      BY <3>1, <3>2
  <2>2. g = [s \in SUBSET (1 .. k) |-> g[s]]
    OBVIOUS
  <2> QED
    BY <1>1, <2>1, <2>2
<1>8. Eq(f)
  BY <1>7
<1> HIDE DEF f
<1>9. FoldsLeft(f, k, V, left, step)
  <2>1. \A s \in SUBSET (1 .. k) :
           f[s] = IF s = {} THEN left
                  ELSE LET x == Max(s) IN MatchSend(f[s \ {x}], l[x])
    BY <1>1, <1>8
  <2>2. ASSUME NEW s \in SUBSET (1 .. k), s # {}, f[s \ {Max(s)}] \in V
        PROVE  f[s] = step[<<Max(s), f[s \ {Max(s)}]>>]
    <3>1. Max(s) \in 1 .. k
      BY <1>1, <2>2, MaxOfNaturals
    <3> QED
      BY <1>4, <2>1, <2>2, <3>1
  <2> QED
    BY <2>1, <2>2 DEF FoldsLeft
<1>10. PICK h \in [0 .. k -> V] : Chain(h, k, left, step) /\ f[1 .. k] = h[k]
  BY <1>9, <1>a, <1>b, FoldLeftChain
<1>11. ASSUME NEW m \in 1 .. k PROVE h[m] = MatchSend(h[m - 1], l[m])
  <2>1. h[m - 1] \in V
    BY <1>1
  <2> QED
    BY <1>4, <1>10, <2>1 DEF Chain
<1>12. h[0] = left /\ h[k] = FoldLeft(MatchSend, left, l)
  BY <1>1, <1>2, <1>10 DEF Chain
<1> QED
  BY <1>11, <1>12 DEF V, k

LEMMA OneMore == \A a, b, c, m \in Nat : a + 1 <= b /\ b + m <= c => a + (m + 1) <= c
  OBVIOUS

\* All sends of a command: each takes, or one fails.
LEMMA MatchesTake ==
  ASSUME NEW l \in Seq(Rows), NEW left \in Left
  PROVE  LET after == FoldLeft(MatchSend, left, l)
         IN /\ after \in Left
            /\ after.verdict = left.verdict
            /\ after.command <= left.command /\ after.ack <= left.ack
            /\ Cardinality(after.seen) <= Cardinality(left.seen)
            /\ after.reason = "valid" =>
                 /\ after.command + Len(l) <= left.command
                 /\ Cardinality(after.seen) + Len(l) <= Cardinality(left.seen)
                 /\ variant # "injected" => after.ack + Len(l) <= left.ack
<1> DEFINE k == Len(l)
<1>1. PICK h \in [0 .. k -> Left] :
            /\ \A m \in 1 .. k : h[m] = MatchSend(h[m - 1], l[m])
            /\ h[0] = left /\ h[k] = FoldLeft(MatchSend, left, l)
  BY MatchIs
<1> DEFINE Fine(now, m) ==
            /\ now.verdict = left.verdict
            /\ now.command <= left.command /\ now.ack <= left.ack
            /\ Cardinality(now.seen) <= Cardinality(left.seen)
            /\ now.reason = "valid" =>
                 /\ now.command + m <= left.command
                 /\ Cardinality(now.seen) + m <= Cardinality(left.seen)
                 /\ variant # "injected" => now.ack + m <= left.ack
           T == {m \in Nat : m <= k => Fine(h[m], m)}
<1>2. \A v \in Left : v.command \in Nat /\ v.ack \in Nat /\ Cardinality(v.seen) \in Nat
  BY FS_CardinalityType DEF Left
<1>3. k \in Nat
  OBVIOUS
<1> HIDE DEF k
<1>4. 0 \in T
  BY <1>1, <1>2
<1>5. ASSUME NEW m \in T PROVE m + 1 \in T
  <2> SUFFICES ASSUME m + 1 <= k PROVE Fine(h[m + 1], m + 1)
    OBVIOUS
  <2>1. m + 1 \in 1 .. k /\ m \in 0 .. k /\ (m + 1) - 1 = m /\ Fine(h[m], m)
    BY <1>3
  <2>2. h[m] \in Left /\ h[m + 1] = MatchSend(h[m], l[m + 1]) /\ l[m + 1] \in Rows
    <3>1. l[m + 1] \in Rows
      BY <2>1 DEF k
    <3>2. h[m] \in Left
      BY <1>1, <2>1
    <3>3. h[m + 1] = MatchSend(h[(m + 1) - 1], l[m + 1])
      BY <1>1, <2>1
    <3> QED
      BY <2>1, <3>1, <3>2, <3>3
  <2> DEFINE now == h[m]
             after == h[m + 1]
  <2>3. /\ after \in Left
        /\ after.verdict = now.verdict
        /\ after.command <= now.command /\ after.ack <= now.ack
        /\ Cardinality(after.seen) <= Cardinality(now.seen)
        /\ after.reason = "valid" =>
             /\ now.reason = "valid"
             /\ after.command + 1 <= now.command
             /\ Cardinality(after.seen) + 1 <= Cardinality(now.seen)
             /\ variant # "injected" => after.ack + 1 <= now.ack
    <3> DEFINE send == l[m + 1]
    <3>1. now \in Left /\ send \in Rows /\ after = MatchSend(now, send)
      BY <2>2
    <3> HIDE DEF now, after, send
    <3> QED
      BY <3>1, MatchTakes
  <2>4. /\ now.command \in Nat /\ now.ack \in Nat /\ Cardinality(now.seen) \in Nat
        /\ after.command \in Nat /\ after.ack \in Nat /\ Cardinality(after.seen) \in Nat
        /\ left.command \in Nat /\ left.ack \in Nat /\ Cardinality(left.seen) \in Nat
    BY <1>2, <2>2, <2>3
  <2>5. Fine(now, m)
    BY <2>1
  <2> HIDE DEF now, after
  <2>6. Fine(after, m + 1)
    <3>1. /\ after.verdict = left.verdict
          /\ after.command <= left.command /\ after.ack <= left.ack
          /\ Cardinality(after.seen) <= Cardinality(left.seen)
      BY <2>3, <2>4, <2>5
    <3>2. ASSUME after.reason = "valid"
          PROVE  /\ after.command + (m + 1) <= left.command
                 /\ Cardinality(after.seen) + (m + 1) <= Cardinality(left.seen)
                 /\ variant # "injected" => after.ack + (m + 1) <= left.ack
      <4>1. /\ now.command + m <= left.command /\ after.command + 1 <= now.command
            /\ Cardinality(now.seen) + m <= Cardinality(left.seen)
            /\ Cardinality(after.seen) + 1 <= Cardinality(now.seen)
            /\ variant # "injected" => now.ack + m <= left.ack /\ after.ack + 1 <= now.ack
        BY <2>3, <2>5, <3>2
      <4>2. m \in Nat
        OBVIOUS
      <4>3. after.command + (m + 1) <= left.command
        BY <2>4, <4>1, <4>2, OneMore
      <4>4. Cardinality(after.seen) + (m + 1) <= Cardinality(left.seen)
        BY <2>4, <4>1, <4>2, OneMore
      <4>5. variant # "injected" => after.ack + (m + 1) <= left.ack
        BY <2>4, <4>1, <4>2, OneMore
      <4> QED
        BY <4>3, <4>4, <4>5
    <3> QED
      BY <3>1, <3>2
  <2> QED
    BY <2>6 DEF after
<1>6. T = Nat
  <2>1. T \in SUBSET Nat
    OBVIOUS
  <2> HIDE DEF T
  <2> QED
    BY <1>4, <1>5, <2>1, Induction
<1>7. Fine(h[k], k) /\ h[k] \in Left
  <2>1. k \in T /\ k \in 0 .. k
    BY <1>3, <1>6
  <2> QED
    BY <2>1
<1> QED
  BY <1>1, <1>7 DEF k

Sends(t) == Len(RowsOf(t, {"can_frame_sent"}))

\* SocketVerdict's judge.
Judged(left, t) ==
  LET rows  == SocketRows(t)
      after == IF rows # "valid" THEN left
               ELSE FoldLeft(MatchSend, [left EXCEPT !.reason = "valid"],
                             RowsOf(t, {"can_frame_sent"}))
  IN [after EXCEPT !.verdict = Append(@, IF rows = "valid" THEN after.reason ELSE rows)]

\* A command that is judged valid has taken a command frame and a record, and in
\* a control run an ACK frame, for each of its sends.
LEMMA JudgedTakes ==
  ASSUME RowInv, NEW t \in Trace, NEW left \in Left
  PROVE  LET next == Judged(left, t)
             own  == next.verdict[Len(left.verdict) + 1]
         IN /\ next \in Left
            /\ Len(next.verdict) = Len(left.verdict) + 1
            /\ \A i \in 1 .. Len(left.verdict) : next.verdict[i] = left.verdict[i]
            /\ next.command <= left.command /\ next.ack <= left.ack
            /\ Cardinality(next.seen) <= Cardinality(left.seen)
            /\ own = "valid" =>
                 /\ SocketRows(t) = "valid"
                 /\ next.command + Sends(t) <= left.command
                 /\ Cardinality(next.seen) + Sends(t) <= Cardinality(left.seen)
                 /\ variant # "injected" => next.ack + Sends(t) <= left.ack
<1> DEFINE rows  == SocketRows(t)
           begin == [left EXCEPT !.reason = "valid"]
           all   == FoldLeft(MatchSend, begin, RowsOf(t, {"can_frame_sent"}))
           after == IF rows # "valid" THEN left ELSE all
           own   == IF rows = "valid" THEN after.reason ELSE rows
           next  == Judged(left, t)
<1>1. next = [after EXCEPT !.verdict = Append(@, own)]
  BY DEF Judged
<1>2. rows \in RowVerdicts
  BY SocketAccepts
<1>3. /\ begin \in Left /\ begin.command = left.command /\ begin.ack = left.ack
      /\ begin.seen = left.seen /\ begin.verdict = left.verdict
  BY DEF Left, Reasons, RowVerdicts
<1>4. RowsOf(t, {"can_frame_sent"}) \in Seq(Rows)
  BY OnlyMember DEF RowInv, RowsOf
<1> HIDE DEF begin
<1>5. /\ all \in Left
      /\ all.verdict = left.verdict
      /\ all.command <= left.command /\ all.ack <= left.ack
      /\ Cardinality(all.seen) <= Cardinality(left.seen)
      /\ all.reason = "valid" =>
           /\ all.command + Sends(t) <= left.command
           /\ Cardinality(all.seen) + Sends(t) <= Cardinality(left.seen)
           /\ variant # "injected" => all.ack + Sends(t) <= left.ack
  BY <1>3, <1>4, MatchesTake DEF Sends
<1> HIDE DEF all, rows
<1>6. /\ left.command \in Nat /\ left.ack \in Nat /\ Cardinality(left.seen) \in Nat
      /\ left.verdict \in Seq(Reasons)
  BY FS_CardinalityType DEF Left
<1>7. /\ after \in Left /\ after.verdict = left.verdict
      /\ after.command <= left.command /\ after.ack <= left.ack
      /\ Cardinality(after.seen) <= Cardinality(left.seen)
      /\ own = "valid" =>
           /\ rows = "valid"
           /\ after.command + Sends(t) <= left.command
           /\ Cardinality(after.seen) + Sends(t) <= Cardinality(left.seen)
           /\ variant # "injected" => after.ack + Sends(t) <= left.ack
  BY <1>5, <1>6
<1>8. own \in Reasons
  BY <1>2, <1>7 DEF Left, Reasons
<1> HIDE DEF after, own, next
<1>9. /\ next \in Left /\ next.command = after.command /\ next.ack = after.ack
      /\ next.seen = after.seen /\ next.verdict = Append(left.verdict, own)
  <2>1. Append(after.verdict, own) \in Seq(Reasons)
    BY <1>6, <1>7, <1>8
  <2> QED
    BY <1>1, <1>7, <2>1 DEF Left
<1>10. /\ Len(next.verdict) = Len(left.verdict) + 1
       /\ next.verdict[Len(left.verdict) + 1] = own
       /\ \A i \in 1 .. Len(left.verdict) : next.verdict[i] = left.verdict[i]
  BY <1>6, <1>8, <1>9
<1> QED
  BY <1>7, <1>9, <1>10 DEF rows, next

\* Before the first command: all that candump and the responder recorded.
Untouched == [command |-> dump.command, ack |-> dump.ack, seen |-> seen,
          reason |-> "valid", verdict |-> <<>>]

JudgeStep == [a \in Trace \X Left |-> Judged(a[2], a[1])]

\* SocketVerdict by its fold.
LEMMA JudgeIs ==
  ASSUME RowInv, FramesInv
  PROVE  \E h \in [0 .. NumTraces -> Left] :
            /\ \A m \in Trace : h[m] = Judged(h[m - 1], m)
            /\ h[0] = Untouched /\ SocketVerdict = h[NumTraces].verdict
<1> DEFINE k == NumTraces
           V == Left
           l == [t \in Trace |-> t]
           step == JudgeStep
           base == Untouched
           Eq(f) == f = [s \in SUBSET DOMAIN l |->
                           IF s = {} THEN base
                           ELSE LET x == Max(s) IN Judged(f[s \ {x}], l[x])]
           f == CHOOSE f : Eq(f)
<1>1. k \in Nat /\ Trace = 1 .. k /\ DOMAIN l = 1 .. k /\ \A x \in 1 .. k : l[x] = x
  BY EvidenceAssumption DEF Trace
<1>2. SocketVerdict = f[DOMAIN l].verdict
  <2>1. SocketVerdict = FoldLeft(Judged, base, l).verdict
    BY DEF SocketVerdict, Judged, Untouched
  <2>2. FoldLeft(Judged, base, l) = f[DOMAIN l]
    BY DEF FoldLeft, MapThenFoldSet
  <2> QED
    BY <2>1, <2>2
<1> HIDE DEF k, l
<1>4. \A x \in 1 .. k, v \in V : step[<<x, v>>] = Judged(v, l[x])
  <2>1. ASSUME NEW x \in 1 .. k, NEW v \in V PROVE step[<<x, v>>] = Judged(v, x)
    <3>1. <<x, v>> \in Trace \X Left
      BY <1>1
    <3> QED
      BY <3>1 DEF JudgeStep
  <2> QED
    BY <1>1, <2>1
<1>5. ASSUME NEW x \in 1 .. k, NEW v \in V PROVE step[<<x, v>>] \in V
  <2>1. Judged(v, x) \in V
    BY <1>1, JudgedTakes
  <2> QED
    BY <1>1, <1>4, <2>1
<1>a. k \in Nat /\ StepsIn(step, k, V)
  BY <1>1, <1>5 DEF StepsIn
<1>b. base \in V
  <2>1. <<>> \in Seq(Reasons)
    OBVIOUS
  <2> QED
    BY <2>1 DEF Untouched, Left, FramesInv, Reasons, RowVerdicts
<1> HIDE DEF step, V, base
<1>6. PICK g \in [SUBSET (1 .. k) -> V] : FoldsAll(g, k, base, step)
  BY <1>a, <1>b, FoldLeftExists
<1>7. Eq(g)
  <2>1. ASSUME NEW s \in SUBSET (1 .. k)
        PROVE  g[s] = IF s = {} THEN base
                      ELSE LET x == Max(s) IN Judged(g[s \ {x}], l[x])
    <3>1. CASE s = {}
      BY <1>6, <3>1 DEF FoldsAll
    <3>2. CASE s # {}
      <4>1. Max(s) \in 1 .. k /\ g[s \ {Max(s)}] \in V
        BY <1>1, <3>2, MaxOfNaturals
      <4> QED
        BY <1>4, <1>6, <3>2, <4>1 DEF FoldsAll
    <3> QED
      BY <3>1, <3>2
  <2>2. g = [s \in SUBSET (1 .. k) |-> g[s]]
    OBVIOUS
  <2> QED
    BY <1>1, <2>1, <2>2
<1>8. Eq(f)
  BY <1>7
<1> HIDE DEF f
<1>9. FoldsLeft(f, k, V, base, step)
  <2>1. \A s \in SUBSET (1 .. k) :
           f[s] = IF s = {} THEN base
                  ELSE LET x == Max(s) IN Judged(f[s \ {x}], l[x])
    BY <1>1, <1>8
  <2>2. ASSUME NEW s \in SUBSET (1 .. k), s # {}, f[s \ {Max(s)}] \in V
        PROVE  f[s] = step[<<Max(s), f[s \ {Max(s)}]>>]
    <3>1. Max(s) \in 1 .. k
      BY <1>1, <2>2, MaxOfNaturals
    <3> QED
      BY <1>4, <2>1, <2>2, <3>1
  <2> QED
    BY <2>1, <2>2 DEF FoldsLeft
<1>10. PICK h \in [0 .. k -> V] : Chain(h, k, base, step) /\ f[1 .. k] = h[k]
  BY <1>9, <1>a, <1>b, FoldLeftChain
<1>11. ASSUME NEW m \in Trace PROVE h[m] = Judged(h[m - 1], m)
  <2>1. h[m - 1] \in V /\ m \in 1 .. k
    BY <1>1
  <2>2. h[m] = step[<<m, h[m - 1]>>]
    BY <1>10, <2>1 DEF Chain
  <2>3. step[<<m, h[m - 1]>>] = Judged(h[m - 1], l[m]) /\ l[m] = m
    BY <1>1, <1>4, <2>1
  <2> QED
    BY <2>2, <2>3
<1>12. h[0] = base /\ SocketVerdict = h[k].verdict
  BY <1>1, <1>2, <1>10 DEF Chain
<1> QED
  BY <1>11, <1>12 DEF V, k, base

-----------------------------------------------------------------------------
(* The attempts of the accepted commands, summed as the property does.     *)

Believed == {t \in Trace : Verdict(t) = "valid"}
Attempts == FoldLeft(LAMBDA a, t : a + IF t \in Believed
                        THEN Len(RowsOf(t, {"can_frame_sent"})) ELSE 0,
                     0, [t \in Trace |-> t])

Counting(a, t) == a + IF t \in Believed THEN Len(RowsOf(t, {"can_frame_sent"})) ELSE 0
CountStep == [a \in Trace \X Nat |-> Counting(a[2], a[1])]

\* The sum of the attempts by its fold.
LEMMA AttemptsAre ==
  ASSUME RowInv
  PROVE  \E h \in [0 .. NumTraces -> Nat] :
            /\ \A m \in Trace : h[m] = h[m - 1] + IF m \in Believed THEN Sends(m) ELSE 0
            /\ h[0] = 0 /\ Attempts = h[NumTraces]
<1> DEFINE k == NumTraces
           V == Nat
           l == [t \in Trace |-> t]
           step == CountStep
           Eq(f) == f = [s \in SUBSET DOMAIN l |->
                           IF s = {} THEN 0
                           ELSE LET x == Max(s) IN Counting(f[s \ {x}], l[x])]
           f == CHOOSE f : Eq(f)
<1>1. k \in Nat /\ Trace = 1 .. k /\ DOMAIN l = 1 .. k /\ \A x \in 1 .. k : l[x] = x
  BY EvidenceAssumption DEF Trace
<1>2. Attempts = f[DOMAIN l]
  BY DEF Attempts, Counting, FoldLeft, MapThenFoldSet
<1> HIDE DEF k, l
<1>3. \A t \in Trace : Len(RowsOf(t, {"can_frame_sent"})) \in Nat
  <2> SUFFICES ASSUME NEW t \in Trace PROVE Len(RowsOf(t, {"can_frame_sent"})) \in Nat
    OBVIOUS
  <2>1. RowsOf(t, {"can_frame_sent"}) \in Seq(Rows)
    BY OnlyMember DEF RowInv, RowsOf
  <2> QED
    BY <2>1
<1>4. \A x \in 1 .. k, v \in V : step[<<x, v>>] = Counting(v, l[x])
  <2>1. ASSUME NEW x \in 1 .. k, NEW v \in V PROVE step[<<x, v>>] = Counting(v, x)
    <3>1. <<x, v>> \in Trace \X Nat
      BY <1>1
    <3> QED
      BY <3>1 DEF CountStep
  <2> QED
    BY <1>1, <2>1
<1>5. ASSUME NEW x \in 1 .. k, NEW v \in V PROVE step[<<x, v>>] \in V
  <2>1. Counting(v, x) \in V
    BY <1>1, <1>3 DEF Counting
  <2> QED
    BY <1>1, <1>4, <2>1
<1>a. k \in Nat /\ StepsIn(step, k, V)
  BY <1>1, <1>5 DEF StepsIn
<1>b. 0 \in V
  OBVIOUS
<1> HIDE DEF step, V
<1>6. PICK g \in [SUBSET (1 .. k) -> V] : FoldsAll(g, k, 0, step)
  BY <1>a, <1>b, FoldLeftExists
<1>7. Eq(g)
  <2>1. ASSUME NEW s \in SUBSET (1 .. k)
        PROVE  g[s] = IF s = {} THEN 0
                      ELSE LET x == Max(s) IN Counting(g[s \ {x}], l[x])
    <3>1. CASE s = {}
      BY <1>6, <3>1 DEF FoldsAll
    <3>2. CASE s # {}
      <4>1. Max(s) \in 1 .. k /\ g[s \ {Max(s)}] \in V
        BY <1>1, <3>2, MaxOfNaturals
      <4> QED
        BY <1>4, <1>6, <3>2, <4>1 DEF FoldsAll
    <3> QED
      BY <3>1, <3>2
  <2>2. g = [s \in SUBSET (1 .. k) |-> g[s]]
    OBVIOUS
  <2> QED
    BY <1>1, <2>1, <2>2
<1>8. Eq(f)
  BY <1>7
<1> HIDE DEF f
<1>9. FoldsLeft(f, k, V, 0, step)
  <2>1. \A s \in SUBSET (1 .. k) :
           f[s] = IF s = {} THEN 0
                  ELSE LET x == Max(s) IN Counting(f[s \ {x}], l[x])
    BY <1>1, <1>8
  <2>2. ASSUME NEW s \in SUBSET (1 .. k), s # {}, f[s \ {Max(s)}] \in V
        PROVE  f[s] = step[<<Max(s), f[s \ {Max(s)}]>>]
    <3>1. Max(s) \in 1 .. k
      BY <1>1, <2>2, MaxOfNaturals
    <3> QED
      BY <1>4, <2>1, <2>2, <3>1
  <2> QED
    BY <2>1, <2>2 DEF FoldsLeft
<1>10. PICK h \in [0 .. k -> V] : Chain(h, k, 0, step) /\ f[1 .. k] = h[k]
  BY <1>9, <1>a, <1>b, FoldLeftChain
<1>11. ASSUME NEW m \in Trace PROVE h[m] = h[m - 1] + IF m \in Believed THEN Sends(m) ELSE 0
  <2>1. h[m - 1] \in V /\ m \in 1 .. k
    BY <1>1
  <2>2. h[m] = step[<<m, h[m - 1]>>]
    BY <1>10, <2>1 DEF Chain
  <2>3. step[<<m, h[m - 1]>>] = Counting(h[m - 1], l[m]) /\ l[m] = m
    BY <1>1, <1>4, <2>1
  <2> QED
    BY <2>2, <2>3 DEF Counting, Sends
<1>12. h[0] = 0 /\ Attempts = h[k]
  BY <1>1, <1>2, <1>10 DEF Chain
<1> QED
  BY <1>11, <1>12 DEF V, k

\* On SocketCAN no frame and no record stands for two attempts.
LEMMA FramesShared ==
  ASSUME RowInv, FramesInv, bus # "mock"
  PROVE  /\ \A t \in Believed : SocketRows(t) = "valid"
         /\ Attempts <= dump.command /\ Attempts <= Cardinality(seen)
         /\ variant # "injected" => Attempts <= dump.ack
<1> DEFINE k == NumTraces
<1>1. k \in Nat /\ Trace = 1 .. k /\ k # 0
  BY EvidenceAssumption DEF Trace
<1>2. PICK h \in [0 .. k -> Left] :
            /\ \A m \in Trace : h[m] = Judged(h[m - 1], m)
            /\ h[0] = Untouched /\ SocketVerdict = h[k].verdict
  BY JudgeIs
<1>3. PICK a \in [0 .. k -> Nat] :
            /\ \A m \in Trace : a[m] = a[m - 1] + IF m \in Believed THEN Sends(m) ELSE 0
            /\ a[0] = 0 /\ Attempts = a[k]
  BY AttemptsAre
<1> HIDE DEF k
<1>4. ASSUME NEW m \in Trace
      PROVE  LET left == h[m - 1]
                 next == h[m]
                 own  == next.verdict[Len(left.verdict) + 1]
             IN /\ left \in Left /\ next \in Left
                /\ Len(next.verdict) = Len(left.verdict) + 1
                /\ \A i \in 1 .. Len(left.verdict) : next.verdict[i] = left.verdict[i]
                /\ next.command <= left.command /\ next.ack <= left.ack
                /\ Cardinality(next.seen) <= Cardinality(left.seen)
                /\ own = "valid" =>
                     /\ SocketRows(m) = "valid"
                     /\ next.command + Sends(m) <= left.command
                     /\ Cardinality(next.seen) + Sends(m) <= Cardinality(left.seen)
                     /\ variant # "injected" => next.ack + Sends(m) <= left.ack
  <2> DEFINE left == h[m - 1]
             next == Judged(left, m)
             own  == next.verdict[Len(left.verdict) + 1]
  <2>1. left \in Left /\ h[m] = next
    BY <1>1, <1>2
  <2> HIDE DEF left
  <2>2. /\ next \in Left
        /\ Len(next.verdict) = Len(left.verdict) + 1
        /\ \A i \in 1 .. Len(left.verdict) : next.verdict[i] = left.verdict[i]
        /\ next.command <= left.command /\ next.ack <= left.ack
        /\ Cardinality(next.seen) <= Cardinality(left.seen)
        /\ own = "valid" =>
             /\ SocketRows(m) = "valid"
             /\ next.command + Sends(m) <= left.command
             /\ Cardinality(next.seen) + Sends(m) <= Cardinality(left.seen)
             /\ variant # "injected" => next.ack + Sends(m) <= left.ack
    BY <2>1, JudgedTakes
  <2> HIDE DEF next
  <2> QED
    BY <2>1, <2>2 DEF left
\* The m-th verdict is given by the m-th step, and stays.
<1> DEFINE Given(m) == /\ Len(h[m].verdict) = m
                       /\ \A i \in 1 .. m : h[m].verdict[i] = h[i].verdict[i]
           T == {m \in Nat : m <= k => Given(m)}
<1>5. T = Nat
  <2>1. 0 \in T
    BY <1>2 DEF Untouched
  <2>2. ASSUME NEW m \in T PROVE m + 1 \in T
    <3> SUFFICES ASSUME m + 1 <= k PROVE Given(m + 1)
      OBVIOUS
    <3>1. m + 1 \in Trace /\ (m + 1) - 1 = m /\ Given(m)
      BY <1>1
    <3>2. /\ Len(h[m + 1].verdict) = Len(h[m].verdict) + 1
          /\ \A i \in 1 .. Len(h[m].verdict) : h[m + 1].verdict[i] = h[m].verdict[i]
      BY <1>4, <3>1
    <3>3. Len(h[m + 1].verdict) = m + 1
      BY <3>1, <3>2
    <3>4. ASSUME NEW i \in 1 .. m + 1 PROVE h[m + 1].verdict[i] = h[i].verdict[i]
      <4>1. CASE i = m + 1
        BY <4>1
      <4>2. CASE i # m + 1
        <5>1. i \in 1 .. m
          BY <4>2
        <5> QED
          BY <3>1, <3>2, <5>1
      <4> QED
        BY <4>1, <4>2
    <3> QED
      BY <3>3, <3>4
  <2>3. T \in SUBSET Nat
    OBVIOUS
  <2> HIDE DEF T
  <2> QED
    BY <2>1, <2>2, <2>3, Induction
<1>6. \A m \in 0 .. k : Given(m)
  BY <1>1, <1>5
<1> HIDE DEF T
<1>7. ASSUME NEW m \in Trace
      PROVE  /\ Len(h[m - 1].verdict) = m - 1
             /\ m \in Believed <=> h[m].verdict[m] = "valid"
  <2>1. m - 1 \in 0 .. k /\ k \in 0 .. k /\ m \in 1 .. k
    BY <1>1
  <2>2. Len(h[m - 1].verdict) = m - 1 /\ h[k].verdict[m] = h[m].verdict[m]
    BY <1>6, <2>1
  <2>3. Verdict(m) = h[k].verdict[m]
    BY <1>2 DEF Verdict
  <2> QED
    BY <2>2, <2>3 DEF Believed
<1>8. ASSUME NEW m \in Trace
      PROVE  /\ h[m - 1] \in Left /\ h[m] \in Left
             /\ h[m].command <= h[m - 1].command /\ h[m].ack <= h[m - 1].ack
             /\ Cardinality(h[m].seen) <= Cardinality(h[m - 1].seen)
             /\ m \in Believed =>
                  /\ SocketRows(m) = "valid"
                  /\ h[m].command + Sends(m) <= h[m - 1].command
                  /\ Cardinality(h[m].seen) + Sends(m) <= Cardinality(h[m - 1].seen)
                  /\ variant # "injected" => h[m].ack + Sends(m) <= h[m - 1].ack
  <2>1. Len(h[m - 1].verdict) + 1 = m
    <3>1. m \in Nat /\ Len(h[m - 1].verdict) = m - 1
      BY <1>1, <1>7
    <3> QED
      BY <3>1
  <2> QED
    BY <1>4, <1>7, <2>1
<1>9. \A v \in Left : v.command \in Nat /\ v.ack \in Nat /\ Cardinality(v.seen) \in Nat
  BY FS_CardinalityType DEF Left
<1> DEFINE Enough(m) == /\ a[m] + h[m].command <= dump.command
                        /\ a[m] + Cardinality(h[m].seen) <= Cardinality(seen)
                        /\ variant # "injected" => a[m] + h[m].ack <= dump.ack
           U == {m \in Nat : m <= k => Enough(m)}
<1>10. dump.command \in Nat /\ dump.ack \in Nat /\ Cardinality(seen) \in Nat
  BY FS_CardinalityType DEF FramesInv
<1>11. 0 \in U
  BY <1>2, <1>3, <1>10 DEF Untouched
<1>12. ASSUME NEW m \in U PROVE m + 1 \in U
  <2> SUFFICES ASSUME m + 1 <= k PROVE Enough(m + 1)
    OBVIOUS
  <2> DEFINE t == m + 1
             now == h[m]
             next == h[m + 1]
             some == IF t \in Believed THEN Sends(t) ELSE 0
  <2>1. t \in Trace /\ t - 1 = m /\ Enough(m) /\ m \in 0 .. k /\ t \in 0 .. k
    BY <1>1
  <2>2. a[t] = a[m] + some /\ a[m] \in Nat /\ a[t] \in Nat
    BY <1>3, <2>1
  <2>3. /\ now \in Left /\ next \in Left
        /\ next.command <= now.command /\ next.ack <= now.ack
        /\ Cardinality(next.seen) <= Cardinality(now.seen)
        /\ t \in Believed =>
             /\ next.command + Sends(t) <= now.command
             /\ Cardinality(next.seen) + Sends(t) <= Cardinality(now.seen)
             /\ variant # "injected" => next.ack + Sends(t) <= now.ack
    BY <1>8, <2>1
  <2>4. Sends(t) \in Nat
    <3>1. RowsOf(t, {"can_frame_sent"}) \in Seq(Rows)
      BY <2>1, OnlyMember DEF RowInv, RowsOf
    <3> QED
      BY <3>1 DEF Sends
  <2>5. /\ next.command \in Nat /\ next.ack \in Nat /\ Cardinality(next.seen) \in Nat
        /\ now.command \in Nat /\ now.ack \in Nat /\ Cardinality(now.seen) \in Nat
    BY <1>9, <2>3
  <2>6. some \in Nat /\ next.command + some <= now.command
        /\ Cardinality(next.seen) + some <= Cardinality(now.seen)
        /\ (variant # "injected" => next.ack + some <= now.ack)
    BY <2>3, <2>4, <2>5
  <2>7. ASSUME NEW y \in Nat, NEW z \in Nat, NEW b \in Nat, a[m] + z <= b, y + some <= z
        PROVE  a[t] + y <= b
    <3>1. some \in Nat /\ a[m] \in Nat /\ a[t] = a[m] + some
      BY <2>2, <2>6
    <3> HIDE DEF some, t
    <3> QED
      BY <2>7, <3>1
  <2>8. Enough(m)
    BY <2>1
  <2> HIDE DEF some, now, next, t, U
  <2>12. /\ a[m] + now.command <= dump.command
         /\ a[m] + Cardinality(now.seen) <= Cardinality(seen)
         /\ variant # "injected" => a[m] + now.ack <= dump.ack
    BY <2>8 DEF now
  <2>9. a[t] + next.command <= dump.command
    BY <1>10, <2>5, <2>6, <2>7, <2>12
  <2>10. a[t] + Cardinality(next.seen) <= Cardinality(seen)
    BY <1>10, <2>5, <2>6, <2>7, <2>12
  <2>11. variant # "injected" => a[t] + next.ack <= dump.ack
    BY <1>10, <2>5, <2>6, <2>7, <2>12
  <2> QED
    BY <2>9, <2>10, <2>11 DEF next, t
<1>13. U = Nat
  <2>1. U \in SUBSET Nat
    OBVIOUS
  <2> HIDE DEF U
  <2> QED
    BY <1>11, <1>12, <2>1, Induction
<1>14. Enough(k) /\ h[k] \in Left /\ a[k] \in Nat
  <2>1. k \in U /\ k \in 0 .. k
    BY <1>1, <1>13
  <2> QED
    BY <2>1
<1>15. Attempts <= dump.command /\ Attempts <= Cardinality(seen)
       /\ (variant # "injected" => Attempts <= dump.ack)
  <2>1. h[k].command \in Nat /\ h[k].ack \in Nat /\ Cardinality(h[k].seen) \in Nat
    BY <1>9, <1>14
  <2>2. \A x, y, b \in Nat : x + y <= b => x <= b
    OBVIOUS
  <2> QED
    BY <1>3, <1>10, <1>14, <2>1, <2>2
<1>16. \A t \in Believed : SocketRows(t) = "valid"
  BY <1>8 DEF Believed
<1> QED
  BY <1>15, <1>16

\* What is accepted is true.
LEMMA EvidenceTrue == RowInv /\ LifeInv => AckEvidenceTrue
<1> SUFFICES ASSUME RowInv, LifeInv PROVE AckEvidenceTrue
  OBVIOUS
<1>0. FramesInv
  BY DEF LifeInv
<1>1. ASSUME NEW t \in Believed
      PROVE  Only(AckTerminals, log[t]) # <<>> /\ Lifecycle(t, Only(AckTerminals, log[t])[1])
  <2>1. CASE bus = "mock"
    BY <2>1, MockAccepts DEF Believed, Verdict
  <2>2. CASE bus # "mock"
    BY <1>0, <2>2, FramesShared, SocketAccepts
  <2> QED
    BY <2>1, <2>2
<1>2. \A t \in Believed :
             LET terminal == RowsOf(t, AckTerminals)[1].event
             IN /\ truth[t].state = IF terminal = "can_ack_received"
                                    THEN "ack_received" ELSE "retry_exhausted"
                /\ Len(Counts(t, "can_ack_wait_start")) = truth[t].waits
                /\ Len(Counts(t, "can_ack_timeout")) = truth[t].timeouts
                /\ Len(Counts(t, "can_retry_scheduled")) = truth[t].retries
  BY <1>1, LifecycleTrue DEF Believed
<1>3. bus = "vcan" =>
             /\ Attempts <= dump.command /\ Attempts <= Cardinality(seen)
             /\ variant = "control" => Attempts <= dump.ack
  BY <1>0, FramesShared
<1> QED
  BY <1>2, <1>3 DEF AckEvidenceTrue, Believed, Attempts

\* However the capture was damaged, an ACK lifecycle that an adapter accepts is
\* the one that happened, and on SocketCAN no frame and no record stands for two
\* attempts.
THEOREM AcceptsTruly == Spec => []AckEvidenceTrue
<1>1. PipelineInv /\ LifeInv => AckEvidenceTrue
  BY EvidenceTrue DEF PipelineInv
<1> QED
  BY <1>1, PipelineInvariant, LifeInvariant, PTL
=============================================================================
