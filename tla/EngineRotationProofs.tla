------------------------ MODULE EngineRotationProofs ------------------------
(***************************************************************************)
(* Selection for any finite rotation, weights, workers and bounds: the     *)
(* cursors cancel out, an escalation changes the engine, a rejection       *)
(* stands and nobody starves.  The cursors take sums over the candidates,  *)
(* a fold the library defines by recursion on sets; the first part shows   *)
(* what such a sum is.                                                     *)
(***************************************************************************)
EXTENDS EngineRotation, FiniteSetTheorems, WellFoundedInduction, TLAPS

\* A sum over a set is that of all but one, and the value at that one.
Step(f, it, s) ==
  IF s = {} THEN 0 ELSE f[CHOOSE x \in s : TRUE] + it[s \ {CHOOSE x \in s : TRUE}]
Iterates(f, S, it) == it = [s \in SUBSET S |-> Step(f, it, s)]
Sum(f, S) == SumFunctionOnSet(f, S)

\* Who is furthest ahead among the candidates.
Ahead(b, e, d) == b[e] > b[d] \/ (b[e] = b[d] /\ Order[e] <= Order[d])

SomeEngine == Engines \cup {NoEngine}

\* What a job and a selection can be.
JobRecords ==
  [kind : {"none", "implement", "verify"}, attempt : 0 .. MaxAttempt, barred : SUBSET Engines,
   assigned : SomeEngine, failed : SomeEngine]
RunRecords ==
  [at : Places, weight : UNION {[D -> Nat] : D \in SUBSET Engines},
   current : UNION {[D -> Int] : D \in SUBSET Engines}, engine : SomeEngine, row : Circuits]

\* A job that nobody runs has an attempt left, ...
Waits(j, r) ==
  r.at = "idle" => j.attempt < MaxAttempt /\ (j.kind = "none" => j = NoJob)

\* ... one that somebody runs has used an attempt, and what failed it last is the engine
\* that its row names, ...
Runs(j, r) ==
  /\ r.at # "idle" => j.kind # "none" /\ j.attempt >= 1
  /\ r.at # "running" => j.failed \in {NoEngine, j.assigned}

\* ... the candidates, and later the engine, are those that the row admits, ...
Admits(j, r) ==
  /\ r.at \in {"reading", "advancing"} =>
       DOMAIN r.weight # {} /\ DOMAIN r.weight \cap Excluded(j) = {}
  /\ r.at = "advancing" => DOMAIN r.current = DOMAIN r.weight
  /\ r.at \in {"selected", "recording"} => r.engine \in Engines \ Excluded(j)

\* ... also when the row names the engine itself.
Assigns(j, r) ==
  r.at = "running" =>
    /\ r.engine \in Engines \ j.barred
    /\ j.kind = "implement" => j.assigned = r.engine /\ (Escalates(j) => r.engine # j.failed)

Consistent(j, r) ==
  j \in JobRecords /\ r \in RunRecords /\ Waits(j, r) /\ Runs(j, r) /\ Admits(j, r) /\ Assigns(j, r)

Selections ==
  /\ job \in [Workers -> JobRecords] /\ run \in [Workers -> RunRecords]
  /\ \A w \in Workers : Consistent(job[w], run[w])

Shared ==
  /\ cursor \in [Engines -> Int]
  /\ circuit \in [Engines -> Circuits]
  /\ resting \subseteq Engines /\ torn \subseteq Engines
  /\ waits \in [Engines -> Nat] /\ lost \in 0 .. MaxLost /\ faults \in 0 .. MaxFaults

IInv == Selections /\ Shared /\ Balanced /\ RejectionStands

-----------------------------------------------------------------------------
(* Sums over finite sets                                                   *)

\* A set of numbers has a least one.
LEMMA Least ==
  ASSUME NEW T \in SUBSET Nat, T # {}
  PROVE  \E m \in T : \A n \in T : m <= n
<1> DEFINE R == OpToRel(<, Nat)
<1>1. IsWellFoundedOn(R, Nat)
  BY NatLessThanWellFounded
<1>2. \A n \in Nat, m \in Nat : n < m => <<n, m>> \in R
  BY DEF OpToRel
<1> HIDE DEF R
<1>3. PICK m \in T : \A n \in T : ~ (<<n, m>> \in R)
  BY <1>1, WFMin
<1>4. \A n \in T : ~ (n < m)
  BY <1>2, <1>3
<1> HIDE <1>2, <1>3
<1>5. m \in Nat /\ \A n \in T : n \in Nat
  OBVIOUS
<1> QED BY <1>4, <1>5

\* A family of subsets of a finite set that has a set whenever it has all those with
\* one element less, has them all.
LEMMA SubsetInduction ==
  ASSUME NEW S, IsFiniteSet(S), NEW Q,
         \A T \in SUBSET S : (\A x \in T : T \ {x} \in Q) => T \in Q
  PROVE  \A T \in SUBSET S : T \in Q
<1> DEFINE Bad == {T \in SUBSET S : T \notin Q}
           Sizes == {Cardinality(T) : T \in Bad}
<1> SUFFICES ASSUME Bad # {} PROVE FALSE
  OBVIOUS
<1>1. \A T \in SUBSET S : IsFiniteSet(T) /\ Cardinality(T) \in Nat
  BY FS_Subset, FS_CardinalityType
<1>2. Sizes \in SUBSET Nat /\ Sizes # {}
  BY <1>1
<1>3. PICK n \in Sizes : \A m \in Sizes : n <= m
  BY <1>2, Least
<1>4. PICK T \in Bad : n = Cardinality(T)
  OBVIOUS
<1>5. ASSUME NEW x \in T PROVE T \ {x} \in Q
  <2>1. Cardinality(T \ {x}) = n - 1 /\ T \ {x} \in SUBSET S
    BY <1>1, <1>4, FS_RemoveElement
  <2>2. SUFFICES ASSUME T \ {x} \notin Q PROVE FALSE
    OBVIOUS
  <2>3. Cardinality(T \ {x}) \in Sizes
    BY <2>1, <2>2
  <2> HIDE DEF Sizes
  <2>4. n \in Nat /\ n <= n - 1
    BY <1>2, <1>3, <2>1, <2>3
  <2> QED BY <2>4
<1> QED BY <1>5

\* The recursion over the subsets of a finite set defines a function.
LEMMA IterExists ==
  ASSUME NEW S, IsFiniteSet(S), NEW f
  PROVE  \E it : Iterates(f, S, it)
<1> DEFINE Upto(n) == {s \in SUBSET S : Cardinality(s) <= n}
           Bad == {n \in Nat : ~ \E it : it = [s \in Upto(n) |-> Step(f, it, s)]}
<1>1. \A s \in SUBSET S : IsFiniteSet(s) /\ Cardinality(s) \in Nat
  BY FS_Subset, FS_CardinalityType
<1>2. \A s \in SUBSET S : s # {} =>
        /\ s \ {CHOOSE x \in s : TRUE} \in SUBSET S
        /\ Cardinality(s \ {CHOOSE x \in s : TRUE}) = Cardinality(s) - 1
  <2> SUFFICES ASSUME NEW s \in SUBSET S, s # {}
               PROVE  /\ s \ {CHOOSE x \in s : TRUE} \in SUBSET S
                      /\ Cardinality(s \ {CHOOSE x \in s : TRUE}) = Cardinality(s) - 1
    OBVIOUS
  <2>1. (CHOOSE x \in s : TRUE) \in s
    OBVIOUS
  <2> QED BY <1>1, <2>1, FS_RemoveElement
<1>3. \A s \in SUBSET S : Cardinality(s) = 0 <=> s = {}
  BY <1>1, FS_EmptySet
<1>4. Bad = {}
  <2> SUFFICES ASSUME Bad # {} PROVE FALSE
    OBVIOUS
  <2>1. PICK n \in Bad : \A m \in Bad : n <= m
    BY Least
  <2>2. CASE n = 0
    <3> DEFINE it == [s \in Upto(n) |-> 0]
    <3>1. \A s \in Upto(n) : s = {}
      BY <1>1, <1>3, <2>2
    <3>2. it = [s \in Upto(n) |-> Step(f, it, s)]
      BY <3>1 DEF Step
    <3> QED BY <3>2
  <2>3. CASE n # 0
    <3>1. n \in Nat /\ n - 1 \in Nat /\ n - 1 \notin Bad
      <4>1. n \in Nat /\ n - 1 \in Nat /\ ~ (n <= n - 1)
        BY <2>3
      <4> HIDE DEF Bad
      <4> QED BY <2>1, <4>1
    <3>2. PICK g : g = [s \in Upto(n - 1) |-> Step(f, g, s)]
      BY <3>1
    <3> DEFINE it == [s \in Upto(n) |-> IF s \in Upto(n - 1) THEN g[s] ELSE Step(f, g, s)]
    <3>3. \A s \in Upto(n) : it[s] = Step(f, g, s)
      BY <3>2
    <3>4. ASSUME NEW s \in Upto(n) PROVE Step(f, g, s) = Step(f, it, s)
      <4>1. CASE s = {}
        BY <4>1 DEF Step
      <4>2. CASE s # {}
        <5> DEFINE r == s \ {CHOOSE x \in s : TRUE}
        <5>1. r \in Upto(n - 1) /\ r \in Upto(n)
          BY <1>1, <1>2, <3>1, <4>2
        <5>2. it[r] = g[r]
          BY <5>1
        <5> QED BY <5>2 DEF Step
      <4> QED BY <4>1, <4>2
    <3>5. it = [s \in Upto(n) |-> Step(f, it, s)]
      BY <3>3, <3>4
    <3> QED BY <3>5
  <2> QED BY <2>2, <2>3
<1>5. Cardinality(S) \in Nat /\ Upto(Cardinality(S)) = SUBSET S
  BY <1>1, FS_Subset
<1>6. \E it : it = [s \in Upto(Cardinality(S)) |-> Step(f, it, s)]
  BY <1>4, <1>5
<1> HIDE DEF Upto
<1> QED BY <1>5, <1>6 DEF Iterates

\* The sum over a finite set is the value of such a recursion.
LEMMA SumIterates ==
  ASSUME NEW S, IsFiniteSet(S), NEW f
  PROVE  \E it : Iterates(f, S, it) /\ Sum(f, S) = it[S]
<1>1. Sum(f, S) = (CHOOSE it : Iterates(f, S, it))[S]
  BY DEF Sum, SumFunctionOnSet, FoldFunctionOnSet, MapThenFoldSet, Iterates, Step
<1> QED BY <1>1, IterExists

\* A sum is 0 over the empty set, and otherwise adds one value to the sum of the rest.
LEMMA SumUnfolds ==
  ASSUME NEW S, IsFiniteSet(S), NEW f
  PROVE  Sum(f, S) = IF S = {} THEN 0
                     ELSE f[CHOOSE x \in S : TRUE] + Sum(f, S \ {CHOOSE x \in S : TRUE})
<1> DEFINE c == CHOOSE x \in S : TRUE
           T == S \ {c}
<1>1. PICK it : Iterates(f, S, it) /\ Sum(f, S) = it[S]
  BY SumIterates
<1>2. IsFiniteSet(T)
  BY FS_Subset
<1>3. PICK jt : Iterates(f, T, jt) /\ Sum(f, T) = jt[T]
  BY <1>2, SumIterates
<1>4. \A V \in SUBSET T : jt[V] = it[V]
  <2> DEFINE Q == {V \in SUBSET T : jt[V] = it[V]}
  <2>1. ASSUME NEW V \in SUBSET T, \A x \in V : V \ {x} \in Q
        PROVE  V \in Q
    <3>1. jt[V] = Step(f, jt, V) /\ it[V] = Step(f, it, V)
      BY <1>1, <1>3 DEF Iterates
    <3>2. Step(f, jt, V) = Step(f, it, V)
      BY <2>1 DEF Step
    <3> QED BY <3>1, <3>2
  <2> HIDE DEF Q
  <2>2. \A V \in SUBSET T : V \in Q
    BY <1>2, <2>1, SubsetInduction
  <2> QED BY <2>2 DEF Q
<1>5. it[S] = Step(f, it, S)
  BY <1>1 DEF Iterates
<1> QED BY <1>1, <1>3, <1>4, <1>5 DEF Step

\* A sum of integers is one.
LEMMA SumType ==
  ASSUME NEW S, IsFiniteSet(S), NEW f, \A e \in S : f[e] \in Int
  PROVE  \A T \in SUBSET S : Sum(f, T) \in Int
<1> DEFINE Q == {T \in SUBSET S : Sum(f, T) \in Int}
<1>1. ASSUME NEW T \in SUBSET S, \A x \in T : T \ {x} \in Q
      PROVE  T \in Q
  <2>1. IsFiniteSet(T)
    BY FS_Subset
  <2>2. CASE T = {}
    BY <2>1, <2>2, SumUnfolds
  <2>3. CASE T # {}
    <3> DEFINE c == CHOOSE x \in T : TRUE
    <3>1. c \in T
      BY <2>3
    <3>2. Sum(f, T) = f[c] + Sum(f, T \ {c})
      BY <2>1, <2>3, SumUnfolds
    <3> HIDE DEF c
    <3>3. Sum(f, T \ {c}) \in Int /\ f[c] \in Int
      BY <1>1, <3>1
    <3> QED BY <3>2, <3>3
  <2> QED BY <2>2, <2>3
<1> HIDE DEF Q
<1>2. \A T \in SUBSET S : T \in Q
  BY <1>1, SubsetInduction
<1> QED BY <1>2 DEF Q

\* It does not matter which value is added last.
LEMMA SumRemoves ==
  ASSUME NEW S, IsFiniteSet(S), NEW f, \A e \in S : f[e] \in Int
  PROVE  \A T \in SUBSET S : \A x \in T : Sum(f, T) = f[x] + Sum(f, T \ {x})
<1> DEFINE Q == {T \in SUBSET S : \A x \in T : Sum(f, T) = f[x] + Sum(f, T \ {x})}
<1>1. ASSUME NEW T \in SUBSET S, \A x \in T : T \ {x} \in Q
      PROVE  T \in Q
  <2> SUFFICES ASSUME NEW x \in T PROVE Sum(f, T) = f[x] + Sum(f, T \ {x})
    OBVIOUS
  <2> DEFINE c == CHOOSE y \in T : TRUE
  <2>1. c \in T
    OBVIOUS
  <2>2. Sum(f, T) = f[c] + Sum(f, T \ {c})
    BY FS_Subset, SumUnfolds
  <2> HIDE DEF c
  <2>3. CASE x = c
    BY <2>2, <2>3
  <2>4. CASE x # c
    <3>1. Sum(f, T \ {c}) = f[x] + Sum(f, (T \ {c}) \ {x})
      BY <1>1, <2>1, <2>4
    <3>2. Sum(f, T \ {x}) = f[c] + Sum(f, (T \ {x}) \ {c})
      BY <1>1, <2>1, <2>4
    <3>3. (T \ {c}) \ {x} = (T \ {x}) \ {c}
      OBVIOUS
    <3> DEFINE rest == Sum(f, (T \ {x}) \ {c})
    <3>4. f[c] \in Int /\ f[x] \in Int /\ rest \in Int
      BY <2>1, SumType
    <3>5. Sum(f, T \ {c}) = f[x] + rest /\ Sum(f, T \ {x}) = f[c] + rest
      BY <3>1, <3>2, <3>3
    <3> HIDE DEF rest
    <3> QED BY <2>2, <3>4, <3>5
  <2> QED BY <2>3, <2>4
<1> HIDE DEF Q
<1>2. \A T \in SUBSET S : T \in Q
  BY <1>1, SubsetInduction
<1> QED BY <1>2 DEF Q

\* The sum of two functions is the sum of their sums.
LEMMA SumAdds ==
  ASSUME NEW S, IsFiniteSet(S), NEW f, NEW g, NEW h,
         \A e \in S : f[e] \in Int /\ g[e] \in Int /\ h[e] = f[e] + g[e]
  PROVE  \A T \in SUBSET S : Sum(h, T) = Sum(f, T) + Sum(g, T)
<1> DEFINE Q == {T \in SUBSET S : Sum(h, T) = Sum(f, T) + Sum(g, T)}
<1>1. \A e \in S : h[e] \in Int
  OBVIOUS
<1>2. ASSUME NEW T \in SUBSET S, \A x \in T : T \ {x} \in Q
      PROVE  T \in Q
  <2>1. CASE T = {}
    BY <2>1, FS_EmptySet, SumUnfolds
  <2>2. CASE T # {}
    <3>1. PICK x \in T : TRUE
      BY <2>2
    <3> DEFINE U == T \ {x}
    <3>2. Sum(f, T) = f[x] + Sum(f, U) /\ Sum(f, U) \in Int
      BY SumRemoves, SumType
    <3>3. Sum(g, T) = g[x] + Sum(g, U) /\ Sum(g, U) \in Int
      BY SumRemoves, SumType
    <3>4. Sum(h, T) = h[x] + Sum(h, U) /\ Sum(h, U) = Sum(f, U) + Sum(g, U)
      BY <1>1, <1>2, SumRemoves
    <3>5. f[x] \in Int /\ g[x] \in Int /\ h[x] = f[x] + g[x]
      OBVIOUS
    <3> HIDE DEF U
    <3> QED BY <3>2, <3>3, <3>4, <3>5
  <2> QED BY <2>1, <2>2
<1> HIDE DEF Q
<1>3. \A T \in SUBSET S : T \in Q
  BY <1>2, SubsetInduction
<1> QED BY <1>3 DEF Q

\* Functions that agree on a set have the same sum over it.
LEMMA SumAgrees ==
  ASSUME NEW S, IsFiniteSet(S), NEW f, NEW g, \A e \in S : f[e] \in Int /\ f[e] = g[e]
  PROVE  \A T \in SUBSET S : Sum(f, T) = Sum(g, T)
<1> DEFINE Q == {T \in SUBSET S : Sum(f, T) = Sum(g, T)}
<1>1. \A e \in S : g[e] \in Int
  OBVIOUS
<1>2. ASSUME NEW T \in SUBSET S, \A x \in T : T \ {x} \in Q
      PROVE  T \in Q
  <2>1. CASE T = {}
    BY <2>1, FS_EmptySet, SumUnfolds
  <2>2. CASE T # {}
    <3>1. PICK x \in T : TRUE
      BY <2>2
    <3>2. Sum(f, T) = f[x] + Sum(f, T \ {x}) /\ Sum(g, T) = g[x] + Sum(g, T \ {x})
      BY <1>1, SumRemoves
    <3>3. Sum(f, T \ {x}) = Sum(g, T \ {x})
      BY <1>2
    <3>4. f[x] = g[x]
      OBVIOUS
    <3> QED BY <3>2, <3>3, <3>4
  <2> QED BY <2>1, <2>2
<1> HIDE DEF Q
<1>3. \A T \in SUBSET S : T \in Q
  BY <1>2, SubsetInduction
<1> QED BY <1>3 DEF Q

\* A set that is split is summed in two parts.
LEMMA SumSplits ==
  ASSUME NEW S, IsFiniteSet(S), NEW f, \A e \in S : f[e] \in Int, NEW C \in SUBSET S
  PROVE  Sum(f, S) = Sum(f, C) + Sum(f, S \ C)
<1> DEFINE Q == {T \in SUBSET S : Sum(f, T) = Sum(f, T \cap C) + Sum(f, T \ C)}
<1>1. ASSUME NEW T \in SUBSET S, \A x \in T : T \ {x} \in Q
      PROVE  T \in Q
  <2>1. CASE T = {}
    BY <2>1, FS_EmptySet, SumUnfolds
  <2>2. CASE T # {}
    <3>1. PICK x \in T : TRUE
      BY <2>2
    <3> DEFINE U == T \ {x}
    <3>2. Sum(f, T) = f[x] + Sum(f, U) /\ Sum(f, U) = Sum(f, U \cap C) + Sum(f, U \ C)
      BY <1>1, SumRemoves
    <3>3. Sum(f, U \cap C) \in Int /\ Sum(f, U \ C) \in Int /\ f[x] \in Int
      BY SumType
    <3>4. CASE x \in C
      <4>1. T \ C = U \ C /\ (T \cap C) \ {x} = U \cap C
        BY <3>4
      <4>2. Sum(f, T \cap C) = f[x] + Sum(f, U \cap C)
        BY <3>4, <4>1, SumRemoves
      <4>3. Sum(f, T \ C) = Sum(f, U \ C)
        BY <4>1
      <4> HIDE DEF U
      <4> QED BY <3>2, <3>3, <4>2, <4>3
    <3>5. CASE x \notin C
      <4>1. T \cap C = U \cap C /\ (T \ C) \ {x} = U \ C
        BY <3>5
      <4>2. Sum(f, T \ C) = f[x] + Sum(f, U \ C)
        BY <3>5, <4>1, SumRemoves
      <4>3. Sum(f, T \cap C) = Sum(f, U \cap C)
        BY <4>1
      <4> HIDE DEF U
      <4> QED BY <3>2, <3>3, <4>2, <4>3
    <3> QED BY <3>4, <3>5
  <2> QED BY <2>1, <2>2
<1> HIDE DEF Q
<1>2. \A T \in SUBSET S : T \in Q
  BY <1>1, SubsetInduction
<1>3. S \cap C = C
  OBVIOUS
<1> QED BY <1>2, <1>3 DEF Q

\* One value of a sum is lowered.
LEMMA SumLowered ==
  ASSUME NEW S, IsFiniteSet(S), NEW f, NEW g, \A e \in S : f[e] \in Int /\ g[e] \in Int,
         NEW p \in S, NEW total \in Int, g[p] = f[p] - total,
         \A e \in S \ {p} : g[e] = f[e]
  PROVE  Sum(g, S) = Sum(f, S) - total
<1>1. Sum(f, S) = f[p] + Sum(f, S \ {p}) /\ Sum(f, S \ {p}) \in Int
  BY SumRemoves, SumType
<1>2. Sum(g, S) = g[p] + Sum(g, S \ {p})
  BY SumRemoves
<1>3. Sum(g, S \ {p}) = Sum(f, S \ {p})
  BY FS_Subset, SumAgrees
<1>4. f[p] \in Int
  OBVIOUS
<1> QED BY <1>1, <1>2, <1>3, <1>4

\* Everyone gains its weight and one pays for all: the sum stays.
LEMMA PaymentBalances ==
  ASSUME NEW S, IsFiniteSet(S), NEW C \in SUBSET S, NEW f, NEW wt, NEW g, NEW p \in C,
         \A e \in S : f[e] \in Int, \A e \in C : wt[e] \in Int,
         g[p] = f[p] + wt[p] - Sum(wt, C),
         \A e \in C \ {p} : g[e] = f[e] + wt[e],
         \A e \in S \ C : g[e] = f[e]
  PROVE  Sum(g, S) = Sum(f, S)
<1> DEFINE h == [e \in C |-> f[e] + wt[e]]
           total == Sum(wt, C)
<1>1. IsFiniteSet(C) /\ IsFiniteSet(S \ C)
  BY FS_Subset
<1>2. total \in Int /\ g[p] = f[p] + wt[p] - total
  BY <1>1, SumType
<1>3. \A e \in C : h[e] = f[e] + wt[e] /\ h[e] \in Int /\ f[e] \in Int /\ wt[e] \in Int
  OBVIOUS
<1> HIDE DEF h
<1>4. Sum(h, C) = Sum(f, C) + total
  BY <1>1, <1>3, SumAdds
<1> HIDE DEF total
<1>5. g[p] = h[p] - total /\ \A e \in C \ {p} : g[e] = h[e]
  BY <1>2, <1>3
<1>6. \A e \in C : g[e] \in Int
  BY <1>2, <1>3, <1>5
<1>7. Sum(g, C) = Sum(h, C) - total
  BY <1>1, <1>2, <1>3, <1>5, <1>6, SumLowered
<1>8. Sum(g, S \ C) = Sum(f, S \ C)
  BY <1>1, SumAgrees
<1>9. \A e \in S : g[e] \in Int
  BY <1>6
<1>10. Sum(g, S) = Sum(g, C) + Sum(g, S \ C)
  BY <1>9, SumSplits
<1>11. Sum(f, S) = Sum(f, C) + Sum(f, S \ C)
  BY SumSplits
<1>12. Sum(f, C) \in Int /\ Sum(f, S \ C) \in Int
  BY SumType
<1> QED BY <1>2, <1>4, <1>7, <1>8, <1>10, <1>11, <1>12

\* A sum of values that are not negative is not, and one over fewer of them not more.
LEMMA SumNatural ==
  ASSUME NEW S, IsFiniteSet(S), NEW f, \A e \in S : f[e] \in Nat
  PROVE  /\ \A T \in SUBSET S : Sum(f, T) \in Nat
         /\ \A T \in SUBSET S : Sum(f, T) <= Sum(f, S)
<1> DEFINE Q == {T \in SUBSET S : Sum(f, T) \in Nat}
<1>1. ASSUME NEW T \in SUBSET S, \A x \in T : T \ {x} \in Q
      PROVE  T \in Q
  <2>1. CASE T = {}
    BY <2>1, FS_EmptySet, SumUnfolds
  <2>2. CASE T # {}
    <3>1. PICK x \in T : TRUE
      BY <2>2
    <3>2. Sum(f, T) = f[x] + Sum(f, T \ {x})
      BY SumRemoves
    <3>3. Sum(f, T \ {x}) \in Nat /\ f[x] \in Nat
      BY <1>1
    <3> QED BY <3>2, <3>3
  <2> QED BY <2>1, <2>2
<1> HIDE DEF Q
<1>2. \A T \in SUBSET S : T \in Q
  BY <1>1, SubsetInduction
<1>3. \A T \in SUBSET S : Sum(f, T) \in Nat
  BY <1>2 DEF Q
<1>4. ASSUME NEW T \in SUBSET S PROVE Sum(f, T) <= Sum(f, S)
  <2>1. Sum(f, S) = Sum(f, T) + Sum(f, S \ T)
    BY SumSplits
  <2>2. Sum(f, T) \in Nat /\ Sum(f, S \ T) \in Nat
    BY <1>3
  <2> QED BY <2>1, <2>2
<1> QED BY <1>3, <1>4

\* A sum of values up to c is at most c for each of them.
LEMMA SumAtMost ==
  ASSUME NEW S, IsFiniteSet(S), NEW f, NEW c \in Int, \A e \in S : f[e] \in Int /\ f[e] <= c
  PROVE  \A T \in SUBSET S : Sum(f, T) <= Cardinality(T) * c
<1> DEFINE Q == {T \in SUBSET S : Sum(f, T) <= Cardinality(T) * c}
<1>1. ASSUME NEW T \in SUBSET S, \A x \in T : T \ {x} \in Q
      PROVE  T \in Q
  <2>1. CASE T = {}
    <3>1. Sum(f, T) = 0 /\ Cardinality(T) = 0
      BY <2>1, FS_EmptySet, SumUnfolds
    <3> QED BY <3>1
  <2>2. CASE T # {}
    <3>1. PICK x \in T : TRUE
      BY <2>2
    <3> DEFINE n == Cardinality(T \ {x})
               s == Sum(f, T \ {x})
    <3>2. IsFiniteSet(T) /\ IsFiniteSet(T \ {x})
      BY FS_Subset
    <3>3. n \in Nat /\ Cardinality(T) = n + 1
      BY <3>1, <3>2, FS_RemoveElement, FS_CardinalityType
    <3>4. Sum(f, T) = f[x] + s /\ s \in Int
      BY SumRemoves, SumType
    <3>5. s <= n * c /\ f[x] <= c /\ f[x] \in Int
      BY <1>1
    <3> HIDE DEF n, s
    <3>6. f[x] + s <= (n + 1) * c
      BY <3>3, <3>4, <3>5
    <3> QED BY <3>3, <3>4, <3>6
  <2> QED BY <2>1, <2>2
<1> HIDE DEF Q
<1>2. \A T \in SUBSET S : T \in Q
  BY <1>1, SubsetInduction
<1> QED BY <1>2 DEF Q

\* A sum is that over the part where the values are not 0.
LEMMA SumSupport ==
  ASSUME NEW S, IsFiniteSet(S), NEW f, \A e \in S : f[e] \in Int,
         NEW C \in SUBSET S, \A e \in S \ C : f[e] = 0
  PROVE  Sum(f, S) = Sum(f, C)
<1>1. Sum(f, S) = Sum(f, C) + Sum(f, S \ C)
  BY SumSplits
<1>2. Sum(f, S \ C) <= Cardinality(S \ C) * 0 /\ \A e \in S \ C : f[e] \in Nat
  BY SumAtMost, FS_Subset
<1>3. Sum(f, S \ C) \in Nat
  <2> DEFINE R == S \ C
  <2>1. IsFiniteSet(R) /\ \A e \in R : f[e] \in Nat
    BY <1>2, FS_Subset
  <2> HIDE DEF R
  <2>2. Sum(f, R) \in Nat
    BY <2>1, SumNatural
  <2> QED BY <2>2 DEF R
<1>4. Cardinality(S \ C) * 0 = 0
  BY FS_Subset, FS_CardinalityType
<1>5. Sum(f, C) \in Int
  BY SumType
<1> QED BY <1>1, <1>2, <1>3, <1>4, <1>5

\* Somebody is furthest ahead.
LEMMA FurthestExists ==
  ASSUME NEW C \in SUBSET Engines, C # {}, NEW b \in [C -> Int]
  PROVE  \E e \in C : \A d \in C : Ahead(b, e, d)
<1> DEFINE Q == {T \in SUBSET C : T # {} => \E e \in T : \A d \in T : Ahead(b, e, d)}
<1>1. IsFiniteSet(C) /\ Order \in [Engines -> Nat]
  BY EngineAssumption, OrderAssumption, FS_Subset
<1>2. ASSUME NEW T \in SUBSET C, \A x \in T : T \ {x} \in Q
      PROVE  T \in Q
  <2> SUFFICES ASSUME T # {} PROVE \E e \in T : \A d \in T : Ahead(b, e, d)
    OBVIOUS
  <2>1. PICK x \in T : TRUE
    OBVIOUS
  <2>2. Ahead(b, x, x)
    BY <1>1 DEF Ahead
  <2>3. CASE T = {x}
    BY <2>2, <2>3
  <2>4. CASE T # {x}
    <3>1. PICK e \in T \ {x} : \A d \in T \ {x} : Ahead(b, e, d)
      BY <1>2, <2>4
    <3>2. \A d \in T : b[d] \in Int /\ Order[d] \in Nat
      BY <1>1
    <3>3. Ahead(b, e, x) \/ Ahead(b, x, e)
      BY <3>2 DEF Ahead
    <3>4. Ahead(b, x, e) => \A d \in T \ {x} : Ahead(b, x, d)
      BY <3>1, <3>2 DEF Ahead
    <3> QED BY <2>2, <3>1, <3>3, <3>4
  <2> QED BY <2>3, <2>4
<1> HIDE DEF Q
<1>3. \A T \in SUBSET C : T \in Q
  BY <1>1, <1>2, SubsetInduction
<1> QED BY <1>3 DEF Q

-----------------------------------------------------------------------------
(* How far ahead a group of engines can get                                *)

\* No group of engines is further ahead than its size, that of the others and the
\* largest weight w allow.
Spread(f, S, w) ==
  \A T \in SUBSET S : Sum(f, T) <= w * (Cardinality(T) * (Cardinality(S) - Cardinality(T)))

\* The bound of a group of k among n, from that of the k - j in it that are not
\* candidates and that of the group with the winner.
LEMMA SpreadBound ==
  ASSUME NEW w \in Int, NEW k \in Int, NEW j \in Nat, NEW n \in Int,
         NEW r \in Int, NEW s \in Int, NEW b \in Int,
         s <= j * b,
         r <= w * ((k - j) * (n - (k - j))),
         r + s + b <= w * ((k + 1) * (n - (k + 1))) + (j + 1) * w
  PROVE  r + s <= w * (k * (n - k))
<1> DEFINE rest == w * ((k - j) * (n - (k - j)))
           more == w * ((k + 1) * (n - (k + 1))) + (j + 1) * w
           mine == w * (k * (n - k))
<1>1. rest + j * more = (j + 1) * mine
  OBVIOUS
<1>2. rest \in Int /\ more \in Int /\ mine \in Int
  OBVIOUS
<1>3. s <= j * b /\ r <= rest /\ r + s + b <= more
  OBVIOUS
<1> HIDE DEF rest, more, mine
<1>4. j * (r + s + b) <= j * more
  BY <1>2, <1>3
<1>5. (j + 1) * (r + s) = r + j * (r + s + b) + (s - j * b)
  OBVIOUS
<1>6. (j + 1) * (r + s) <= (j + 1) * mine
  <2>1. j * (r + s + b) \in Int /\ j * more \in Int /\ j * b \in Int
    BY <1>2
  <2> QED BY <1>1, <1>2, <1>3, <1>4, <1>5, <2>1
<1>7. r + s <= mine
  BY <1>2, <1>6
<1> QED BY <1>7 DEF mine

\* A selection among the candidates C, whose gains are up to w, keeps the spread: the
\* winner p, who is ahead of the other candidates, pays what all of them gain.
LEMMA SelectionSpreads ==
  ASSUME NEW S, IsFiniteSet(S), NEW C \in SUBSET S, NEW p \in C, NEW w \in Nat,
         NEW f, NEW gain, NEW h, NEW g,
         \A e \in S : /\ f[e] \in Int /\ gain[e] \in 0 .. w /\ h[e] = f[e] + gain[e]
                      /\ e \notin C => gain[e] = 0,
         \A e \in C : h[e] <= h[p],
         g[p] = h[p] - Sum(gain, S),
         \A e \in S \ {p} : g[e] = h[e],
         Spread(f, S, w)
  PROVE  Spread(g, S, w)
<1> SUFFICES ASSUME NEW T \in SUBSET S
             PROVE  Sum(g, T) <= w * (Cardinality(T) * (Cardinality(S) - Cardinality(T)))
  BY DEF Spread
<1> DEFINE k == Cardinality(T)
           n == Cardinality(S)
           mine == w * (k * (n - k))
<1>1. \A U \in SUBSET S : IsFiniteSet(U) /\ Cardinality(U) \in Nat
  BY FS_Subset, FS_CardinalityType
<1>2. k \in Int /\ n \in Int
  BY <1>1
<1>3. mine \in Int
  <2> HIDE DEF k, n
  <2> QED BY <1>2
<1>4. \A e \in S : f[e] \in Int /\ gain[e] \in Nat /\ h[e] \in Int
  OBVIOUS
<1>5. \A U \in SUBSET S : /\ Sum(f, U) \in Int /\ Sum(gain, U) \in Nat /\ Sum(h, U) \in Int
                          /\ Sum(h, U) = Sum(f, U) + Sum(gain, U)
  BY <1>4, SumType, SumNatural, SumAdds
<1>6. \A e \in S : g[e] \in Int
  BY <1>4, <1>5
<1>7. Sum(f, T) <= mine
  BY DEF Spread
<1>8. CASE p \in T
  <2> DEFINE total == Sum(gain, S)
  <2>1. total \in Int /\ g[p] = h[p] - total /\ \A e \in T \ {p} : g[e] = h[e]
    BY <1>5
  <2>2. \A e \in T : h[e] \in Int /\ g[e] \in Int
    BY <1>4, <1>6
  <2>3. IsFiniteSet(T)
    BY <1>1
  <2>4. Sum(gain, T) <= total
    BY <1>4, SumNatural
  <2> HIDE DEF total
  <2>5. Sum(g, T) = Sum(h, T) - total
    BY <1>8, <2>1, <2>2, <2>3, SumLowered
  <2>6. Sum(f, T) \in Int /\ Sum(gain, T) \in Int /\ Sum(h, T) = Sum(f, T) + Sum(gain, T)
    BY <1>5
  <2> HIDE DEF mine
  <2> QED BY <1>3, <1>7, <2>1, <2>4, <2>5, <2>6 DEF mine
<1>9. CASE p \notin T
  <2> DEFINE J == T \cap C
             R == T \ C
             U == T \cup {p}
             j == Cardinality(J)
             r == Sum(f, R)
             s == Sum(h, J)
             b == h[p]
  <2>1. J \in SUBSET S /\ R \in SUBSET S /\ U \in SUBSET S /\ p \in U /\ U \ {p} = T
    BY <1>9
  <2>2. IsFiniteSet(T) /\ IsFiniteSet(J) /\ IsFiniteSet(R) /\ IsFiniteSet(U) /\ j \in Nat
    BY <1>1, <2>1
  <2>3. r \in Int /\ s \in Int /\ b \in Int
    BY <1>4, <1>5, <2>1
  <2>4. Cardinality(R) = k - j
    BY <2>2, FS_Difference
  <2>5. Cardinality(U) = k + 1
    BY <1>9, <2>2, FS_AddElement
  <2>6. Sum(g, T) = Sum(h, T)
    <3>1. \A e \in T : g[e] \in Int /\ g[e] = h[e]
      BY <1>6, <1>9
    <3> QED BY <2>2, <3>1, SumAgrees
  <2>7. Sum(h, T) = s + Sum(h, R)
    <3>1. \A e \in T : h[e] \in Int
      BY <1>4
    <3>2. Sum(h, T) = Sum(h, J) + Sum(h, T \ J)
      BY <2>2, <3>1, SumSplits
    <3>3. T \ J = R
      OBVIOUS
    <3> QED BY <3>2, <3>3
  <2>8. Sum(h, R) = r
    <3>1. \A e \in R : f[e] \in Int /\ f[e] = h[e]
      BY <1>4
    <3> HIDE DEF R
    <3>2. Sum(f, R) = Sum(h, R)
      BY <2>2, <3>1, SumAgrees
    <3> QED BY <3>2
  <2>9. s <= j * b
    <3>1. \A e \in J : h[e] \in Int /\ h[e] <= b
      BY <1>4
    <3> HIDE DEF J, b
    <3> QED BY <2>2, <2>3, <3>1, SumAtMost
  <2>10. r <= w * ((k - j) * (n - (k - j)))
    <3>1. Sum(f, R) <= w * (Cardinality(R) * (Cardinality(S) - Cardinality(R)))
      BY <2>1 DEF Spread
    <3> QED BY <2>4, <3>1
  <2>11. r + s + b <= w * ((k + 1) * (n - (k + 1))) + (j + 1) * w
    <3> DEFINE V == J \cup {p}
    <3>1. Sum(f, U) <= w * (Cardinality(U) * (Cardinality(S) - Cardinality(U)))
      BY <2>1 DEF Spread
    <3>2. Sum(h, U) = b + Sum(h, T) /\ Sum(h, U) = Sum(f, U) + Sum(gain, U)
      <4>1. Sum(h, U) = h[p] + Sum(h, U \ {p})
        BY <1>4, <2>1, SumRemoves
      <4> QED BY <1>5, <2>1, <4>1
    <3>3. V \in SUBSET U /\ V \in SUBSET S /\ IsFiniteSet(V) /\ Cardinality(V) = j + 1
      BY <1>9, <2>1, <2>2, FS_AddElement
    <3>4. Sum(gain, U) = Sum(gain, V)
      <4>1. \A e \in U : gain[e] \in Int
        BY <1>4, <2>1
      <4>2. \A e \in U \ V : gain[e] = 0
        OBVIOUS
      <4> HIDE DEF U, V
      <4> QED BY <2>2, <3>3, <4>1, <4>2, SumSupport
    <3>5. Sum(gain, V) <= (j + 1) * w
      <4>1. \A e \in V : gain[e] \in Int /\ gain[e] <= w
        BY <3>3
      <4> HIDE DEF V
      <4>2. Sum(gain, V) <= Cardinality(V) * w
        BY <3>3, <4>1, SumAtMost
      <4> QED BY <3>3, <4>2
    <3>6. /\ Sum(f, U) \in Int /\ Sum(gain, U) \in Int /\ Sum(h, T) \in Int
      BY <1>5, <2>1
    <3> DEFINE more == w * ((k + 1) * (n - (k + 1)))
               gains == (j + 1) * w
    <3>7. Sum(f, U) <= more
      BY <2>5, <3>1
    <3>8. Sum(gain, U) <= gains
      BY <3>4, <3>5
    <3>9. more \in Int /\ gains \in Int
      <4> HIDE DEF k, n, j
      <4> QED BY <1>2, <2>2
    <3>10. r + s + b = Sum(f, U) + Sum(gain, U)
      BY <2>3, <2>7, <2>8, <3>2, <3>6
    <3> HIDE DEF more, gains, r, s, b, U
    <3>11. r + s + b <= more + gains
      BY <3>6, <3>7, <3>8, <3>9, <3>10
    <3> QED BY <3>11 DEF more, gains
  <2> HIDE DEF k, n, j, r, s, b
  <2>12. r + s <= w * (k * (n - k))
    BY <1>2, <2>2, <2>3, <2>9, <2>10, <2>11, SpreadBound
  <2>13. Sum(g, T) = r + s
    BY <2>3, <2>6, <2>7, <2>8
  <2> QED BY <2>12, <2>13 DEF k, n
<1> QED BY <1>8, <1>9

-----------------------------------------------------------------------------
(* Jobs and selections                                                     *)

\* The candidates of a selection are engines and have numbers.
LEMMA Candidates ==
  ASSUME NEW r \in RunRecords
  PROVE  /\ DOMAIN r.weight \in SUBSET Engines /\ r.weight \in [DOMAIN r.weight -> Nat]
         /\ DOMAIN r.current \in SUBSET Engines /\ r.current \in [DOMAIN r.current -> Int]
<1>1. PICK D \in SUBSET Engines : r.weight \in [D -> Nat]
  BY DEF RunRecords
<1>2. PICK C \in SUBSET Engines : r.current \in [C -> Int]
  BY DEF RunRecords
<1> QED BY <1>1, <1>2

\* A worker without a selection is consistent with any job that waits.
LEMMA IdleIs ==
  /\ Idle \in RunRecords /\ Idle.at = "idle"
  /\ NoJob \in JobRecords /\ Consistent(NoJob, Idle)
  /\ \A j \in JobRecords :
       (/\ j.attempt < MaxAttempt /\ (j.kind = "none" => j = NoJob)
        /\ j.failed \in {NoEngine, j.assigned})
         => Consistent(j, Idle)
<1>1. <<>> \in [{} -> Nat] /\ <<>> \in [{} -> Int]
  OBVIOUS
<1>2. <<>> \in UNION {[D -> Nat] : D \in SUBSET Engines}
  BY <1>1
<1>3. <<>> \in UNION {[D -> Int] : D \in SUBSET Engines}
  BY <1>1
<1>4. Idle \in RunRecords /\ Idle.at = "idle"
  BY <1>2, <1>3 DEF Idle, RunRecords, Places, Circuits, SomeEngine
<1>5. NoJob \in JobRecords /\ NoJob.attempt < MaxAttempt /\ NoJob.failed = NoEngine
  BY BoundAssumption DEF NoJob, JobRecords, SomeEngine
<1>6. \A j \in JobRecords :
       (/\ j.attempt < MaxAttempt /\ (j.kind = "none" => j = NoJob)
        /\ j.failed \in {NoEngine, j.assigned})
         => Consistent(j, Idle)
  BY <1>4 DEF Consistent, Waits, Runs, Admits, Assigns
<1> QED BY <1>4, <1>5, <1>6

\* A job that is claimed has used an attempt and keeps its history.
LEMMA ClaimedIs ==
  ASSUME Selections, NEW w \in Workers, run[w].at = "idle", NEW j \in Claims(w)
  PROVE  /\ j \in JobRecords /\ j.kind # "none" /\ j.attempt >= 1
         /\ j.failed \in {NoEngine, j.assigned}
<1>1. Consistent(job[w], run[w])
  BY DEF Selections
<1>2. CASE job[w] # NoJob
  <2>1. j = [job[w] EXCEPT !.attempt = @ + 1]
    BY <1>2 DEF Claims
  <2>2. /\ job[w] \in JobRecords /\ job[w].attempt < MaxAttempt /\ job[w].kind # "none"
        /\ job[w].failed \in {NoEngine, job[w].assigned}
    BY <1>1, <1>2 DEF Consistent, Waits, Runs
  <2>3. job[w].attempt + 1 \in 1 .. MaxAttempt
    BY <2>2, BoundAssumption DEF JobRecords
  <2> QED BY <2>1, <2>2, <2>3 DEF JobRecords
<1>3. CASE job[w] = NoJob
  <2>1. \/ j = Fresh("implement", {})
        \/ \E e \in Verified : j = Fresh("verify", {e})
    BY <1>3 DEF Claims
  <2>2. {} \in SUBSET Engines /\ \A e \in Verified : {e} \in SUBSET Engines
    BY EngineAssumption
  <2>3. PICK kind \in {"implement", "verify"}, barred \in SUBSET Engines :
          j = Fresh(kind, barred)
    BY <2>1, <2>2
  <2>4. 1 \in 0 .. MaxAttempt
    BY BoundAssumption
  <2>5. j = [kind |-> kind, attempt |-> 1, barred |-> barred, assigned |-> NoEngine,
             failed |-> NoEngine]
    BY <2>3 DEF Fresh, NoJob
  <2> QED BY <2>4, <2>5 DEF JobRecords, SomeEngine
<1> QED BY <1>2, <1>3

\* A job that is deferred has an attempt left.
LEMMA DeferredIs ==
  ASSUME NEW j \in JobRecords, j.kind # "none", j.attempt >= 1
  PROVE  Deferred(j) \in JobRecords /\ Consistent(Deferred(j), Idle)
<1>1. j.attempt - 1 \in 0 .. MaxAttempt /\ j.attempt - 1 < MaxAttempt
  BY BoundAssumption DEF JobRecords
<1>2. /\ Deferred(j) \in JobRecords /\ Deferred(j).attempt = j.attempt - 1
      /\ Deferred(j).kind = j.kind /\ Deferred(j).failed = NoEngine
  BY <1>1 DEF Deferred, JobRecords, SomeEngine
<1> QED BY <1>1, <1>2, IdleIs

\* A weight is a number.
LEMMA WeightIs ==
  ASSUME NEW j, NEW e \in Engines
  PROVE  Weight(j, e) \in Nat
<1>1. Base[e] \in Nat
  BY WeightAssumption
<1> DEFINE health == IF circuit[e] = "closed" THEN 4 ELSE 1
           warmth == IF Warm(j, e) THEN 2 ELSE 1
<1>2. Base[e] * health \in Nat
  BY <1>1
<1>3. Base[e] * health * warmth \in Nat
  <2> DEFINE b == Base[e] * health
  <2> HIDE DEF b
  <2>1. b \in Nat => b * warmth \in Nat
    OBVIOUS
  <2> QED BY <1>2, <2>1 DEF b
<1> DEFINE q == Base[e] * health * warmth
<1>4. Weight(j, e) = Rounded(q)
  BY DEF Weight
<1> HIDE DEF q
<1>5. q \in Nat => Rounded(q) \in Nat
  BY DEF Rounded
<1> QED BY <1>3, <1>4, <1>5 DEF q

\* One worker goes on with a consistent job and selection, the others stay.
LEMMA Moves ==
  ASSUME Selections, NEW w \in Workers, NEW j, NEW r, Consistent(j, r),
         job' = [job EXCEPT ![w] = j], run' = [run EXCEPT ![w] = r]
  PROVE  Selections'
<1>1. j \in JobRecords /\ r \in RunRecords
  BY DEF Consistent
<1>2. job' \in [Workers -> JobRecords] /\ run' \in [Workers -> RunRecords]
  BY <1>1 DEF Selections
<1>3. ASSUME NEW v \in Workers PROVE Consistent(job'[v], run'[v])
  <2>1. CASE v = w
    BY <2>1 DEF Selections
  <2>2. CASE v # w
    BY <2>2 DEF Selections
  <2> QED BY <2>1, <2>2
<1>4. (\A v \in Workers : Consistent(job[v], run[v]))' <=>
        \A v \in Workers : Consistent(job'[v], run'[v])
  BY DEF Consistent, Waits, Runs, Admits, Assigns, JobRecords, RunRecords, SomeEngine,
         Places, Circuits, NoJob, Excluded, Retries, Escalates, Tier
<1> QED BY <1>2, <1>3, <1>4 DEF Selections, JobRecords, RunRecords, SomeEngine, Places, Circuits

\* Whoever is furthest ahead is a candidate.
LEMMA WinnerIs ==
  ASSUME Selections, NEW w \in Workers, run[w].at = "advancing"
  PROVE  /\ DOMAIN run[w].weight \in SUBSET Engines
         /\ run[w].weight \in [DOMAIN run[w].weight -> Nat]
         /\ run[w].current \in [DOMAIN run[w].weight -> Int]
         /\ Winner(w) \in DOMAIN run[w].weight
         /\ Winner(w) \in Engines \ Excluded(job[w])
<1> DEFINE D == DOMAIN run[w].weight
<1>1. Consistent(job[w], run[w]) /\ run[w] \in RunRecords
  BY DEF Selections
<1>2. /\ D \in SUBSET Engines /\ D # {} /\ D \cap Excluded(job[w]) = {}
      /\ run[w].weight \in [D -> Nat] /\ run[w].current \in [D -> Int]
  BY <1>1, Candidates DEF Consistent, Admits
<1>3. Bumped(w) \in [D -> Int]
  BY <1>2 DEF Bumped
<1>4. Winner(w) = CHOOSE e \in D : \A d \in D : Ahead(Bumped(w), e, d)
  BY DEF Winner, Ahead
<1> HIDE DEF D
<1>5. \E e \in D : \A d \in D : Ahead(Bumped(w), e, d)
  BY <1>2, <1>3, FurthestExists
<1>6. Winner(w) \in D
  BY <1>4, <1>5
<1> QED BY <1>2, <1>6 DEF D

\* What looking records.
LEMMA LookRecords ==
  ASSUME NEW w \in Workers, Look(w)
  PROVE  \E j \in Claims(w) :
           /\ Eligible(j) # {}
           /\ job' = [job EXCEPT ![w] = j]
           /\ run' = [run EXCEPT ![w] =
                        [Idle EXCEPT !.at = "reading",
                                     !.weight = [e \in Eligible(j) |-> Weight(j, e)]]]
BY DEF Look

\* The candidates that are looked up are admitted by the job.
LEMMA LookSelects ==
  ASSUME IInv, NEW w \in Workers, Look(w)
  PROVE  Selections'
<1>1. PICK j \in Claims(w) :
        /\ Eligible(j) # {}
        /\ job' = [job EXCEPT ![w] = j]
        /\ run' = [run EXCEPT ![w] =
                     [Idle EXCEPT !.at = "reading",
                                  !.weight = [e \in Eligible(j) |-> Weight(j, e)]]]
  BY DEF Look
<1> DEFINE wt == [e \in Eligible(j) |-> Weight(j, e)]
           r == [Idle EXCEPT !.at = "reading", !.weight = wt]
<1>2. run[w].at = "idle" /\ Selections
  BY DEF Look, IInv
<1>3. /\ j \in JobRecords /\ j.kind # "none" /\ j.attempt >= 1
      /\ j.failed \in {NoEngine, j.assigned}
  BY <1>2, ClaimedIs
<1>4. Eligible(j) \in SUBSET Engines /\ Eligible(j) \cap Excluded(j) = {}
  BY DEF Eligible
<1>5. wt \in [Eligible(j) -> Nat] /\ DOMAIN wt = Eligible(j)
  BY <1>4, WeightIs
<1> HIDE DEF wt
<1>6. wt \in UNION {[D -> Nat] : D \in SUBSET Engines}
  BY <1>4, <1>5
<1>7. r \in RunRecords /\ r.at = "reading" /\ r.weight = wt
  BY <1>6, IdleIs DEF RunRecords, Places, Idle
<1> HIDE DEF r
<1>8. Consistent(j, r)
  BY <1>1, <1>3, <1>4, <1>5, <1>7 DEF Consistent, Waits, Runs, Admits, Assigns
<1>9. run' = [run EXCEPT ![w] = r]
  BY <1>1 DEF r, wt
<1> QED BY <1>1, <1>2, <1>8, <1>9, Moves

\* A job without candidates is deferred.
LEMMA NoneEligibleSelects ==
  ASSUME IInv, NEW w \in Workers, NoneEligible(w)
  PROVE  Selections'
<1>1. PICK j \in Claims(w) : job' = [job EXCEPT ![w] = Deferred(j)]
  BY DEF NoneEligible
<1>2. run[w].at = "idle" /\ Selections /\ run' = run
  BY DEF NoneEligible, IInv
<1>3. Consistent(Deferred(j), Idle)
  BY <1>2, ClaimedIs, DeferredIs
<1>4. Consistent(Deferred(j), run[w])
  <2>1. run[w] \in RunRecords
    BY <1>2 DEF Selections
  <2> QED BY <1>2, <1>3, <2>1, IdleIs DEF Consistent, Waits, Runs, Admits, Assigns
<1>5. run' = [run EXCEPT ![w] = run[w]]
  BY <1>2 DEF Selections
<1> QED BY <1>1, <1>2, <1>4, <1>5, Moves

\* The cursors that are read are those of the candidates.
LEMMA ReadCursorsSelects ==
  ASSUME IInv, NEW w \in Workers, ReadCursors(w)
  PROVE  Selections'
<1> DEFINE D == DOMAIN run[w].weight
           cur == [e \in D |-> cursor[e]]
           r == [run[w] EXCEPT !.at = "advancing", !.current = cur]
<1>1. Selections /\ run[w].at = "reading" /\ run[w] \in RunRecords /\ Consistent(job[w], run[w])
  BY DEF IInv, ReadCursors, Selections
<1>2. D \in SUBSET Engines
  BY <1>1, Candidates
<1>3. cur \in [D -> Int] /\ DOMAIN cur = D
  BY <1>2 DEF IInv, Shared
<1>4. cur \in UNION {[C -> Int] : C \in SUBSET Engines}
  BY <1>2, <1>3
<1>5. run' = [run EXCEPT ![w] = r] /\ job' = [job EXCEPT ![w] = job[w]]
  BY <1>1 DEF ReadCursors, Selections
<1> HIDE DEF cur
<1>6. r \in RunRecords /\ r.at = "advancing" /\ r.weight = run[w].weight /\ r.current = cur
  BY <1>1, <1>4 DEF RunRecords, Places
<1> HIDE DEF r
<1>7. Consistent(job[w], r)
  BY <1>1, <1>3, <1>6 DEF Consistent, Waits, Runs, Admits, Assigns
<1> QED BY <1>1, <1>5, <1>7, Moves

\* The engine that is selected is a candidate.
LEMMA AdvanceSelects ==
  ASSUME IInv, NEW w \in Workers, Advance(w)
  PROVE  Selections'
<1> DEFINE r == [Idle EXCEPT !.at = "selected", !.engine = Winner(w)]
<1>1. Selections /\ run[w].at = "advancing" /\ Consistent(job[w], run[w])
  BY DEF IInv, Advance, Selections
<1>2. Winner(w) \in Engines \ Excluded(job[w])
  BY <1>1, WinnerIs
<1>3. run' = [run EXCEPT ![w] = r] /\ job' = [job EXCEPT ![w] = job[w]]
  BY <1>1 DEF Advance, Selections
<1>4. r \in RunRecords /\ r.at = "selected" /\ r.engine = Winner(w)
  BY <1>2, IdleIs DEF RunRecords, Places, Idle, SomeEngine
<1> HIDE DEF r
<1>5. Consistent(job[w], r)
  BY <1>1, <1>2, <1>4 DEF Consistent, Waits, Runs, Admits, Assigns
<1> QED BY <1>1, <1>3, <1>5, Moves

\* Reading the health row of the engine changes neither it nor the job.
LEMMA GetSelectedSelects ==
  ASSUME IInv, NEW w \in Workers, GetSelected(w)
  PROVE  Selections'
<1> DEFINE r == [run[w] EXCEPT !.at = "recording", !.row = circuit[run[w].engine]]
<1>1. /\ Selections /\ run[w].at = "selected" /\ run[w] \in RunRecords
      /\ Consistent(job[w], run[w])
  BY DEF IInv, GetSelected, Selections
<1>2. run[w].engine \in Engines /\ circuit[run[w].engine] \in Circuits
  BY <1>1 DEF Consistent, Admits, IInv, Shared
<1>3. run' = [run EXCEPT ![w] = r] /\ job' = [job EXCEPT ![w] = job[w]]
  BY <1>1 DEF GetSelected, Selections
<1>4. r \in RunRecords /\ r.at = "recording" /\ r.engine = run[w].engine
  BY <1>1, <1>2 DEF RunRecords, Places
<1> HIDE DEF r
<1>5. Consistent(job[w], r)
  BY <1>1, <1>4 DEF Consistent, Waits, Runs, Admits, Assigns
<1> QED BY <1>1, <1>3, <1>5, Moves

\* The engine goes into the row of an implement job: on a higher tier, it is not the one
\* the row named, which is the one that failed if any did.
LEMMA RecordSelectionSelects ==
  ASSUME IInv, NEW w \in Workers, RecordSelection(w)
  PROVE  Selections'
<1> DEFINE e == run[w].engine
           j == [job[w] EXCEPT !.assigned = IF job[w].kind = "implement" THEN e ELSE @]
           r == [run[w] EXCEPT !.at = "running", !.row = "closed"]
<1>1. /\ Selections /\ run[w].at = "recording" /\ run[w] \in RunRecords
      /\ Consistent(job[w], run[w]) /\ job[w] \in JobRecords
  BY DEF IInv, RecordSelection, Selections
<1>2. /\ e \in Engines \ Excluded(job[w]) /\ job[w].kind # "none" /\ job[w].attempt >= 1
      /\ job[w].failed \in {NoEngine, job[w].assigned}
  BY <1>1 DEF Consistent, Admits, Runs
<1>3. e \notin job[w].barred
  BY <1>2 DEF Excluded
<1>4. job[w].kind = "implement" /\ Escalates(job[w]) => e # job[w].failed
  <2>1. e # NoEngine
    BY <1>2, EngineAssumption
  <2>2. CASE job[w].assigned = NoEngine
    BY <1>2, <2>1, <2>2
  <2>3. CASE job[w].assigned # NoEngine
    BY <1>2, <2>1, <2>3 DEF Excluded, Retries, Escalates
  <2> QED BY <2>2, <2>3
<1>5. run' = [run EXCEPT ![w] = r] /\ job' = [job EXCEPT ![w] = j]
  BY <1>1 DEF RecordSelection, Selections
<1>6. r \in RunRecords /\ r.at = "running" /\ r.engine = e
  BY <1>1 DEF RunRecords, Places, Circuits
<1>7. /\ j \in JobRecords /\ j.kind = job[w].kind /\ j.attempt = job[w].attempt
      /\ j.barred = job[w].barred /\ j.failed = job[w].failed
      /\ j.kind = "implement" => j.assigned = e
  BY <1>1, <1>2 DEF JobRecords, SomeEngine
<1>8. Escalates(j) <=> Escalates(job[w])
  BY <1>7 DEF Escalates, Tier
<1> HIDE DEF j, r, e
<1>9. Consistent(j, r)
  BY <1>2, <1>3, <1>4, <1>6, <1>7, <1>8 DEF Consistent, Waits, Runs, Admits, Assigns
<1> QED BY <1>1, <1>5, <1>9, Moves

\* A run that ends leaves a job that waits, or none.
LEMMA EndSelects ==
  ASSUME IInv, NEW w \in Workers, Succeed(w) \/ Reject(w) \/ Fail(w) \/ Crash(w)
  PROVE  Selections'
<1>1. /\ Selections /\ run[w].at # "idle" /\ run[w] \in RunRecords
      /\ Consistent(job[w], run[w]) /\ job[w] \in JobRecords
      /\ job[w].kind # "none" /\ job[w].attempt >= 1
      /\ run' = [run EXCEPT ![w] = Idle]
  BY DEF IInv, Succeed, Reject, Fail, Crash, Selections, Consistent, Runs
<1>2. job[w].attempt # MaxAttempt => job[w].attempt < MaxAttempt
  BY <1>1, BoundAssumption DEF JobRecords
<1>3. CASE Succeed(w)
  BY <1>1, <1>3, IdleIs, Moves DEF Succeed
<1>4. CASE Reject(w)
  <2>1. job' = [job EXCEPT ![w] = Deferred(job[w])]
    BY <1>1, <1>4 DEF Reject, Selections
  <2> QED BY <1>1, <2>1, DeferredIs, Moves
<1>5. CASE Fail(w)
  <2> DEFINE f == IF job[w].kind = "implement" THEN run[w].engine ELSE NoEngine
             k == [job[w] EXCEPT !.failed = f]
             j == IF job[w].attempt = MaxAttempt THEN NoJob ELSE k
  <2>1. job' = [job EXCEPT ![w] = j]
    BY <1>1, <1>5 DEF Fail, Selections
  <2>2. f \in SomeEngine /\ f \in {NoEngine, job[w].assigned}
    BY <1>1, <1>5 DEF Fail, Consistent, Assigns, SomeEngine
  <2> HIDE DEF f
  <2>3. k \in JobRecords /\ k.failed = f /\ k.assigned = job[w].assigned
    BY <1>1, <2>2 DEF JobRecords
  <2>4. k.attempt = job[w].attempt /\ k.kind = job[w].kind
    BY <1>1 DEF JobRecords
  <2> HIDE DEF k
  <2>5. Consistent(j, Idle)
    BY <1>1, <1>2, <2>2, <2>3, <2>4, IdleIs
  <2> QED BY <1>1, <2>1, <2>5, Moves
<1>6. CASE Crash(w)
  <2> DEFINE k == [job[w] EXCEPT !.failed = NoEngine]
             j == IF job[w].attempt = MaxAttempt THEN NoJob ELSE k
  <2>1. job' = [job EXCEPT ![w] = j]
    BY <1>1, <1>6 DEF Crash, Selections
  <2>2. k \in JobRecords /\ k.failed = NoEngine
    BY <1>1 DEF JobRecords, SomeEngine
  <2>3. k.attempt = job[w].attempt /\ k.kind = job[w].kind
    BY <1>1 DEF JobRecords
  <2> HIDE DEF k
  <2>4. Consistent(j, Idle)
    BY <1>1, <1>2, <2>2, <2>3, IdleIs
  <2> QED BY <1>1, <2>1, <2>4, Moves
<1> QED BY <1>3, <1>4, <1>5, <1>6

-----------------------------------------------------------------------------
(* What the workers share                                                  *)

\* The new cursors of a selection that overwrites nobody's.
Advanced(w) ==
  LET wt == run[w].weight
      D == DOMAIN run[w].weight
      p == Winner(w)
  IN  /\ cursor'[p] = cursor[p] + wt[p] - Sum(wt, D)
      /\ \A e \in D \ {p} : cursor'[e] = cursor[e] + wt[e]
      /\ \A e \in Engines \ D : cursor'[e] = cursor[e]
      /\ \A e \in D : cursor[e] + wt[e] <= cursor[p] + wt[p]

\* What the winner pays is what the candidates gain, until somebody's cursors are
\* overwritten.
LEMMA AdvanceIs ==
  ASSUME IInv, NEW w \in Workers, Advance(w)
  PROVE  /\ DOMAIN run[w].weight \in SUBSET Engines
         /\ run[w].weight \in [DOMAIN run[w].weight -> Nat]
         /\ Winner(w) \in DOMAIN run[w].weight
         /\ cursor' \in [Engines -> Int]
         /\ lost \in Nat /\ lost' \in {lost, lost + 1}
         /\ lost' = lost => Advanced(w)
<1> DEFINE wt == run[w].weight
           D == DOMAIN run[w].weight
           p == Winner(w)
           cur == run[w].current
           b == Bumped(w)
           total == Sum(wt, D)
<1>1. D \in SUBSET Engines /\ wt \in [D -> Nat] /\ cur \in [D -> Int] /\ p \in D
  BY WinnerIs DEF IInv, Advance
<1>2. IsFiniteSet(Engines) /\ IsFiniteSet(D)
  BY <1>1, EngineAssumption, FS_Subset
<1>3. cursor \in [Engines -> Int] /\ \A e \in Engines : cursor[e] \in Int
  BY DEF IInv, Shared
<1>4. total \in Int
  <2>1. \A e \in D : wt[e] \in Int
    BY <1>1
  <2> QED BY <1>2, <2>1, SumType
<1>5. TotalWeight(w) = total
  BY DEF TotalWeight, Sum
<1>6. \A e \in D : b[e] = cur[e] + wt[e] /\ b[e] \in Int
  BY <1>1 DEF Bumped
<1>7. DOMAIN b = D
  BY DEF Bumped
<1>8. \A e \in D : Paid(w)[e] = IF e = p THEN b[e] - total ELSE b[e]
  BY <1>1, <1>5, <1>7 DEF Paid
<1>9. cursor' = [e \in Engines |-> IF e \in D THEN Paid(w)[e] ELSE cursor[e]]
  BY DEF Advance
<1>10. \A e \in D : b[e] <= b[p]
  <2>1. b \in [D -> Int]
    BY <1>1 DEF Bumped
  <2>2. p = CHOOSE e \in D : \A d \in D : Ahead(b, e, d)
    BY DEF Winner, Ahead
  <2> HIDE DEF b
  <2>3. \E e \in D : \A d \in D : Ahead(b, e, d)
    BY <1>1, <2>1, FurthestExists
  <2>4. \A d \in D : Ahead(b, p, d)
    BY <2>2, <2>3
  <2> QED BY <1>1, <1>6, <2>4 DEF Ahead
<1>11. lost \in Nat
  BY BoundAssumption DEF IInv, Shared
<1>12. lost' = IF \E e \in D : cursor[e] # cur[e] THEN lost + 1 ELSE lost
  BY DEF Advance
<1> HIDE DEF cur, b, total
<1>13. cursor' \in [Engines -> Int]
  <2>1. \A e \in D : Paid(w)[e] \in Int
    BY <1>4, <1>6, <1>8
  <2> QED BY <1>3, <1>9, <2>1
<1>14. lost' \in {lost, lost + 1}
  BY <1>12
<1>15. ASSUME lost' = lost
       PROVE  /\ cursor'[p] = cursor[p] + wt[p] - total
              /\ \A e \in D \ {p} : cursor'[e] = cursor[e] + wt[e]
              /\ \A e \in Engines \ D : cursor'[e] = cursor[e]
              /\ \A e \in D : cursor[e] + wt[e] <= cursor[p] + wt[p]
  <2>1. \A e \in D : cursor[e] = cur[e]
    <3>1. lost + 1 # lost
      BY <1>11
    <3> QED BY <1>12, <1>15, <3>1
  <2>2. \A e \in D : wt[e] \in Int /\ e \in Engines
    BY <1>1
  <2>3. \A e \in D : b[e] = cursor[e] + wt[e]
    BY <1>6, <2>1
  <2>4. \A e \in Engines : cursor'[e] = IF e \in D THEN Paid(w)[e] ELSE cursor[e]
    BY <1>9
  <2>5. \A e \in D : cursor'[e] = IF e = p THEN cursor[e] + wt[e] - total ELSE cursor[e] + wt[e]
    BY <1>3, <1>4, <1>6, <1>8, <2>2, <2>3, <2>4
  <2>6. \A e \in D : cursor[e] + wt[e] <= cursor[p] + wt[p]
    BY <1>1, <1>10, <2>3
  <2>7. \A e \in Engines \ D : cursor'[e] = cursor[e]
    BY <2>4
  <2> QED BY <1>1, <2>5, <2>6, <2>7
<1> QED BY <1>1, <1>11, <1>13, <1>14, <1>15 DEF total, Advanced

\* The sum of the cursors stays what it was.
LEMMA AdvanceBalances ==
  ASSUME IInv, NEW w \in Workers, Advance(w)
  PROVE  cursor' \in [Engines -> Int] /\ Balanced'
<1> DEFINE wt == run[w].weight
           D == DOMAIN run[w].weight
           p == Winner(w)
           next == cursor'
<1>1. /\ D \in SUBSET Engines /\ wt \in [D -> Nat] /\ p \in D
      /\ next \in [Engines -> Int]
      /\ lost \in Nat /\ lost' \in {lost, lost + 1}
      /\ lost' = lost =>
           /\ next[p] = cursor[p] + wt[p] - Sum(wt, D)
           /\ \A e \in D \ {p} : next[e] = cursor[e] + wt[e]
           /\ \A e \in Engines \ D : next[e] = cursor[e]
  BY AdvanceIs DEF Advanced
<1>2. IsFiniteSet(Engines) /\ \A e \in Engines : cursor[e] \in Int
  BY EngineAssumption DEF IInv, Shared
<1>3. Balanced' <=> lost' > 0 \/ Sum(next, Engines) = 0
  BY DEF Balanced, Sum
<1>4. lost > 0 \/ Sum(cursor, Engines) = 0
  BY DEF IInv, Balanced, Sum
<1> HIDE DEF wt, D, p, next
<1>5. lost' = lost => Sum(next, Engines) = Sum(cursor, Engines)
  <2>1. \A e \in D : wt[e] \in Int
    BY <1>1
  <2> QED BY <1>1, <1>2, <2>1, PaymentBalances
<1>6. lost' = lost + 1 => lost' > 0
  BY <1>1
<1> QED BY <1>1, <1>3, <1>4, <1>5, <1>6 DEF next

\* Every step keeps the types of what is shared.
LEMMA SharedStep ==
  ASSUME IInv, [Next]_vars
  PROVE  Shared'
<1>1. ASSUME NEW w \in Workers, Advance(w) PROVE Shared'
  <2>1. lost' \in 0 .. MaxLost
    BY <1>1, BoundAssumption DEF IInv, Shared, Advance
  <2>2. waits' \in [Engines -> Nat]
    BY <1>1 DEF IInv, Shared, Advance
  <2>3. cursor' \in [Engines -> Int]
    BY <1>1, AdvanceBalances
  <2> QED BY <1>1, <2>1, <2>2, <2>3 DEF IInv, Shared, Advance
<1>2. ASSUME NEW w \in Workers, Look(w) \/ NoneEligible(w) \/ ReadCursors(w) \/ GetSelected(w)
                                  \/ Fail(w)
      PROVE  Shared'
  BY <1>2 DEF Look, NoneEligible, ReadCursors, GetSelected, Fail, IInv, Shared, history
<1>3. ASSUME NEW w \in Workers PROVE run[w].engine \in SomeEngine /\ run[w].row \in Circuits
  BY DEF IInv, Selections, RunRecords
<1>4. ASSUME NEW w \in Workers, RecordSelection(w) PROVE Shared'
  <2>1. run[w].engine \in Engines
    BY <1>4 DEF RecordSelection, IInv, Selections, Consistent, Admits
  <2> QED BY <1>3, <1>4, <2>1 DEF RecordSelection, WriteBack, IInv, Shared
<1>5. ASSUME NEW w \in Workers, Succeed(w) \/ Reject(w) PROVE Shared'
  <2>1. run[w].engine \in Engines
    BY <1>5 DEF Succeed, Reject, IInv, Selections, Consistent, Assigns
  <2> QED BY <1>5, <2>1 DEF Succeed, Reject, Record, IInv, Shared, Circuits
<1>6. ASSUME NEW w \in Workers, Crash(w) PROVE Shared'
  <2>1. faults' \in 0 .. MaxFaults
    BY <1>6, BoundAssumption DEF Crash, IInv, Shared
  <2> QED BY <1>6, <2>1 DEF Crash, IInv, Shared, history
<1>7. ASSUME NEW e \in Engines, DeadlinePasses(e) PROVE Shared'
  BY <1>7 DEF DeadlinePasses, IInv, Shared, Circuits
<1>8. CASE UNCHANGED vars
  BY <1>8 DEF vars, history, IInv, Shared
<1> QED BY <1>1, <1>2, <1>4, <1>5, <1>6, <1>7, <1>8 DEF Next, Select

\* Only a selection moves the cursors.
LEMMA BalancedStep ==
  ASSUME IInv, [Next]_vars
  PROVE  Balanced'
<1>1. ASSUME NEW w \in Workers, Advance(w) PROVE Balanced'
  BY <1>1, AdvanceBalances
<1>2. ASSUME UNCHANGED <<cursor, lost>> PROVE Balanced'
  BY <1>2 DEF IInv, Balanced
<1>3. (\E w \in Workers : Advance(w)) \/ UNCHANGED <<cursor, lost>>
  BY DEF Next, Select, Look, NoneEligible, ReadCursors, GetSelected, RecordSelection, WriteBack,
         Succeed, Reject, Fail, Crash, Record, DeadlinePasses, vars, history
<1> QED BY <1>1, <1>2, <1>3

\* The circuit of an engine that rests is opened with the rejection, and written over
\* only by a worker that read the row before.
LEMMA RejectionStep ==
  ASSUME IInv, [Next]_vars
  PROVE  RejectionStands'
<1>1. circuit \in [Engines -> Circuits] /\ resting \subseteq Engines /\ RejectionStands
  BY DEF IInv, Shared
<1>2. ASSUME NEW w \in Workers, RecordSelection(w) PROVE RejectionStands'
  BY <1>1, <1>2 DEF RecordSelection, WriteBack, RejectionStands
<1>3. ASSUME NEW w \in Workers, Succeed(w) PROVE RejectionStands'
  BY <1>1, <1>3 DEF Succeed, Record, RejectionStands
<1>4. ASSUME NEW w \in Workers, Reject(w) PROVE RejectionStands'
  <2>1. run[w].engine \in Engines
    BY <1>4 DEF Reject, IInv, Selections, Consistent, Assigns
  <2> QED BY <1>1, <1>4, <2>1 DEF Reject, Record, RejectionStands
<1>5. ASSUME NEW e \in Engines, DeadlinePasses(e) PROVE RejectionStands'
  BY <1>1, <1>5 DEF DeadlinePasses, RejectionStands
<1>6. ASSUME UNCHANGED <<circuit, resting, torn>> PROVE RejectionStands'
  BY <1>1, <1>6 DEF RejectionStands
<1>7. \/ \E w \in Workers : RecordSelection(w) \/ Succeed(w) \/ Reject(w)
      \/ \E e \in Engines : DeadlinePasses(e)
      \/ UNCHANGED <<circuit, resting, torn>>
  BY DEF Next, Select, Look, NoneEligible, ReadCursors, GetSelected, Advance, Fail, Crash,
         vars, history
<1> QED BY <1>2, <1>3, <1>4, <1>5, <1>6, <1>7

-----------------------------------------------------------------------------
(* The specification                                                       *)

\* Nobody has selected and nobody rests.
LEMMA InitIInv == Init => IInv
<1> SUFFICES ASSUME Init PROVE IInv
  OBVIOUS
<1>1. Selections
  <2>1. job \in [Workers -> JobRecords] /\ run \in [Workers -> RunRecords]
    BY IdleIs DEF Init
  <2>2. \A w \in Workers : job[w] = NoJob /\ run[w] = Idle
    BY DEF Init
  <2> QED BY <2>1, <2>2, IdleIs DEF Selections
<1>2. Shared
  BY BoundAssumption DEF Init, Shared, Circuits
<1>3. Balanced
  <2> DEFINE Q == {T \in SUBSET Engines : Sum(cursor, T) = 0}
  <2>1. \A e \in Engines : cursor[e] = 0
    BY DEF Init
  <2>2. ASSUME NEW T \in SUBSET Engines, \A x \in T : T \ {x} \in Q
        PROVE  T \in Q
    <3>1. IsFiniteSet(T)
      BY EngineAssumption, FS_Subset
    <3>2. CASE T = {}
      BY <3>1, <3>2, SumUnfolds
    <3>3. CASE T # {}
      <4> DEFINE c == CHOOSE x \in T : TRUE
      <4>1. c \in T
        BY <3>3
      <4>2. Sum(cursor, T) = cursor[c] + Sum(cursor, T \ {c})
        BY <3>1, <3>3, SumUnfolds
      <4> HIDE DEF c
      <4>3. Sum(cursor, T \ {c}) = 0 /\ cursor[c] = 0
        BY <2>1, <2>2, <4>1
      <4> QED BY <4>2, <4>3
    <3> QED BY <3>2, <3>3
  <2> HIDE DEF Q
  <2>3. \A T \in SUBSET Engines : T \in Q
    BY <2>2, EngineAssumption, SubsetInduction
  <2> QED BY <2>3 DEF Q, Balanced, Sum
<1>4. RejectionStands
  BY DEF Init, RejectionStands
<1> QED BY <1>1, <1>2, <1>3, <1>4 DEF IInv

\* Every step keeps the invariant.
LEMMA NextIInv == IInv /\ [Next]_vars => IInv'
<1> SUFFICES ASSUME IInv, [Next]_vars PROVE IInv'
  OBVIOUS
<1>1. Selections'
  <2>1. ASSUME NEW w \in Workers, Select(w) PROVE Selections'
    BY <2>1, LookSelects, NoneEligibleSelects, ReadCursorsSelects, AdvanceSelects,
       GetSelectedSelects, RecordSelectionSelects DEF Select
  <2>2. ASSUME NEW w \in Workers, Succeed(w) \/ Reject(w) \/ Fail(w) \/ Crash(w)
        PROVE  Selections'
    BY <2>2, EndSelects
  <2>3. ASSUME UNCHANGED <<job, run>> PROVE Selections'
    <3>1. Selections
      BY DEF IInv
    <3> QED BY <2>3, <3>1 DEF Selections, Consistent, Waits, Runs, Admits, Assigns, JobRecords,
              RunRecords, SomeEngine, Places, Circuits, NoJob, Excluded, Retries, Escalates, Tier
  <2>4. (\E e \in Engines : DeadlinePasses(e)) \/ UNCHANGED vars => UNCHANGED <<job, run>>
    BY DEF DeadlinePasses, vars
  <2> QED BY <2>1, <2>2, <2>3, <2>4 DEF Next
<1> QED BY <1>1, SharedStep, BalancedStep, RejectionStep DEF IInv

\* The inductive invariant of the rotation: who waits, selects or runs, with which job
\* and which engine, and what the cursors and circuits are meanwhile.
THEOREM Invariance == Spec => []IInv
BY InitIInv, NextIInv, PTL DEF Spec

\* Every variable has its type, and whoever runs has an engine the job does not bar.
THEOREM TypeCorrect == Spec => []TypeOK
<1>1. IInv => TypeOK
  <2> SUFFICES ASSUME IInv PROVE TypeOK
    OBVIOUS
  <2>1. Shared
    BY DEF IInv
  <2>2. ASSUME NEW w \in Workers
        PROVE  /\ job[w].kind \in {"none", "implement", "verify"}
               /\ job[w].attempt \in 0 .. MaxAttempt
               /\ job[w].barred \subseteq Engines
               /\ {job[w].assigned, job[w].failed} \subseteq Engines \cup {NoEngine}
               /\ run[w].at \in Places /\ run[w].engine \in Engines \cup {NoEngine}
               /\ run[w].row \in Circuits
               /\ run[w].at = "running" =>
                    job[w] # NoJob /\ run[w].engine \in Engines \ job[w].barred
    <3>1. job[w] \in JobRecords /\ run[w] \in RunRecords /\ Consistent(job[w], run[w])
      BY DEF IInv, Selections
    <3>2. /\ job[w].kind \in {"none", "implement", "verify"}
          /\ job[w].attempt \in 0 .. MaxAttempt
          /\ job[w].barred \subseteq Engines
          /\ {job[w].assigned, job[w].failed} \subseteq Engines \cup {NoEngine}
      BY <3>1 DEF JobRecords, SomeEngine
    <3>3. /\ run[w].at \in Places /\ run[w].engine \in Engines \cup {NoEngine}
          /\ run[w].row \in Circuits
      BY <3>1 DEF RunRecords, SomeEngine
    <3>4. run[w].at = "running" =>
            job[w] # NoJob /\ run[w].engine \in Engines \ job[w].barred
      BY <3>1 DEF Consistent, Runs, Assigns, NoJob
    <3> QED BY <3>2, <3>3, <3>4
  <2> QED BY <2>1, <2>2 DEF Shared, TypeOK
<1> QED BY <1>1, Invariance, PTL

\* Any weights, any membership of the rotation and any crashes leave the cursors
\* balanced, until two selections overlap.
THEOREM CursorsBalance == Spec => []Balanced
<1>1. IInv => Balanced
  BY DEF IInv
<1> QED BY <1>1, Invariance, PTL

\* An escalation never goes to the engine that failed the tier below.
THEOREM EscalationChangesEngine == Spec => []EscalationRotates
<1>1. IInv => EscalationRotates
  BY DEF IInv, Selections, Consistent, Assigns, EscalationRotates
<1> QED BY <1>1, Invariance, PTL

\* No bookkeeping lets a rejected engine in, unless it was read before the rejection.
THEOREM RejectedStaysOut == Spec => []RejectionStands
<1>1. IInv => RejectionStands
  BY DEF IInv
<1> QED BY <1>1, Invariance, PTL

-----------------------------------------------------------------------------
(* Nobody starves                                                          *)

\* What is recorded of the weights, if no base weight is above m: a healthy engine has its
\* own, twice if its session is warm, and one that is due has less.
Weighted(m) ==
  \A w \in Workers :
    /\ \A e \in DOMAIN run[w].weight : run[w].weight[e] \in 1 .. 2 * m
    /\ \A d, e \in DOMAIN run[w].weight :
         d # e => run[w].weight[d] + run[w].weight[e] <= 3 * m

\* No group of engines is too far ahead, and who has lost often is ahead: a candidate
\* that loses gains at least 1.
Patient(m) ==
  \/ lost > 0
  \/ /\ Spread(cursor, Engines, 2 * m)
     /\ \A e \in Engines : waits[e] <= cursor[e] + 2 * m * (Cardinality(Engines) - 1)

\* The same for two engines, where a loss needs a cursor below m.
Reach(m) == (3 * m) \div 2
Close(m) ==
  \/ lost > 0
  \/ \A e \in Engines : /\ - Reach(m) <= cursor[e]
                        /\ waits[e] <= cursor[e] + Reach(m)
                        /\ waits[e] <= m + Reach(m)

\* A number of quarters is rounded to at least 1, to at most as many, and a whole number
\* to itself.
LEMMA RoundedIs ==
  ASSUME NEW q \in Nat, q > 0
  PROVE  /\ Rounded(q) \in Nat /\ 1 <= Rounded(q) /\ Rounded(q) <= q
         /\ \A n \in Nat : q = 4 * n => Rounded(q) = n
BY DEF Rounded

\* The weight of an engine is at least 1, and at most its base weight or, warm, twice that.
LEMMA WeightWithin ==
  ASSUME NEW j, NEW e \in Engines
  PROVE  /\ Weight(j, e) \in Nat /\ 1 <= Weight(j, e) /\ Weight(j, e) <= 2 * Base[e]
         /\ ~ Warm(j, e) => Weight(j, e) <= Base[e]
<1> DEFINE b == Base[e]
           warmth == IF Warm(j, e) THEN 2 ELSE 1
           q == b * (IF circuit[e] = "closed" THEN 4 ELSE 1) * warmth
<1>1. b \in Nat /\ b > 0
  BY WeightAssumption
<1>2. Weight(j, e) = Rounded(q)
  BY DEF Weight
<1>3. warmth \in {1, 2} /\ (~ Warm(j, e) => warmth = 1)
  OBVIOUS
<1> HIDE DEF warmth, b
<1>4. b * warmth \in Nat /\ b * warmth > 0 /\ b * warmth <= 2 * b
  BY <1>1, <1>3
<1>5. ~ Warm(j, e) => b * warmth = b
  BY <1>1, <1>3
<1>6. q = b * warmth \/ q = 4 * (b * warmth)
  BY <1>1, <1>3
<1>7. Rounded(q) \in Nat /\ 1 <= Rounded(q) /\ Rounded(q) <= b * warmth
  <2> DEFINE c == b * warmth
  <2> HIDE DEF q, c
  <2>1. c \in Nat /\ c > 0 /\ (q = c \/ q = 4 * c)
    BY <1>4, <1>6 DEF c
  <2>2. q \in Nat /\ q > 0
    BY <2>1
  <2>3. Rounded(q) <= c /\ Rounded(q) \in Nat /\ 1 <= Rounded(q)
    BY <2>1, <2>2, RoundedIs
  <2> QED BY <2>3 DEF c
<1> DEFINE c == b * warmth
           v == Rounded(q)
<1>8. c \in Nat /\ c <= 2 * b /\ (~ Warm(j, e) => c = b) /\ v \in Nat /\ 1 <= v /\ v <= c
  BY <1>4, <1>5, <1>7
<1> HIDE DEF c, v
<1>9. v <= 2 * b /\ (~ Warm(j, e) => v <= b)
  BY <1>1, <1>8
<1> QED BY <1>2, <1>8, <1>9 DEF v, b

\* Only looking records weights, and at most one of them is doubled.
LEMMA WeightedStep ==
  ASSUME IInv, [Next]_vars, NEW m \in Nat, \A e \in Engines : Base[e] <= m, Weighted(m)
  PROVE  Weighted(m)'
<1>1. run \in [Workers -> RunRecords] /\ Idle.weight = <<>> /\ DOMAIN Idle.weight = {}
  BY DEF IInv, Selections, Idle
<1>2. ASSUME NEW w \in Workers, NEW r, run' = [run EXCEPT ![w] = r],
             \A e \in DOMAIN r.weight : r.weight[e] \in 1 .. 2 * m,
             \A d, e \in DOMAIN r.weight : d # e => r.weight[d] + r.weight[e] <= 3 * m
      PROVE  Weighted(m)'
  <2>1. ASSUME NEW v \in Workers
        PROVE  /\ \A e \in DOMAIN run'[v].weight : run'[v].weight[e] \in 1 .. 2 * m
               /\ \A d, e \in DOMAIN run'[v].weight :
                    d # e => run'[v].weight[d] + run'[v].weight[e] <= 3 * m
    <3>1. CASE v = w
      <4>1. run'[v] = r
        BY <1>1, <1>2, <3>1
      <4> QED BY <1>2, <4>1
    <3>2. CASE v # w
      <4>1. run'[v] = run[v]
        BY <1>1, <1>2, <3>2
      <4> QED BY <4>1 DEF Weighted
    <3> QED BY <3>1, <3>2
  <2> QED BY <2>1 DEF Weighted
<1>3. ASSUME NEW w \in Workers, Look(w) PROVE Weighted(m)'
  <2>1. PICK j \in Claims(w) :
          /\ Eligible(j) # {}
          /\ job' = [job EXCEPT ![w] = j]
          /\ run' = [run EXCEPT ![w] =
                       [Idle EXCEPT !.at = "reading",
                                    !.weight = [e \in Eligible(j) |-> Weight(j, e)]]]
    BY <1>3, LookRecords
  <2> DEFINE wt == [e \in Eligible(j) |-> Weight(j, e)]
             r == [Idle EXCEPT !.at = "reading", !.weight = wt]
  <2>2. r.weight = wt /\ DOMAIN wt = Eligible(j) /\ Eligible(j) \subseteq Engines
    BY DEF Idle, Eligible
  <2>3. ASSUME NEW e \in Eligible(j)
        PROVE  /\ wt[e] \in 1 .. 2 * m
               /\ ~ Warm(j, e) => wt[e] <= m
    <3>1. wt[e] = Weight(j, e) /\ e \in Engines /\ Base[e] \in Nat /\ Base[e] <= m
      BY <2>2, WeightAssumption
    <3>2. /\ Weight(j, e) \in Nat /\ 1 <= Weight(j, e) /\ Weight(j, e) <= 2 * Base[e]
          /\ ~ Warm(j, e) => Weight(j, e) <= Base[e]
      BY <3>1, WeightWithin
    <3> HIDE DEF wt
    <3> QED BY <3>1, <3>2
  <2>4. ASSUME NEW d \in Eligible(j), NEW e \in Eligible(j), d # e
        PROVE  wt[d] + wt[e] <= 3 * m
    <3>1. ~ Warm(j, d) \/ ~ Warm(j, e)
      BY <2>4 DEF Warm
    <3>2. /\ wt[d] \in 1 .. 2 * m /\ (~ Warm(j, d) => wt[d] <= m)
          /\ wt[e] \in 1 .. 2 * m /\ (~ Warm(j, e) => wt[e] <= m)
      BY <2>3
    <3> HIDE DEF wt
    <3> QED BY <3>1, <3>2
  <2>5. run' = [run EXCEPT ![w] = r]
    BY <2>1
  <2>6. /\ \A e \in DOMAIN r.weight : r.weight[e] \in 1 .. 2 * m
        /\ \A d, e \in DOMAIN r.weight : d # e => r.weight[d] + r.weight[e] <= 3 * m
    BY <2>2, <2>3, <2>4
  <2> HIDE DEF r, wt
  <2> QED BY <1>2, <2>5, <2>6
<1>4. ASSUME NEW w \in Workers, NEW r, run' = [run EXCEPT ![w] = r], r.weight = run[w].weight
      PROVE  Weighted(m)'
  BY <1>2, <1>4 DEF Weighted
<1>5. ASSUME NEW w \in Workers, NEW r, run' = [run EXCEPT ![w] = r], r.weight = <<>>
      PROVE  Weighted(m)'
  <2>1. DOMAIN r.weight = {}
    BY <1>1, <1>5
  <2> QED BY <1>2, <1>5, <2>1
<1>6. ASSUME NEW w \in Workers, ReadCursors(w) PROVE Weighted(m)'
  <2> DEFINE r == [run[w] EXCEPT !.at = "advancing",
                                 !.current = [e \in DOMAIN run[w].weight |-> cursor[e]]]
  <2>1. run' = [run EXCEPT ![w] = r]
    BY <1>1, <1>6 DEF ReadCursors
  <2>2. r.weight = run[w].weight
    BY <1>1 DEF RunRecords
  <2> HIDE DEF r
  <2> QED BY <1>4, <2>1, <2>2
<1>7. ASSUME NEW w \in Workers, GetSelected(w) PROVE Weighted(m)'
  <2> DEFINE r == [run[w] EXCEPT !.at = "recording", !.row = circuit[run[w].engine]]
  <2>1. run' = [run EXCEPT ![w] = r]
    BY <1>1, <1>7 DEF GetSelected
  <2>2. r.weight = run[w].weight
    BY <1>1 DEF RunRecords
  <2> HIDE DEF r
  <2> QED BY <1>4, <2>1, <2>2
<1>8. ASSUME NEW w \in Workers, RecordSelection(w) PROVE Weighted(m)'
  <2> DEFINE r == [run[w] EXCEPT !.at = "running", !.row = "closed"]
  <2>1. run' = [run EXCEPT ![w] = r]
    BY <1>1, <1>8 DEF RecordSelection
  <2>2. r.weight = run[w].weight
    BY <1>1 DEF RunRecords
  <2> HIDE DEF r
  <2> QED BY <1>4, <2>1, <2>2
<1>9. ASSUME NEW w \in Workers, Advance(w) PROVE Weighted(m)'
  <2> DEFINE r == [Idle EXCEPT !.at = "selected", !.engine = Winner(w)]
  <2>1. run' = [run EXCEPT ![w] = r] /\ r.weight = <<>>
    BY <1>9 DEF Advance, Idle
  <2> HIDE DEF r
  <2> QED BY <1>5, <2>1
<1>10. ASSUME NEW w \in Workers, Succeed(w) \/ Reject(w) \/ Fail(w) \/ Crash(w)
       PROVE  Weighted(m)'
  <2>1. run' = [run EXCEPT ![w] = Idle]
    BY <1>10 DEF Succeed, Reject, Fail, Crash
  <2> QED BY <1>1, <1>5, <2>1
<1>11. ASSUME run' = run PROVE Weighted(m)'
  BY <1>11 DEF Weighted
<1>12. \/ \E w \in Workers : \/ Look(w) \/ ReadCursors(w) \/ Advance(w) \/ GetSelected(w)
                             \/ RecordSelection(w)
                             \/ Succeed(w) \/ Reject(w) \/ Fail(w) \/ Crash(w)
       \/ run' = run
  BY DEF Next, Select, NoneEligible, DeadlinePasses, vars
<1> QED BY <1>3, <1>6, <1>7, <1>8, <1>9, <1>10, <1>11, <1>12

\* What a selection does to the cursors and the waits of its candidates D, whose weights
\* it read, as long as nobody's cursors are overwritten.
LEMMA AdvanceWaits ==
  ASSUME IInv, NEW w \in Workers, Advance(w), lost' = 0,
         NEW D, D = DOMAIN run[w].weight
  PROVE  /\ lost = 0
         /\ \A e \in Engines \ {Winner(w)} :
              waits'[e] = IF e \in D THEN waits[e] + 1 ELSE waits[e]
         /\ waits'[Winner(w)] = 0
<1>1. lost \in Nat /\ waits \in [Engines -> Nat]
  BY BoundAssumption DEF IInv, Shared
<1>2. lost = 0
  BY <1>1 DEF Advance
<1>3. Winner(w) \in Engines /\ Winner(w) \in D
  BY WinnerIs DEF IInv, Advance
<1>4. waits' = [e \in Engines |-> CASE e = Winner(w) \/ lost' > 0 -> 0
                                   [] e \notin D -> waits[e]
                                   [] OTHER -> waits[e] + 1]
  BY DEF Advance
<1> DEFINE p == Winner(w)
<1> HIDE DEF p
<1>5. ~ (lost' > 0) /\ waits' = [e \in Engines |-> CASE e = p \/ lost' > 0 -> 0
                                                    [] e \notin D -> waits[e]
                                                    [] OTHER -> waits[e] + 1]
  BY <1>4 DEF p
<1>6. p \in Engines /\ p \in D
  BY <1>3 DEF p
<1>7. waits'[p] = 0
  BY <1>1, <1>5, <1>6
<1>8. ASSUME NEW e \in Engines \ {p}
      PROVE  waits'[e] = IF e \in D THEN waits[e] + 1 ELSE waits[e]
  BY <1>1, <1>5
<1> QED BY <1>2, <1>7, <1>8 DEF p

\* A selection keeps the spread, and a candidate that loses gains what it waits.
LEMMA AdvancePatient ==
  ASSUME IInv, NEW w \in Workers, Advance(w), NEW m \in Nat, Weighted(m), Patient(m)
  PROVE  Patient(m)'
<1> SUFFICES ASSUME lost' = 0 PROVE Patient(m)'
  <2>1. lost' \in Nat
    BY BoundAssumption, SharedStep DEF Shared, Next, Select
  <2> QED BY <2>1 DEF Patient
<1> DEFINE D == DOMAIN run[w].weight
           wt == run[w].weight
           p == Winner(w)
           n == Cardinality(Engines)
           f == cursor
           g == cursor'
           gain == [e \in Engines |-> IF e \in D THEN wt[e] ELSE 0]
           h == [e \in Engines |-> f[e] + gain[e]]
<1>1. IsFiniteSet(Engines) /\ n \in Nat
  BY EngineAssumption, FS_CardinalityType
<1>2. lost = 0 /\ f \in [Engines -> Int] /\ waits \in [Engines -> Nat]
  BY AdvanceWaits DEF IInv, Shared
<1>3. /\ D \in SUBSET Engines /\ wt \in [D -> Nat] /\ p \in D
      /\ g[p] = f[p] + wt[p] - Sum(wt, D)
      /\ \A e \in D \ {p} : g[e] = f[e] + wt[e]
      /\ \A e \in Engines \ D : g[e] = f[e]
      /\ \A e \in D : f[e] + wt[e] <= f[p] + wt[p]
  BY <1>2, AdvanceIs DEF Advanced
<1>4. \A e \in D : wt[e] \in 1 .. 2 * m
  BY DEF Weighted
<1>5. /\ \A e \in Engines \ {p} : waits'[e] = IF e \in D THEN waits[e] + 1 ELSE waits[e]
      /\ waits'[p] = 0
  BY AdvanceWaits
<1>6. Spread(f, Engines, 2 * m) /\ \A e \in Engines : waits[e] <= f[e] + 2 * m * (n - 1)
  BY <1>2 DEF Patient
<1> HIDE DEF D, wt, p, f, g
<1>7. \A e \in Engines : /\ f[e] \in Int /\ gain[e] \in 0 .. 2 * m
                         /\ h[e] = f[e] + gain[e]
                         /\ e \notin D => gain[e] = 0
  BY <1>2, <1>4
<1>8. \A e \in D : gain[e] = wt[e] /\ h[e] = f[e] + wt[e]
  BY <1>3
<1>9. \A e \in Engines \ D : h[e] = f[e]
  BY <1>7
<1> HIDE DEF gain, h
<1>10. \A e \in D : h[e] <= h[p]
  BY <1>3, <1>8
<1>11. Sum(gain, Engines) = Sum(wt, D)
  <2>1. Sum(gain, Engines) = Sum(gain, D)
    <3>1. /\ \A e \in Engines : gain[e] \in Int
          /\ \A e \in Engines \ D : gain[e] = 0
      BY <1>7
    <3> QED BY <1>1, <1>3, <3>1, SumSupport
  <2>2. Sum(gain, D) = Sum(wt, D)
    <3>1. IsFiniteSet(D) /\ \A e \in D : gain[e] \in Int /\ gain[e] = wt[e]
      BY <1>1, <1>3, <1>7, <1>8, FS_Subset
    <3> QED BY <3>1, SumAgrees
  <2> QED BY <2>1, <2>2
<1>12. g[p] = h[p] - Sum(gain, Engines) /\ \A e \in Engines \ {p} : g[e] = h[e]
  <2>1. p \in D /\ h[p] = f[p] + wt[p] /\ g[p] = f[p] + wt[p] - Sum(wt, D)
    BY <1>3, <1>8
  <2>2. \A e \in D \ {p} : g[e] = h[e]
    BY <1>3, <1>8
  <2>3. \A e \in Engines \ D : g[e] = h[e]
    BY <1>3, <1>9
  <2>4. g[p] = h[p] - Sum(gain, Engines)
    <3> DEFINE total == Sum(wt, D)
    <3>1. h[p] = f[p] + wt[p] /\ g[p] = f[p] + wt[p] - total /\ Sum(gain, Engines) = total
      BY <1>11, <2>1
    <3>2. f[p] \in Int /\ wt[p] \in Int /\ total \in Int
      BY <1>1, <1>3, <1>4, <1>7, <1>11, SumType
    <3> HIDE DEF total
    <3> QED BY <3>1, <3>2
  <2> QED BY <2>2, <2>3, <2>4
<1>13. 2 * m \in Nat
  OBVIOUS
<1>14. Spread(g, Engines, 2 * m)
  BY <1>1, <1>3, <1>6, <1>7, <1>10, <1>12, <1>13, SelectionSpreads
<1>15. \A e \in Engines : 0 <= g[e] + 2 * m * (n - 1)
  <2>1. Sum(g, Engines) = 0
    BY AdvanceBalances DEF Balanced, Sum, g
  <2>2. \A e \in Engines : g[e] \in Int
    BY AdvanceBalances DEF g
  <2> SUFFICES ASSUME NEW e \in Engines PROVE 0 <= g[e] + 2 * m * (n - 1)
    OBVIOUS
  <2> DEFINE T == Engines \ {e}
             s == Sum(g, T)
  <2>3. Sum(g, Engines) = g[e] + s /\ s \in Int
    BY <1>1, <2>2, SumRemoves, SumType
  <2>4. Cardinality(T) = n - 1
    BY <1>1, FS_RemoveElement
  <2>5. s <= 2 * m * (Cardinality(T) * (n - Cardinality(T)))
    BY <1>14 DEF Spread
  <2> HIDE DEF s, n
  <2>6. s <= 2 * m * ((n - 1) * (n - (n - 1)))
    BY <2>4, <2>5
  <2>7. (n - 1) * (n - (n - 1)) = n - 1
    BY <1>1
  <2>8. s <= 2 * m * (n - 1)
    BY <2>6, <2>7
  <2> DEFINE c == 2 * m * (n - 1)
  <2>9. c \in Int
    BY <1>1
  <2> HIDE DEF c
  <2>10. 0 <= g[e] + c
    BY <2>1, <2>2, <2>3, <2>8, <2>9 DEF c
  <2> QED BY <2>10 DEF c
<1>16. \A e \in Engines : waits'[e] <= g[e] + 2 * m * (n - 1)
  <2> DEFINE c == 2 * m * (n - 1)
  <2>1. c \in Int
    <3> HIDE DEF n
    <3> QED BY <1>1
  <2>2. \A e \in Engines : waits[e] <= f[e] + c /\ 0 <= g[e] + c
    BY <1>6, <1>15
  <2>3. \A e \in Engines \ {p} : g[e] = IF e \in D THEN f[e] + wt[e] ELSE f[e]
    BY <1>3
  <2> HIDE DEF c
  <2>4. ASSUME NEW e \in Engines PROVE waits'[e] <= g[e] + c
    <3>1. CASE e = p
      BY <1>5, <2>2, <3>1
    <3>2. CASE e # p /\ e \in D
      <4>1. waits'[e] = waits[e] + 1 /\ g[e] = f[e] + wt[e]
        BY <1>5, <2>3, <3>2
      <4>2. wt[e] >= 1 /\ wt[e] \in Int /\ waits[e] \in Int /\ f[e] \in Int
        BY <1>2, <1>4, <1>7, <3>2
      <4>3. waits[e] <= f[e] + c
        BY <2>2
      <4> QED BY <2>1, <4>1, <4>2, <4>3
    <3>3. CASE e # p /\ e \notin D
      BY <1>5, <2>2, <2>3, <3>3
    <3> QED BY <3>1, <3>2, <3>3
  <2> QED BY <2>4 DEF c
<1> QED BY <1>14, <1>16 DEF Patient, g

\* One engine is as far ahead as the other is behind.
LEMMA PairCancels ==
  ASSUME NEW f, \A e \in Engines : f[e] \in Int, Sum(f, Engines) = 0,
         NEW p \in Engines, NEW o \in Engines, p # o, Engines = {p, o}
  PROVE  f[p] = - f[o]
<1>1. IsFiniteSet(Engines) /\ IsFiniteSet({o}) /\ Engines \ {p} = {o} /\ {o} \ {o} = {}
  BY EngineAssumption, FS_Subset
<1>2. Sum(f, Engines) = f[p] + Sum(f, {o})
  BY <1>1, SumRemoves
<1>3. Sum(f, {o}) = f[o] + Sum(f, {})
  <2>1. \A e \in {o} : f[e] \in Int
    OBVIOUS
  <2> QED BY <1>1, <2>1, SumRemoves
<1>4. Sum(f, {}) = 0
  BY FS_EmptySet, SumUnfolds
<1>5. f[p] \in Int /\ f[o] \in Int
  OBVIOUS
<1> QED BY <1>2, <1>3, <1>4, <1>5

\* Of two engines, who loses is behind the winner after it has gained: its cursor was
\* below m and is at most half of what both gained.
LEMMA AdvanceClose ==
  ASSUME IInv, NEW w \in Workers, Advance(w), NEW m \in Nat, Weighted(m), Close(m),
         Cardinality(Engines) = 2
  PROVE  Close(m)'
<1> SUFFICES ASSUME lost' = 0 PROVE Close(m)'
  <2>1. lost' \in Nat
    BY BoundAssumption, SharedStep DEF Shared, Next, Select
  <2> QED BY <2>1 DEF Close
<1> DEFINE D == DOMAIN run[w].weight
           wt == run[w].weight
           p == Winner(w)
           f == cursor
           g == cursor'
           r == Reach(m)
<1>1. r \in Int /\ 2 * r >= 3 * m - 1 /\ 2 * r <= 3 * m /\ r >= 0
  BY DEF Reach
<1>2. lost = 0 /\ f \in [Engines -> Int] /\ waits \in [Engines -> Nat]
  BY AdvanceWaits DEF IInv, Shared
<1>3. /\ D \in SUBSET Engines /\ wt \in [D -> Nat] /\ p \in D
      /\ \A e \in D \ {p} : g[e] = f[e] + wt[e]
      /\ \A e \in Engines \ D : g[e] = f[e]
      /\ \A e \in D : f[e] + wt[e] <= f[p] + wt[p]
  BY <1>2, AdvanceIs DEF Advanced
<1>4. PICK o \in Engines : p # o /\ Engines = {p, o}
  <2>1. IsFiniteSet(Engines \ {p}) /\ Cardinality(Engines \ {p}) = 1
    <3>1. p \in Engines /\ IsFiniteSet(Engines)
      BY <1>3, EngineAssumption
    <3> HIDE DEF p
    <3>2. IsFiniteSet(Engines \ {p}) /\ Cardinality(Engines \ {p}) = Cardinality(Engines) - 1
      BY <3>1, FS_RemoveElement
    <3> QED BY <3>2
  <2>2. PICK x : Engines \ {p} = {x}
    BY <2>1, FS_Singleton
  <2> QED BY <1>3, <2>2
<1>5. g \in [Engines -> Int] /\ Sum(f, Engines) = 0 /\ Sum(g, Engines) = 0
  BY <1>2, AdvanceBalances DEF Balanced, Sum, IInv
<1>6. f[p] = - f[o] /\ g[p] = - g[o]
  BY <1>2, <1>3, <1>4, <1>5, PairCancels
<1>7. \A e \in D : wt[e] \in 1 .. 2 * m
  BY DEF Weighted
<1>8. o \in D => wt[p] + wt[o] <= 3 * m
  BY <1>3, <1>4 DEF Weighted
<1>9. waits'[o] = (IF o \in D THEN waits[o] + 1 ELSE waits[o]) /\ waits'[p] = 0
  BY <1>4, AdvanceWaits
<1>10. \A e \in Engines : - r <= f[e] /\ waits[e] <= f[e] + r /\ waits[e] <= m + r
  BY <1>2 DEF Close
<1> HIDE DEF D, wt, p, f, g, r
<1>11. f[o] \in Int /\ f[p] \in Int /\ waits[o] \in Int /\ p \in Engines
  BY <1>2, <1>3
<1>12. /\ - r <= g[p] /\ waits'[p] <= g[p] + r /\ waits'[p] <= m + r
       /\ - r <= g[o] /\ waits'[o] <= g[o] + r /\ waits'[o] <= m + r
  <2>1. CASE o \in D
    <3>1. /\ wt[o] \in Int /\ wt[o] >= 1 /\ wt[p] \in Int /\ wt[p] <= 2 * m
          /\ wt[p] + wt[o] <= 3 * m
      BY <1>3, <1>7, <1>8, <2>1
    <3>2. g[o] = f[o] + wt[o] /\ f[o] + wt[o] <= f[p] + wt[p]
      BY <1>3, <1>4, <2>1
    <3>3. waits'[o] = waits[o] + 1 /\ waits'[p] = 0
      BY <1>9, <2>1
    <3>4. - r <= f[o] /\ waits[o] <= f[o] + r
      BY <1>10
    <3>5. f[o] <= m - 1 /\ g[o] <= r
      BY <1>1, <1>6, <1>11, <3>1, <3>2
    <3> QED BY <1>1, <1>6, <1>11, <3>1, <3>2, <3>3, <3>4, <3>5
  <2>2. CASE o \notin D
    <3>1. g[o] = f[o] /\ waits'[o] = waits[o] /\ waits'[p] = 0
      BY <1>3, <1>9, <2>2
    <3>2. - r <= f[o] /\ waits[o] <= f[o] + r /\ waits[o] <= m + r /\ - r <= f[p]
      BY <1>10, <1>11
    <3> QED BY <1>1, <1>6, <1>11, <3>1, <3>2
  <2> QED BY <2>1, <2>2
<1>13. \A e \in Engines : - r <= g[e] /\ waits'[e] <= g[e] + r /\ waits'[e] <= m + r
  BY <1>4, <1>12
<1> QED BY <1>13 DEF Close, Reach, g, r

\* Only a selection changes who waits.
LEMMA OnlyAdvanceWaits ==
  ASSUME [Next]_vars, ~ \E w \in Workers : Advance(w)
  PROVE  UNCHANGED <<cursor, lost, waits>>
BY DEF Next, Select, Look, NoneEligible, ReadCursors, GetSelected, RecordSelection, WriteBack,
       Succeed, Reject, Fail, Crash, Record, DeadlinePasses, vars, history

\* At the start nothing is recorded and all cursors are equal.
LEMMA InitFair ==
  ASSUME Init, NEW m \in Nat
  PROVE  Weighted(m) /\ Patient(m) /\ Close(m)
<1>1. Weighted(m)
  <2>1. \A w \in Workers : run[w] = Idle
    BY DEF Init
  <2>2. Idle.weight = <<>> /\ DOMAIN Idle.weight = {}
    BY DEF Idle
  <2> QED BY <2>1, <2>2 DEF Weighted
<1>2. \A e \in Engines : cursor[e] = 0 /\ waits[e] = 0
  BY DEF Init
<1>3. IsFiniteSet(Engines) /\ Cardinality(Engines) \in Nat
  BY EngineAssumption, FS_CardinalityType
<1>4. Spread(cursor, Engines, 2 * m)
  <2> SUFFICES ASSUME NEW T \in SUBSET Engines
               PROVE  Sum(cursor, T) <=
                        2 * m * (Cardinality(T) * (Cardinality(Engines) - Cardinality(T)))
    BY DEF Spread
  <2> DEFINE k == Cardinality(T)
             n == Cardinality(Engines)
  <2>1. k \in Nat /\ n \in Nat /\ n - k \in Nat
    BY <1>3, FS_Subset, FS_CardinalityType
  <2>2. Sum(cursor, T) <= k * 0
    <3>1. \A e \in Engines : cursor[e] \in Int /\ cursor[e] <= 0
      BY <1>2
    <3> QED BY <1>3, <3>1, SumAtMost
  <2>3. Sum(cursor, T) \in Int
    BY <1>2, <1>3, SumType
  <2> HIDE DEF k, n
  <2> DEFINE q == n - k
  <2>4. q \in Nat => 2 * m * (k * q) \in Nat
    <3> HIDE DEF q
    <3>1. q \in Nat => k * q \in Nat
      BY <2>1
    <3> DEFINE x == k * q
    <3> HIDE DEF x
    <3>2. x \in Nat => 2 * m * x \in Nat
      OBVIOUS
    <3> QED BY <3>1, <3>2 DEF x
  <2>5. k * 0 = 0
    BY <2>1
  <2>6. 2 * m * (k * q) \in Nat
    BY <2>1, <2>4
  <2>7. Sum(cursor, T) <= 2 * m * (k * q)
    <3> HIDE DEF q
    <3> QED BY <2>2, <2>3, <2>5, <2>6
  <2> QED BY <2>7 DEF k, n
<1>5. Patient(m)
  <2> DEFINE n == Cardinality(Engines)
  <2>1. ASSUME NEW e \in Engines PROVE 0 <= 2 * m * (n - 1)
    <3>1. n # 0
      BY <1>3, FS_EmptySet
    <3>2. n - 1 \in Nat
      BY <1>3, <3>1
    <3> DEFINE q == n - 1
    <3> HIDE DEF q
    <3>3. q \in Nat => 0 <= 2 * m * q
      OBVIOUS
    <3> QED BY <3>2, <3>3 DEF q
  <2>2. ASSUME NEW e \in Engines PROVE waits[e] <= cursor[e] + 2 * m * (n - 1)
    <3> DEFINE c == 2 * m * (n - 1)
    <3>1. 0 <= c /\ c \in Int
      BY <1>3, <2>1
    <3> HIDE DEF c
    <3>2. waits[e] <= cursor[e] + c
      BY <1>2, <3>1
    <3> QED BY <3>2 DEF c
  <2> QED BY <1>4, <2>2 DEF Patient
<1>6. Close(m)
  <2>1. Reach(m) \in Nat
    BY DEF Reach
  <2> QED BY <1>2, <2>1 DEF Close
<1> QED BY <1>1, <1>5, <1>6

\* However the circuits open and close, whatever the jobs exclude and whichever sessions are
\* warm: as long as no two selections overlap, no candidate waits longer than the number of
\* the others and the largest base weight m allow.
THEOREM NobodyStarves ==
  ASSUME NEW m \in Nat, \A e \in Engines : Base[e] <= m,
         MaxWait >= 4 * m * (Cardinality(Engines) - 1)
  PROVE  Spec => []NoStarvation
<1> DEFINE Inv == IInv /\ Weighted(m) /\ Patient(m)
<1>1. Init => Inv
  BY InitIInv, InitFair
<1>2. Inv /\ [Next]_vars => Inv'
  <2> SUFFICES ASSUME Inv, [Next]_vars PROVE Inv'
    OBVIOUS
  <2>1. IInv'
    BY NextIInv
  <2>2. Weighted(m)'
    BY WeightedStep
  <2>3. Patient(m)'
    <3>1. CASE \E w \in Workers : Advance(w)
      BY <3>1, AdvancePatient
    <3>2. CASE ~ \E w \in Workers : Advance(w)
      BY <3>2, OnlyAdvanceWaits DEF Patient, Spread, Sum
    <3> QED BY <3>1, <3>2
  <2> QED BY <2>1, <2>2, <2>3
<1>3. Inv => NoStarvation
  <2> SUFFICES ASSUME Inv, lost = 0, NEW e \in Engines PROVE waits[e] <= MaxWait
    BY BoundAssumption DEF NoStarvation, IInv, Shared
  <2> DEFINE n == Cardinality(Engines)
             c == 2 * m * (n - 1)
  <2>1. IsFiniteSet(Engines) /\ n \in Nat
    BY EngineAssumption, FS_CardinalityType
  <2>2. cursor[e] <= c
    <3>1. Sum(cursor, {e}) <= 2 * m * (Cardinality({e}) * (n - Cardinality({e})))
      BY DEF Patient, Spread
    <3>2. Cardinality({e}) = 1
      BY FS_Singleton
    <3>3. Sum(cursor, {e}) = cursor[e] + Sum(cursor, {e} \ {e})
      <4>1. \A x \in Engines : cursor[x] \in Int
        BY DEF IInv, Shared
      <4> QED BY <2>1, <4>1, SumRemoves
    <3>4. Sum(cursor, {e} \ {e}) = 0
      BY FS_EmptySet, SumUnfolds
    <3>5. cursor[e] \in Int
      BY DEF IInv, Shared
    <3> HIDE DEF n
    <3>6. cursor[e] <= 2 * m * (1 * (n - 1))
      BY <3>1, <3>2, <3>3, <3>4, <3>5
    <3>7. 1 * (n - 1) = n - 1
      BY <2>1
    <3> QED BY <3>6, <3>7
  <2>3. waits[e] <= cursor[e] + c
    BY DEF Patient
  <2>4. c \in Int /\ 4 * m * (n - 1) = 2 * c
    <3> HIDE DEF n
    <3> QED BY <2>1
  <2>5. cursor[e] \in Int /\ waits[e] \in Int /\ MaxWait \in Int
    BY BoundAssumption DEF IInv, Shared
  <2>6. MaxWait >= 2 * c
    BY <2>4
  <2> HIDE DEF c
  <2> QED BY <2>2, <2>3, <2>4, <2>5, <2>6
<1> HIDE DEF Inv
<1> QED BY <1>1, <1>2, <1>3, PTL DEF Spec

\* Two engines wait less: of base weight 1, no candidate loses three selections in a row.
THEOREM PairStarvesNobody ==
  ASSUME NEW m \in Nat, \A e \in Engines : Base[e] <= m, Cardinality(Engines) = 2,
         MaxWait >= m + Reach(m)
  PROVE  Spec => []NoStarvation
<1> DEFINE Inv == IInv /\ Weighted(m) /\ Close(m)
<1>1. Init => Inv
  BY InitIInv, InitFair
<1>2. Inv /\ [Next]_vars => Inv'
  <2> SUFFICES ASSUME Inv, [Next]_vars PROVE Inv'
    OBVIOUS
  <2>1. IInv'
    BY NextIInv
  <2>2. Weighted(m)'
    BY WeightedStep
  <2>3. Close(m)'
    <3>1. CASE \E w \in Workers : Advance(w)
      BY <3>1, AdvanceClose
    <3>2. CASE ~ \E w \in Workers : Advance(w)
      BY <3>2, OnlyAdvanceWaits DEF Close, Reach
    <3> QED BY <3>1, <3>2
  <2> QED BY <2>1, <2>2, <2>3
<1>3. Inv => NoStarvation
  <2> SUFFICES ASSUME Inv, lost = 0, NEW e \in Engines PROVE waits[e] <= MaxWait
    BY BoundAssumption DEF NoStarvation, IInv, Shared
  <2>1. waits[e] <= m + Reach(m)
    BY DEF Close
  <2>2. waits[e] \in Int /\ MaxWait \in Int /\ Reach(m) \in Int
    BY BoundAssumption DEF IInv, Shared, Reach
  <2> QED BY <2>1, <2>2
<1> HIDE DEF Inv
<1> QED BY <1>1, <1>2, <1>3, PTL DEF Spec
=============================================================================
