------------------------ MODULE EscalationLadderProofs ------------------------
(***************************************************************************)
(* The brakes of BUILD for any tasks, workers, caps, costs and grants, and *)
(* any number of crashes.  Attempts are what sessions are paid with: the   *)
(* invariant compares what a job has wasted, the effort it has reached and *)
(* the reviews it has had with the attempts its row counts, and what may   *)
(* still be spent with the sessions that run.                              *)
(***************************************************************************)
EXTENDS EscalationLadder, FiniteSetTheorems, TLAPS

\* The effort of a job's session in its nth attempt.
Rung(n) == EffortForAttempt(IF n <= LadderExhausted THEN n ELSE LadderExhausted)

\* A leased row has counted the attempt that is under way.
Counted(j) == IF st[j] = "leased" THEN attempts[j] ELSE attempts[j] + 1

\* A human's latest answer is one of those a gate offers, and is remembered.
Granting ==
  \A j \in Jobs :
    /\ answer[j] \in [attempts : {0, MoreAttempts}, dollars : {0, MoreDollars}]
    /\ answer[j].attempts <= promised[j].attempts

\* Every session that was wasted left its attempt behind, ...
Paying == \A j \in Jobs : /\ Counted(j) >= 1
                          /\ wasted[j] < Counted(j)
                          /\ effort[j] <= Rung(Counted(j))

\* ... and none started without one that was on the ladder, or granted.
Licensed ==
  \A w \in Workers :
    at[w] \in {"running", "finished"} =>
      attempts[doing[w]] <= AtLeast(LadderExhausted, promised[doing[w]].attempts)

\* Attempts end at the maximum, but for those that a crash took.
Retrying ==
  \A j \in Jobs :
    /\ attempts[j] <= MaxAttempts + faults
    /\ st[j] \in {"absent", "ready", "awaiting_human"} => attempts[j] < MaxAttempts + faults

\* A verify has had no more reviews than attempts, and one fewer until this attempt's
\* begins.
Reviewing ==
  \A t \in Tasks :
    /\ reviews[t] <= attempts[Verify(t)]
    /\ \A w \in Workers :
         doing[w] = Verify(t) /\ at[w] = "checking" => reviews[t] < attempts[Verify(t)]

\* What the sessions that run may cost was within the caps when each started, or is
\* the reviewer's.
Paid == {"running", "reviewing"}
Busy == {w \in Workers : at[w] \in Paid}
Allowed == TopCap + SessionCost * (Cardinality(Workers) + Cardinality(Reviewed))
Affordable == spent + SessionCost * Cardinality(Busy) <= Allowed

IInv == TypeOK /\ Granting /\ Paying /\ Licensed /\ WasteBounded
        /\ Retrying /\ Reviewing /\ Affordable

-----------------------------------------------------------------------------
(* Lemmas                                                                  *)

\* The ladder only goes up.
LEMMA RungRises ==
  ASSUME NEW m \in Nat \ {0}, NEW n \in Nat, m <= n
  PROVE  /\ Rung(m) \in 0 .. HIGH /\ Rung(n) \in 0 .. HIGH
         /\ Rung(m) <= Rung(n)
<1> DEFINE E(k) == EffortForAttempt(k)
<1>1. E(1) = 1 /\ E(2) = 1 /\ E(3) = 2 /\ E(4) = 2 /\ E(5) = 3 /\ E(6) = 3
  BY DEF EffortForAttempt, BuildLadder, Base, LOW, STANDARD, HIGH
<1>2. LadderExhausted = 6
  BY DEF LadderExhausted, BuildLadder
<1>3. \A k \in Nat \ {0} :
        Rung(k) = IF k <= 2 THEN 1 ELSE IF k <= 4 THEN 2 ELSE 3
  <2> SUFFICES ASSUME NEW k \in Nat \ {0}
               PROVE  Rung(k) = IF k <= 2 THEN 1 ELSE IF k <= 4 THEN 2 ELSE 3
    OBVIOUS
  <2>1. Rung(k) = E(IF k <= 6 THEN k ELSE 6)
    BY <1>2 DEF Rung
  <2>2. k \in {1, 2, 3, 4, 5, 6} \/ k > 6
    OBVIOUS
  <2> HIDE DEF E
  <2> QED BY <2>1, <2>2, <1>1
<1> QED BY <1>3 DEF HIGH

\* The larger of two numbers is one, and below neither.
LEMMA AtLeastIs ==
  ASSUME NEW a \in Nat, NEW b \in Nat
  PROVE  AtLeast(a, b) \in Nat /\ AtLeast(a, b) >= a /\ AtLeast(a, b) >= b
BY DEF AtLeast

\* A product grows with its second factor.
LEMMA ProductRises ==
  ASSUME NEW c \in Nat, NEW m \in Nat, NEW n \in Nat
  PROVE  /\ c * m \in Nat /\ c * (m + 1) = c * m + c
         /\ m <= n => c * m <= c * n
<1>1. c * m \in Nat /\ c * (m + 1) = c * m + c
  OBVIOUS
<1>2. ASSUME m <= n PROVE c * m <= c * n
  <2> DEFINE d == n - m
  <2>1. d \in Nat /\ n = m + d
    BY <1>2
  <2> HIDE DEF d
  <2>2. c * d \in Nat
    BY <2>1
  <2>3. c * (m + d) = c * m + c * d
    BY <2>1
  <2> QED BY <2>1, <2>2, <2>3
<1> QED BY <1>1, <1>2

\* A job of a kind is the one of its task.
LEMMA JobKinds ==
  /\ \A t \in Tasks : /\ Verify(t) \in Jobs /\ Kind(Verify(t)) = "verify" /\ Verify(t)[2] = t
                      /\ Implement(t) \in Jobs /\ Kind(Implement(t)) = "implement"
  /\ \A j \in Jobs : /\ Kind(j) = "verify" => j = Verify(j[2])
                     /\ j[2] \in Tasks
BY DEF Verify, Implement, Kind, Kinds, Jobs

\* Sessions run in no more workers than there are.
LEMMA BusyCounts ==
  /\ IsFiniteSet(Busy)
  /\ Cardinality(Busy) \in Nat /\ Cardinality(Workers) \in Nat
  /\ Cardinality(Busy) <= Cardinality(Workers)
<1>1. IsFiniteSet(Workers) /\ Busy \subseteq Workers
  BY LadderAssumption DEF Busy
<1> QED BY <1>1, FS_Subset, FS_CardinalityType

\* The worker that ends its session is one of them.
LEMMA BusyShrinks ==
  ASSUME at \in [Workers -> {"idle", "checking", "running", "finished", "reviewing"}],
         NEW w \in Workers, at[w] \in Paid,
         NEW p \in {"idle", "finished"}, at' = [at EXCEPT ![w] = p]
  PROVE  Cardinality(Busy) = Cardinality(Busy') + 1 /\ Cardinality(Busy') \in Nat
<1>1. Busy' = Busy \ {w} /\ w \in Busy
  BY DEF Busy, Paid
<1>2. Cardinality(Busy \ {w}) = Cardinality(Busy) - 1 /\ IsFiniteSet(Busy \ {w})
  BY <1>1, BusyCounts, FS_RemoveElement
<1>3. Cardinality(Busy \ {w}) \in Nat
  BY <1>2, FS_CardinalityType
<1> QED BY <1>1, <1>2, <1>3, BusyCounts

\* There are at most as many reviews as attempts of all tasks.
LEMMA ReviewsCount ==
  /\ IsFiniteSet(Reviewed) /\ Cardinality(Reviewed) \in Nat
  /\ Cardinality(Tasks) \in Nat
  /\ Cardinality(Reviewed) <= Cardinality(Tasks) * (MaxAttempts + MaxFaults)
<1> DEFINE n == MaxAttempts + MaxFaults
           all == Tasks \X (1 .. n)
<1>1. n \in Nat
  BY LadderAssumption
<1>2. IsFiniteSet(Tasks) /\ Cardinality(Tasks) \in Nat
  BY LadderAssumption, FS_CardinalityType
<1>3. IsFiniteSet(1 .. n) /\ Cardinality(1 .. n) = n
  BY <1>1, FS_Interval
<1>4. IsFiniteSet(all) /\ Cardinality(all) = Cardinality(Tasks) * n
  BY <1>2, <1>3, FS_Product
<1>5. Reviewed \subseteq all
  BY DEF Reviewed
<1> HIDE DEF all, n
<1>6. IsFiniteSet(Reviewed) /\ Cardinality(Reviewed) <= Cardinality(all)
  BY <1>4, <1>5, FS_Subset
<1> QED BY <1>2, <1>4, <1>6, FS_CardinalityType DEF n

\* What is allowed is a number.
LEMMA AllowedIs ==
  /\ TopCap \in Nat /\ Allowed \in Nat
  /\ SessionCost * Cardinality(Busy) \in Nat
<1>1. TopCap \in Nat
  BY LadderAssumption, AtLeastIs DEF TopCap
<1>2. SessionCost * (Cardinality(Workers) + Cardinality(Reviewed)) \in Nat
  BY LadderAssumption, BusyCounts, ReviewsCount, ProductRises
<1> QED BY <1>1, <1>2, LadderAssumption, BusyCounts, ProductRises DEF Allowed

-----------------------------------------------------------------------------
(* The rows                                                                *)

States == {"absent", "ready", "leased", "awaiting_human", "succeeded", "failed"}

\* Who is in a handler, and whose row is leased.
RowsOK ==
  /\ st \in [Jobs -> States]
  /\ attempts \in [Jobs -> Nat]
  /\ doing \in [Workers -> Jobs \cup {NoJob}]
  /\ at \in [Workers -> {"idle", "checking", "running", "finished", "reviewing"}]
  /\ \A w \in Workers : at[w] = "idle" <=> doing[w] = NoJob
  /\ \A w \in Workers : at[w] \in {"running", "finished"} => Kind(doing[w]) = "implement"
  /\ \A w \in Workers : at[w] = "reviewing" => Kind(doing[w]) = "verify"
  /\ \A w \in Workers : doing[w] # NoJob => st[doing[w]] = "leased"
  /\ \A v, w \in Workers : doing[v] = doing[w] /\ doing[v] # NoJob => v = w

\* They are part of the types.
LEMMA RowsTyped == TypeOK => RowsOK
BY DEF TypeOK, RowsOK, States

\* A worker in a handler has a leased job that is nobody else's.
LEMMA Mine ==
  ASSUME TypeOK, NEW w \in Workers, at[w] # "idle"
  PROVE  /\ doing[w] \in Jobs /\ doing[w] # NoJob /\ st[doing[w]] = "leased"
         /\ \A v \in Workers : v # w => doing[v] # doing[w]
BY LadderAssumption DEF TypeOK

\* Leaving a job changes its row and the place of its worker, and no other.
LEMMA LeaveKeeps ==
  ASSUME TypeOK, NEW w \in Workers, at[w] # "idle",
         NEW s \in States \ {"leased"}, NEW n \in Nat, Leave(w, s, n)
  PROVE  /\ RowsOK'
         /\ st'[doing[w]] = s /\ attempts'[doing[w]] = n
         /\ \A j \in Jobs \ {doing[w]} : st'[j] = st[j] /\ attempts'[j] = attempts[j]
         /\ at'[w] = "idle" /\ at' = [at EXCEPT ![w] = "idle"]
         /\ \A v \in Workers \ {w} : at'[v] = at[v] /\ doing'[v] = doing[v] /\ doing[v] # doing[w]
<1> DEFINE j == doing[w]
<1>1. /\ j \in Jobs /\ j # NoJob /\ st[j] = "leased"
      /\ \A v \in Workers : v # w => doing[v] # j
  BY Mine
<1>2. RowsOK
  BY RowsTyped
<1> HIDE DEF j
<1>3. /\ st' = [st EXCEPT ![j] = s] /\ attempts' = [attempts EXCEPT ![j] = n]
      /\ doing' = [doing EXCEPT ![w] = NoJob] /\ at' = [at EXCEPT ![w] = "idle"]
  BY DEF Leave, j
<1>4. st' \in [Jobs -> States] /\ attempts' \in [Jobs -> Nat]
  BY <1>1, <1>2, <1>3 DEF RowsOK
<1>5. /\ doing' \in [Workers -> Jobs \cup {NoJob}]
      /\ at' \in [Workers -> {"idle", "checking", "running", "finished", "reviewing"}]
      /\ \A v \in Workers : at'[v] = "idle" <=> doing'[v] = NoJob
  BY <1>2, <1>3 DEF RowsOK
<1>6. /\ \A v \in Workers : at'[v] \in {"running", "finished"} => Kind(doing'[v]) = "implement"
      /\ \A v \in Workers : at'[v] = "reviewing" => Kind(doing'[v]) = "verify"
      /\ \A v \in Workers : doing'[v] # NoJob => st'[doing'[v]] = "leased"
  BY <1>1, <1>2, <1>3 DEF RowsOK
<1>7. \A v, u \in Workers : doing'[v] = doing'[u] /\ doing'[v] # NoJob => v = u
  BY <1>2, <1>3 DEF RowsOK
<1>8. RowsOK'
  BY <1>4, <1>5, <1>6, <1>7 DEF RowsOK
<1>9. /\ st'[j] = s /\ attempts'[j] = n
      /\ \A k \in Jobs \ {j} : st'[k] = st[k] /\ attempts'[k] = attempts[k]
      /\ at'[w] = "idle"
      /\ \A v \in Workers \ {w} : at'[v] = at[v] /\ doing'[v] = doing[v] /\ doing[v] # j
  BY <1>1, <1>2, <1>3 DEF RowsOK
<1> QED BY <1>3, <1>8, <1>9 DEF j

-----------------------------------------------------------------------------
(* The steps of a worker                                                   *)

\* The end of a session spends no more than was set aside for it.
LEMMA SessionIsPaid ==
  ASSUME TypeOK, Affordable, Spend, Allowed' = Allowed,
         Cardinality(Busy) = Cardinality(Busy') + 1, Cardinality(Busy') \in Nat
  PROVE  Affordable'
<1>1. PICK c \in 0 .. SessionCost : spent' = spent + c
  BY DEF Spend
<1>2. /\ SessionCost * (Cardinality(Busy') + 1) = SessionCost * Cardinality(Busy') + SessionCost
      /\ SessionCost * Cardinality(Busy') \in Nat /\ SessionCost \in Nat
  BY LadderAssumption, ProductRises
<1>3. spent + SessionCost * Cardinality(Busy) <= Allowed /\ spent \in Nat /\ Allowed \in Nat
  BY AllowedIs DEF Affordable, TypeOK
<1>4. spent' + SessionCost * Cardinality(Busy') <= Allowed
  BY <1>1, <1>2, <1>3
<1> QED BY <1>4 DEF Affordable

\* A worker leaves its job, parked, returned or settled: the row counts the
\* attempt unless it is given back before a review, a wasted session is charged to
\* it, and what a session cost was allowed for.
LEMMA JobIsLeft ==
  ASSUME IInv, NEW w \in Workers,
         NEW s \in States \ {"leased"}, NEW n \in Nat, Leave(w, s, n),
         \/ n = attempts[doing[w]]
         \/ n + 1 = attempts[doing[w]] /\ at[w] # "reviewing",
         n < MaxAttempts + faults' \/ s \in {"succeeded", "failed"},
         \/ at[w] \in Paid /\ Spend
         \/ at[w] \in {"checking", "finished"} /\ UNCHANGED spent,
         \/ UNCHANGED wasted
         \/ /\ at[w] \in {"running", "finished"} /\ n = attempts[doing[w]]
            /\ wasted' = [wasted EXCEPT ![doing[w]] = @ + 1],
         gate' \in [Jobs -> Gates], UNCHANGED <<answer, promised, effort, reviews>>,
         faults' \in 0 .. MaxFaults, faults' >= faults
  PROVE  IInv'
<1> DEFINE j == doing[w]
<1> USE LadderAssumption
<1>0. at[w] # "idle"
  BY DEF Paid
<1>1. /\ j \in Jobs /\ j # NoJob /\ st[j] = "leased"
      /\ \A v \in Workers : v # w => doing[v] # j
  BY <1>0, Mine DEF IInv
<1>2. /\ RowsOK'
      /\ st'[j] = s /\ attempts'[j] = n
      /\ \A k \in Jobs \ {j} : st'[k] = st[k] /\ attempts'[k] = attempts[k]
      /\ at'[w] = "idle" /\ at' = [at EXCEPT ![w] = "idle"]
      /\ \A v \in Workers \ {w} : at'[v] = at[v] /\ doing'[v] = doing[v]
  BY <1>0, LeaveKeeps DEF IInv
<1>3. spent' \in Nat
  BY DEF Spend, IInv, TypeOK
<1> HIDE DEF j
<1>4. wasted' \in [Jobs -> Nat] /\ wasted'[j] <= wasted[j] + (IF n = attempts[j] THEN 1 ELSE 0)
      /\ \A k \in Jobs \ {j} : wasted'[k] = wasted[k]
  BY <1>1 DEF IInv, TypeOK, j
<1>5. TypeOK'
  BY <1>2, <1>3, <1>4 DEF IInv, TypeOK, RowsOK, States
<1>6. Granting'
  BY DEF IInv, Granting
<1>7. Paying'
  <2> SUFFICES ASSUME NEW k \in Jobs
               PROVE  /\ Counted(k)' >= 1 /\ wasted'[k] < Counted(k)'
                      /\ effort'[k] <= Rung(Counted(k)')
    BY DEF Paying, Counted
  <2>1. /\ Counted(k) >= 1 /\ wasted[k] < Counted(k) /\ effort[k] <= Rung(Counted(k))
        /\ effort' = effort /\ attempts[k] \in Nat /\ wasted[k] \in Nat /\ effort[k] \in 0 .. HIGH
    BY DEF IInv, Paying, TypeOK
  <2>2. CASE k = j
    <3>1. Counted(k) = attempts[j] /\ Counted(k)' = n + 1
      BY <1>1, <1>2, <2>2 DEF Counted
    <3>2. attempts[j] \in Nat \ {0} /\ attempts[j] <= n + 1
      BY <2>1, <2>2, <3>1 DEF j
    <3>3. /\ Rung(attempts[j]) <= Rung(n + 1)
          /\ Rung(attempts[j]) \in 0 .. HIGH /\ Rung(n + 1) \in 0 .. HIGH
      BY <3>2, RungRises
    <3>4. effort'[k] <= Rung(n + 1)
      BY <2>1, <3>1, <3>3 DEF HIGH
    <3>5. wasted'[k] < n + 1
      BY <1>4, <2>1, <2>2, <3>1, <3>2 DEF j
    <3> QED BY <3>1, <3>4, <3>5
  <2>3. CASE k # j
    <3>1. Counted(k)' = Counted(k) /\ wasted'[k] = wasted[k]
      BY <1>2, <1>4, <2>3 DEF Counted
    <3> QED BY <2>1, <3>1
  <2> QED BY <2>2, <2>3
<1>8. Licensed'
  BY <1>2 DEF IInv, Licensed, RowsOK, j, TypeOK
<1>9. WasteBounded'
  <2> SUFFICES ASSUME NEW k \in Jobs
               PROVE  wasted'[k] <= AtLeast(LadderExhausted, promised[k].attempts)
    BY DEF WasteBounded
  <2>1. wasted[k] <= AtLeast(LadderExhausted, promised[k].attempts)
    BY DEF IInv, WasteBounded
  <2>2. CASE k = j /\ n = attempts[j] /\ at[w] \in {"running", "finished"}
    <3>1. attempts[j] <= AtLeast(LadderExhausted, promised[j].attempts)
      BY <2>2 DEF IInv, Licensed, j
    <3>2. /\ wasted[j] < attempts[j] /\ wasted'[j] <= wasted[j] + 1
          /\ wasted[j] \in Nat /\ wasted'[j] \in Nat /\ attempts[j] \in Nat
      BY <1>1, <1>4, <2>2 DEF IInv, Paying, Counted, TypeOK
    <3>3. AtLeast(LadderExhausted, promised[j].attempts) \in Nat
      BY <1>1, AtLeastIs DEF IInv, TypeOK, LadderExhausted, BuildLadder
    <3> QED BY <2>2, <3>1, <3>2, <3>3
  <2>3. CASE ~(k = j /\ n = attempts[j] /\ at[w] \in {"running", "finished"})
    <3>1. wasted'[k] = wasted[k]
      BY <1>1, <1>4, <2>3 DEF IInv, TypeOK, j
    <3> QED BY <2>1, <3>1
  <2> QED BY <2>2, <2>3
<1>10. Retrying'
  <2> SUFFICES ASSUME NEW k \in Jobs
      PROVE  /\ attempts'[k] <= MaxAttempts + faults'
             /\ st'[k] \in {"absent", "ready", "awaiting_human"} => attempts'[k] < MaxAttempts + faults'
    BY DEF Retrying
  <2>1. /\ attempts[k] \in Nat /\ faults \in Nat /\ faults' \in Nat
        /\ attempts[k] <= MaxAttempts + faults
        /\ st[k] \in {"absent", "ready", "awaiting_human"} => attempts[k] < MaxAttempts + faults
    BY DEF IInv, TypeOK, Retrying
  <2>2. CASE k # j
    BY <1>2, <2>1, <2>2
  <2>3. CASE k = j
    <3>1. n <= attempts[k]
      BY <2>1, <2>3 DEF j
    <3> QED BY <1>2, <2>1, <2>3, <3>1 DEF States
  <2> QED BY <2>2, <2>3
<1>11. Reviewing'
  <2> SUFFICES ASSUME NEW t \in Tasks
      PROVE  /\ reviews[t] <= attempts'[Verify(t)]
             /\ \A v \in Workers :
                  doing'[v] = Verify(t) /\ at'[v] = "checking" => reviews[t] < attempts'[Verify(t)]
    BY DEF Reviewing
  <2> DEFINE k == Verify(t)
  <2>1. k \in Jobs /\ attempts[k] \in Nat /\ reviews[t] \in Nat
    BY JobKinds DEF IInv, TypeOK
  <2>2. /\ reviews[t] <= attempts[k]
        /\ \A v \in Workers : doing[v] = k /\ at[v] = "checking" => reviews[t] < attempts[k]
    BY DEF IInv, Reviewing
  <2>3. CASE k # j
    <3>1. attempts'[k] = attempts[k]
      BY <1>2, <2>1, <2>3
    <3>2. \A v \in Workers : doing'[v] = k => v # w /\ doing[v] = k /\ at[v] = at'[v]
      BY <1>1, <1>2, <2>1 DEF RowsOK
    <3> HIDE DEF k
    <3> QED BY <2>1, <2>2, <3>1, <3>2 DEF k
  <2>4. CASE k = j
    <3>1. attempts'[k] = n
      BY <1>2, <2>4
    <3>2. \A v \in Workers : doing'[v] # k
      BY <1>1, <1>2, <2>1, <2>4 DEF RowsOK
    <3>3. at[w] \in {"checking", "reviewing"}
      BY <1>0, <2>4, JobKinds DEF IInv, TypeOK, j
    <3>4. n = attempts[k] \/ (n + 1 = attempts[k] /\ at[w] = "checking" /\ doing[w] = k)
      BY <2>4, <3>3 DEF j
    <3>5. reviews[t] <= n
      BY <2>1, <2>2, <3>4
    <3> HIDE DEF k
    <3> QED BY <2>1, <3>1, <3>2, <3>5 DEF k
  <2> QED BY <2>3, <2>4
<1>12. Affordable'
  <2>0. Allowed' = Allowed
    BY DEF Allowed, TopCap, Reviewed
  <2>1. CASE at[w] \in Paid /\ Spend
    <3>1. Cardinality(Busy) = Cardinality(Busy') + 1 /\ Cardinality(Busy') \in Nat
      BY <1>2, <2>1, BusyShrinks DEF IInv, TypeOK
    <3> QED BY <2>0, <2>1, <3>1, SessionIsPaid DEF IInv, TypeOK
  <2>2. CASE at[w] \in {"checking", "finished"} /\ spent' = spent
    <3>1. Busy' = Busy
      BY <1>2, <2>2 DEF Busy, Paid, IInv, TypeOK
    <3> QED BY <2>0, <2>2, <3>1 DEF IInv, Affordable
  <2> QED BY <2>1, <2>2
<1> QED BY <1>5, <1>6, <1>7, <1>8, <1>9, <1>10, <1>11, <1>12 DEF IInv

\* A refund takes back the attempt the claim counted, and only that.
LEMMA RefundIs ==
  ASSUME IInv, NEW w \in Workers, at[w] # "idle"
  PROVE  /\ attempts[doing[w]] \in Nat /\ attempts[doing[w]] < MaxAttempts + (faults + 1)
         /\ Refund(attempts[doing[w]]) \in Nat /\ Refund(attempts[doing[w]]) + 1 = attempts[doing[w]]
         /\ Refund(attempts[doing[w]]) < MaxAttempts + faults
<1>1. doing[w] \in Jobs /\ st[doing[w]] = "leased"
  BY Mine DEF IInv
<1>2. /\ attempts[doing[w]] >= 1 /\ attempts[doing[w]] \in Nat
      /\ attempts[doing[w]] <= MaxAttempts + faults /\ MaxAttempts \in Nat /\ faults \in Nat
  BY <1>1, LadderAssumption DEF IInv, Paying, Counted, TypeOK, Retrying
<1> QED BY <1>2 DEF Refund

\* Parking behind a gate gives the attempt back.
LEMMA ParkSafe ==
  ASSUME IInv, NEW w \in Workers, at[w] = "checking", NEW kind \in Gates, ParkFor(w, kind)
  PROVE  IInv'
<1> DEFINE n == Refund(attempts[doing[w]])
<1>1. n \in Nat /\ n + 1 = attempts[doing[w]] /\ n < MaxAttempts + faults
  BY RefundIs
<1>2. gate' \in [Jobs -> Gates] /\ faults' \in 0 .. MaxFaults /\ faults' >= faults
  BY DEF ParkFor, IInv, TypeOK
<1>3. "awaiting_human" \in States \ {"leased"} /\ Leave(w, "awaiting_human", n)
  BY DEF States, ParkFor
<1>4. UNCHANGED <<answer, promised, spent, effort, wasted, reviews, faults>>
  BY DEF ParkFor
<1> HIDE DEF n
<1> QED BY <1>1, <1>2, <1>3, <1>4, JobIsLeft

\* The end of a session or of a check, whichever way it ends.
LEMMA EndSafe ==
  ASSUME IInv, NEW w \in Workers,
         \/ Complete(w) \/ RejectCapacity(w) \/ Fail(w)
         \/ Postpone(w) \/ Approve(w) \/ Disapprove(w) \/ Crash(w)
  PROVE  IInv'
<1> DEFINE j == doing[w]
           n == attempts[doing[w]]
<1>1. at[w] # "idle"
  BY DEF Complete, RejectCapacity, Fail, Postpone, Approve, Disapprove, Crash, At, IInv, TypeOK
<1>2. /\ n \in Nat
      /\ Refund(n) \in Nat /\ Refund(n) + 1 = n
      /\ Refund(n) < MaxAttempts + faults /\ n < MaxAttempts + (faults + 1)
  BY <1>1, RefundIs
<1>3. {"succeeded", "ready", "failed"} \subseteq States \ {"leased"}
  BY DEF States
<1>4. /\ gate \in [Jobs -> Gates] /\ faults \in 0 .. MaxFaults /\ faults \in Nat
      /\ faults >= faults /\ MaxAttempts \in Nat
  BY LadderAssumption DEF IInv, TypeOK
<1>5. CASE Complete(w)
  <2>1. at[w] = "finished" /\ Leave(w, "succeeded", n)
        /\ UNCHANGED <<spent, gate, answer, promised, effort, wasted, reviews, faults>>
    BY <1>5 DEF Complete, At, gates
  <2> HIDE DEF n
  <2> QED BY <1>2, <1>3, <1>4, <2>1, JobIsLeft DEF n
<1>6. CASE RejectCapacity(w)
  <2>1. at[w] = "running" /\ Spend /\ Leave(w, "ready", Refund(n))
        /\ UNCHANGED <<gate, answer, promised, effort, wasted, reviews, faults>>
    BY <1>6 DEF RejectCapacity, At, gates
  <2> QED BY <1>2, <1>3, <1>4, <2>1, JobIsLeft DEF Paid
<1>7. CASE Fail(w)
  <2>1. /\ at[w] = "running" /\ Spend /\ wasted' = [wasted EXCEPT ![j] = @ + 1]
        /\ UNCHANGED <<gate, answer, promised, effort, reviews, faults>>
        /\ \/ Leave(w, "failed", n)
           \/ Leave(w, "ready", n) /\ n < MaxAttempts
    BY <1>7 DEF Fail, Nack, At, gates
  <2>2. n < MaxAttempts => n < MaxAttempts + faults
    BY <1>2, <1>4
  <2> QED BY <1>2, <1>3, <1>4, <2>1, <2>2, JobIsLeft DEF Paid
<1>8. CASE Postpone(w)
  <2>1. at[w] = "checking" /\ Leave(w, "ready", Refund(n))
        /\ UNCHANGED <<spent, gate, answer, promised, effort, wasted, reviews, faults>>
    BY <1>8 DEF Postpone, At, gates
  <2> QED BY <1>2, <1>3, <1>4, <2>1, JobIsLeft
<1>9. CASE Approve(w)
  <2>1. at[w] = "reviewing" /\ Spend /\ Leave(w, "succeeded", n)
        /\ UNCHANGED <<gate, answer, promised, effort, wasted, reviews, faults>>
    BY <1>9 DEF Approve, At, gates
  <2> QED BY <1>2, <1>3, <1>4, <2>1, JobIsLeft DEF Paid
<1>10. CASE Disapprove(w)
  <2>1. /\ \/ at[w] = "reviewing" /\ Spend
           \/ at[w] = "checking" /\ UNCHANGED spent
        /\ UNCHANGED <<gate, answer, promised, effort, wasted, reviews, faults>>
        /\ \/ Leave(w, "failed", n)
           \/ Leave(w, "ready", n) /\ n < MaxAttempts
    BY <1>10 DEF Disapprove, Nack, At, gates
  <2>2. n < MaxAttempts => n < MaxAttempts + faults
    BY <1>2, <1>4
  <2> QED BY <1>2, <1>3, <1>4, <2>1, <2>2, JobIsLeft DEF Paid
<1>11. CASE Crash(w)
  <2>1. /\ \/ at[w] \in Paid /\ Spend
           \/ at[w] \in {"checking", "finished"} /\ UNCHANGED spent
        /\ \/ UNCHANGED wasted
           \/ at[w] \in {"running", "finished"} /\ wasted' = [wasted EXCEPT ![j] = @ + 1]
        /\ UNCHANGED <<gate, answer, promised, effort, reviews>>
        /\ Leave(w, "ready", n)
    BY <1>11 DEF Crash, gates, Paid
  <2>2. faults' \in 0 .. MaxFaults /\ faults' = faults + 1 /\ faults' >= faults
    BY <1>4, <1>11, LadderAssumption DEF Crash
  <2>3. n < MaxAttempts + faults'
    BY <1>2, <2>2
  <2> QED BY <1>2, <1>3, <1>4, <2>1, <2>2, <2>3, JobIsLeft
<1> QED BY <1>5, <1>6, <1>7, <1>8, <1>9, <1>10, <1>11

\* A session that completes may insert the verify of its task, which has had no
\* attempt, and spends what was set aside for it.
LEMMA FinishSafe ==
  ASSUME IInv, NEW w \in Workers, Finish(w)
  PROVE  IInv'
<1> DEFINE v == Verify(doing[w][2])
<1> USE LadderAssumption
<1>1. /\ at[w] = "running" /\ Spend /\ at' = [at EXCEPT ![w] = "finished"]
      /\ UNCHANGED <<attempts, gate, answer, promised, doing, effort, wasted, reviews, faults>>
      /\ UNCHANGED st \/ (st[v] = "absent" /\ st' = [st EXCEPT ![v] = "ready"])
  BY DEF Finish, At, gates
<1>2. doing[w] \in Jobs /\ v \in Jobs
  BY <1>1, Mine, JobKinds DEF IInv
<1> HIDE DEF v
<1>3. \A k \in Jobs : \/ st'[k] = st[k]
                      \/ st[k] = "absent" /\ st'[k] = "ready"
  BY <1>1, <1>2 DEF IInv, TypeOK
<1>4. st' \in [Jobs -> States]
  BY <1>1, <1>2 DEF IInv, TypeOK, States
<1>5. TypeOK'
  <2>1. spent' \in Nat
    BY <1>1 DEF Spend, IInv, TypeOK
  <2>2. \A u \in Workers : doing[u] # NoJob => st'[doing[u]] = "leased"
    BY <1>3 DEF IInv, TypeOK
  <2>3. \A u \in Workers : at'[u] = IF u = w THEN "finished" ELSE at[u]
    BY <1>1 DEF IInv, TypeOK
  <2> QED BY <1>1, <1>4, <2>1, <2>2, <2>3 DEF IInv, TypeOK, States
<1>6. Granting' /\ WasteBounded'
  BY <1>1 DEF IInv, Granting, WasteBounded
<1>7. Paying'
  <2>1. \A k \in Jobs : Counted(k)' = Counted(k)
    BY <1>1, <1>3 DEF Counted
  <2> QED BY <1>1, <2>1 DEF IInv, Paying
<1>8. Licensed'
  BY <1>1 DEF IInv, Licensed, TypeOK
<1>9. Retrying'
  BY <1>1, <1>3 DEF IInv, Retrying
<1>10. Reviewing'
  BY <1>1 DEF IInv, Reviewing, TypeOK
<1>11. Affordable'
  <2>1. Cardinality(Busy) = Cardinality(Busy') + 1 /\ Cardinality(Busy') \in Nat
    BY <1>1, BusyShrinks DEF IInv, TypeOK, Paid
  <2>2. Allowed' = Allowed
    BY <1>1 DEF Allowed, TopCap, Reviewed
  <2> QED BY <1>1, <2>1, <2>2, SessionIsPaid DEF IInv
<1> QED BY <1>5, <1>6, <1>7, <1>8, <1>9, <1>10, <1>11 DEF IInv

\* The reviewer's session is one more of those that are not braked, on an attempt
\* that had none.
LEMMA ReviewSafe ==
  ASSUME IInv, NEW w \in Workers, Review(w)
  PROVE  IInv'
<1> DEFINE j == doing[w]
           t == doing[w][2]
<1> USE LadderAssumption
<1>1. /\ at[w] = "checking" /\ j # NoJob /\ Kind(j) = "verify"
      /\ at' = [at EXCEPT ![w] = "reviewing"]
      /\ reviews' = [reviews EXCEPT ![t] = @ + 1]
      /\ UNCHANGED <<st, attempts, gate, answer, promised, doing, spent, effort, wasted, faults>>
  BY DEF Review, At, rows, gates
<1>2. /\ j \in Jobs /\ \A v \in Workers : v # w => doing[v] # j
  BY <1>1, Mine DEF IInv
<1>3. t \in Tasks /\ j = Verify(t)
  BY <1>1, <1>2, JobKinds
<1>4. /\ reviews[t] \in Nat /\ attempts[j] \in Nat /\ faults \in Nat
      /\ reviews[t] < attempts[j] /\ attempts[j] <= MaxAttempts + MaxFaults
  BY <1>1, <1>2, <1>3 DEF IInv, TypeOK, Reviewing, Retrying
<1>5. TypeOK'
  <2>1. \A u \in Workers : at'[u] = IF u = w THEN "reviewing" ELSE at[u]
    BY <1>1 DEF IInv, TypeOK
  <2>2. reviews' \in [Tasks -> Nat]
    BY <1>1, <1>3, <1>4 DEF IInv, TypeOK
  <2> HIDE DEF t
  <2> QED BY <1>1, <2>1, <2>2 DEF IInv, TypeOK
<1>6. Granting' /\ WasteBounded' /\ Retrying'
  BY <1>1 DEF IInv, Granting, WasteBounded, Retrying
<1>7. Paying'
  BY <1>1 DEF IInv, Paying, Counted
<1>8. Licensed'
  BY <1>1 DEF IInv, Licensed, TypeOK
<1> HIDE DEF j, t
<1>9. \A u \in Tasks : reviews'[u] = IF u = t THEN reviews[t] + 1 ELSE reviews[u]
  BY <1>1, <1>3 DEF IInv, TypeOK
<1>10. Reviewing'
  <2> SUFFICES ASSUME NEW u \in Tasks
      PROVE  /\ reviews'[u] <= attempts[Verify(u)]
             /\ \A v \in Workers :
                  doing[v] = Verify(u) /\ at'[v] = "checking" => reviews'[u] < attempts[Verify(u)]
    BY <1>1 DEF Reviewing
  <2>1. CASE u = t
    <3>1. \A v \in Workers : doing[v] = j => at'[v] # "checking"
      BY <1>1, <1>2 DEF IInv, TypeOK, j
    <3> QED BY <1>3, <1>4, <1>9, <2>1, <3>1
  <2>2. CASE u # t
    BY <1>1, <1>9, <2>2 DEF IInv, Reviewing, TypeOK
  <2> QED BY <2>1, <2>2
<1>11. Affordable'
  <2>1. Cardinality(Busy') = Cardinality(Busy) + 1
    <3>1. Busy' = Busy \cup {w} /\ w \notin Busy
      BY <1>1 DEF Busy, Paid, IInv, TypeOK
    <3> QED BY <3>1, BusyCounts, FS_AddElement
  <2>2. Cardinality(Reviewed') = Cardinality(Reviewed) + 1
    <3> DEFINE r == <<t, reviews[t] + 1>>
    <3>1. reviews[t] + 1 \in 1 .. MaxAttempts + MaxFaults
      BY <1>4
    <3>2. r \in Tasks \X (1 .. MaxAttempts + MaxFaults) /\ r \notin Reviewed
      BY <1>3, <1>4, <3>1 DEF Reviewed
    <3>3. ASSUME NEW q \in Tasks \X (1 .. MaxAttempts + MaxFaults)
          PROVE  q[2] <= reviews'[q[1]] <=> q[2] <= reviews[q[1]] \/ q = r
      <4>1. /\ q[1] \in Tasks /\ q[2] \in Nat /\ q = <<q[1], q[2]>> /\ reviews[q[1]] \in Nat
        BY <3>3 DEF IInv, TypeOK
      <4>2. CASE q[1] = t
        <5>1. q = r <=> q[2] = reviews[t] + 1
          BY <4>1, <4>2
        <5> QED BY <1>4, <1>9, <4>1, <4>2, <5>1
      <4>3. CASE q[1] # t
        <5>1. q # r
          BY <4>1, <4>3
        <5> QED BY <1>9, <4>1, <4>3, <5>1
      <4> QED BY <4>2, <4>3
    <3>4. Reviewed' = Reviewed \cup {r}
      <4> HIDE DEF r
      <4> QED BY <3>2, <3>3 DEF Reviewed
    <3> QED BY <3>2, <3>4, ReviewsCount, FS_AddElement
  <2>3. Allowed' = TopCap + SessionCost * ((Cardinality(Workers) + Cardinality(Reviewed)) + 1)
    BY <2>2, BusyCounts, ReviewsCount DEF Allowed, TopCap
  <2>4. SessionCost * ((Cardinality(Workers) + Cardinality(Reviewed)) + 1)
          = SessionCost * (Cardinality(Workers) + Cardinality(Reviewed)) + SessionCost
    BY BusyCounts, ReviewsCount, ProductRises
  <2>5. SessionCost * (Cardinality(Busy) + 1) = SessionCost * Cardinality(Busy) + SessionCost
    BY BusyCounts, ProductRises
  <2>6. /\ spent + SessionCost * Cardinality(Busy) <= Allowed /\ spent \in Nat
        /\ SessionCost * (Cardinality(Workers) + Cardinality(Reviewed)) \in Nat
    BY BusyCounts, ReviewsCount, ProductRises DEF IInv, Affordable, TypeOK
  <2>7. Allowed' = Allowed + SessionCost
    BY <2>3, <2>4, <2>6, AllowedIs DEF Allowed
  <2>8. spent' + SessionCost * Cardinality(Busy') <= Allowed'
    BY <1>1, <2>1, <2>5, <2>6, <2>7, AllowedIs
  <2> QED BY <2>8 DEF Affordable
<1> QED BY <1>5, <1>6, <1>7, <1>8, <1>10, <1>11 DEF IInv

\* A claim counts the attempt the job was about to be given.
LEMMA ClaimSafe ==
  ASSUME IInv, NEW w \in Workers, NEW j \in Jobs, Claim(w, j)
  PROVE  IInv'
<1> USE LadderAssumption
<1>1. /\ st[j] = "ready" /\ doing[w] = NoJob /\ at[w] = "idle"
      /\ st' = [st EXCEPT ![j] = "leased"] /\ attempts' = [attempts EXCEPT ![j] = @ + 1]
      /\ doing' = [doing EXCEPT ![w] = j] /\ at' = [at EXCEPT ![w] = "checking"]
      /\ UNCHANGED <<gate, answer, promised, spent, effort, wasted, reviews, faults>>
  BY DEF Claim, gates, IInv, TypeOK
<1>2. \A v \in Workers : doing[v] # j
  BY <1>1 DEF IInv, TypeOK
<1>3. TypeOK'
  BY <1>1, <1>2 DEF IInv, TypeOK
<1>4. Granting' /\ WasteBounded'
  BY <1>1 DEF IInv, Granting, WasteBounded
<1>5. \A k \in Jobs : Counted(k)' = Counted(k)
  BY <1>1 DEF Counted, IInv, TypeOK
<1>6. Paying'
  BY <1>1, <1>5 DEF IInv, Paying
<1>7. Licensed'
  BY <1>1, <1>2 DEF IInv, Licensed, TypeOK
<1>8. Retrying'
  <2>1. attempts[j] < MaxAttempts + faults /\ attempts[j] \in Nat /\ faults \in Nat
    BY <1>1 DEF IInv, TypeOK, Retrying
  <2>2. \A k \in Jobs : attempts'[k] = IF k = j THEN attempts[j] + 1 ELSE attempts[k]
    BY <1>1 DEF IInv, TypeOK
  <2>3. \A k \in Jobs : k # j => st'[k] = st[k]
    BY <1>1 DEF IInv, TypeOK
  <2>4. st'[j] = "leased"
    BY <1>1 DEF IInv, TypeOK
  <2> QED BY <1>1, <2>1, <2>2, <2>3, <2>4 DEF IInv, Retrying
<1>9. Reviewing'
  <2> SUFFICES ASSUME NEW t \in Tasks
      PROVE  /\ reviews[t] <= attempts'[Verify(t)]
             /\ \A v \in Workers :
                  doing'[v] = Verify(t) /\ at'[v] = "checking" => reviews[t] < attempts'[Verify(t)]
    BY <1>1 DEF Reviewing
  <2> DEFINE k == Verify(t)
  <2>1. /\ k \in Jobs /\ attempts[k] \in Nat /\ reviews[t] \in Nat /\ reviews[t] <= attempts[k]
        /\ \A v \in Workers : doing[v] = k /\ at[v] = "checking" => reviews[t] < attempts[k]
    BY JobKinds DEF IInv, TypeOK, Reviewing
  <2> HIDE DEF k
  <2>2. CASE k = j
    <3>1. attempts'[k] = attempts[k] + 1
      BY <1>1, <2>1, <2>2 DEF IInv, TypeOK
    <3> QED BY <2>1, <3>1 DEF k
  <2>3. CASE k # j
    <3>1. attempts'[k] = attempts[k]
      BY <1>1, <2>1, <2>3 DEF IInv, TypeOK
    <3>2. \A v \in Workers : doing'[v] = k => v # w /\ doing[v] = k /\ at'[v] = at[v]
      BY <1>1, <2>1, <2>3 DEF IInv, TypeOK
    <3> QED BY <2>1, <3>1, <3>2 DEF k
  <2> QED BY <2>2, <2>3
<1>10. Affordable'
  <2>1. Busy' = Busy
    BY <1>1 DEF Busy, Paid, IInv, TypeOK
  <2> QED BY <1>1, <2>1 DEF IInv, Affordable, Allowed, TopCap, Reviewed
<1> QED BY <1>3, <1>4, <1>6, <1>7, <1>8, <1>9, <1>10 DEF IInv

\* A session starts on an attempt of the ladder or of a grant, at the rung of that
\* attempt, while the cycle is below a cap somebody set.
LEMMA StartSafe ==
  ASSUME IInv, NEW w \in Workers, Start(w)
  PROVE  /\ IInv'
         /\ \A k \in Jobs : effort'[k] >= effort[k]
<1> DEFINE j == doing[w]
<1> USE LadderAssumption
<1>1. /\ at[w] = "checking"
      /\ OnLadder(j) \/ Granted(j)
      /\ ~Exhausted(j)
      /\ at' = [at EXCEPT ![w] = "running"] /\ effort' = [effort EXCEPT ![j] = SessionEffort(j)]
      /\ UNCHANGED <<st, attempts, gate, answer, promised, doing, spent, wasted, reviews, faults>>
      /\ Kind(j) = "implement"
  BY DEF Start, At, rows, gates
<1>2. /\ j \in Jobs /\ j # NoJob /\ st[j] = "leased"
      /\ \A v \in Workers : v # w => doing[v] # j
  BY <1>1, Mine DEF IInv
<1>3. /\ attempts[j] \in Nat \ {0} /\ effort[j] <= Rung(attempts[j]) /\ wasted[j] < attempts[j]
  BY <1>2 DEF IInv, Paying, Counted, TypeOK
<1>4. SessionEffort(j) = Rung(attempts[j])
  BY DEF SessionEffort, Rung, OnLadder
<1>5. Rung(attempts[j]) \in 0 .. HIGH
  BY <1>3, RungRises
<1>6. TypeOK'
  <2>1. effort' \in [Jobs -> 0 .. HIGH]
    BY <1>1, <1>2, <1>4, <1>5 DEF IInv, TypeOK
  <2>2. \A u \in Workers : at'[u] = IF u = w THEN "running" ELSE at[u]
    BY <1>1 DEF IInv, TypeOK
  <2>3. Kind(doing[w]) = "implement"
    BY <1>1
  <2> HIDE DEF j
  <2> QED BY <1>1, <2>1, <2>2, <2>3 DEF IInv, TypeOK
<1>7. Granting' /\ WasteBounded' /\ Retrying'
  BY <1>1 DEF IInv, Granting, WasteBounded, Retrying
<1>8. \A k \in Jobs : Counted(k)' = Counted(k)
  BY <1>1 DEF Counted
<1>9. Paying' /\ \A k \in Jobs : effort'[k] >= effort[k]
  <2> HIDE DEF j
  <2>1. \A k \in Jobs : effort'[k] = IF k = j THEN Rung(attempts[j]) ELSE effort[k]
    BY <1>1, <1>4 DEF IInv, TypeOK
  <2>2. \A k \in Jobs : effort[k] \in Nat
    BY DEF IInv, TypeOK, HIGH
  <2>3. Counted(j) = attempts[j]
    BY <1>2 DEF Counted
  <2>4. Rung(attempts[j]) \in Nat
    BY <1>5 DEF HIGH
  <2>5. \A k \in Jobs : effort'[k] <= Rung(Counted(k)) /\ effort'[k] >= effort[k]
    BY <1>3, <2>1, <2>2, <2>3, <2>4 DEF IInv, Paying
  <2> QED BY <1>1, <1>8, <2>5 DEF IInv, Paying
<1>10. Licensed'
  <2>1. attempts[j] <= AtLeast(LadderExhausted, promised[j].attempts)
    <3>1. LadderExhausted \in Nat /\ answer[j].attempts <= promised[j].attempts
          /\ promised[j].attempts \in Nat /\ answer[j].attempts \in Nat
      BY <1>2 DEF IInv, Granting, TypeOK, LadderExhausted, BuildLadder
    <3>2. attempts[j] <= LadderExhausted \/ attempts[j] <= answer[j].attempts
      BY <1>1 DEF OnLadder, Granted
    <3>3. /\ AtLeast(LadderExhausted, promised[j].attempts) \in Nat
          /\ AtLeast(LadderExhausted, promised[j].attempts) >= LadderExhausted
          /\ AtLeast(LadderExhausted, promised[j].attempts) >= promised[j].attempts
      BY <3>1, AtLeastIs
    <3>4. attempts[j] \in Nat
      BY <1>3
    <3> QED BY <3>1, <3>2, <3>3, <3>4
  <2> QED BY <1>1, <1>2, <2>1 DEF IInv, Licensed, TypeOK
<1>11. Reviewing'
  BY <1>1 DEF IInv, Reviewing, TypeOK
<1>12. Affordable'
  <2>1. /\ spent < TopCap /\ spent \in Nat /\ TopCap \in Nat
    <3>1. answer[j].dollars \in {0, MoreDollars} /\ spent \in Nat
      BY <1>2 DEF IInv, Granting, TypeOK
    <3>2. spent < Cap(j) /\ Cap(j) \in {MaxDollars, MoreDollars}
      BY <1>1, <3>1 DEF Exhausted, Cap
    <3>3. /\ AtLeast(MaxDollars, MoreDollars) \in Nat
          /\ AtLeast(MaxDollars, MoreDollars) >= MaxDollars
          /\ AtLeast(MaxDollars, MoreDollars) >= MoreDollars
      BY AtLeastIs
    <3>4. TopCap \in Nat /\ TopCap >= AtLeast(MaxDollars, MoreDollars)
      BY <3>3, AtLeastIs DEF TopCap
    <3> QED BY <3>1, <3>2, <3>3, <3>4
  <2>2. Cardinality(Busy') <= Cardinality(Workers)
        /\ Cardinality(Busy') \in Nat /\ Cardinality(Workers) \in Nat
    <3>1. IsFiniteSet(Workers) /\ Busy' \subseteq Workers
      BY DEF Busy
    <3> QED BY <3>1, FS_Subset, FS_CardinalityType
  <2>3. Cardinality(Busy') <= Cardinality(Workers) + Cardinality(Reviewed)
    BY <2>2, ReviewsCount
  <2>4. /\ SessionCost * Cardinality(Busy') \in Nat
        /\ SessionCost * (Cardinality(Workers) + Cardinality(Reviewed)) \in Nat
        /\ SessionCost * Cardinality(Busy') <= SessionCost * (Cardinality(Workers) + Cardinality(Reviewed))
    BY <2>2, <2>3, ReviewsCount, ProductRises
  <2> HIDE DEF j
  <2>5. spent' + SessionCost * Cardinality(Busy') <= Allowed
    BY <1>1, <2>1, <2>4 DEF Allowed
  <2>6. Allowed' = Allowed
    BY <1>1 DEF Allowed, TopCap, Reviewed
  <2> QED BY <2>5, <2>6 DEF Affordable
<1> QED BY <1>6, <1>7, <1>9, <1>10, <1>11, <1>12 DEF IInv

\* An answer is remembered before it is used.
LEMMA AnswerSafe ==
  ASSUME IInv, NEW j \in Jobs, Answer(j)
  PROVE  IInv'
<1> USE LadderAssumption
<1>1. PICK g \in {Nothing, Offer(gate[j])} :
        /\ answer' = [answer EXCEPT ![j] = g]
        /\ promised' = [promised EXCEPT ![j] = [attempts |-> AtLeast(@.attempts, g.attempts),
                                                dollars |-> AtLeast(@.dollars, g.dollars)]]
  BY DEF Answer
<1>2. /\ st[j] = "awaiting_human" /\ st' = [st EXCEPT ![j] = "ready"]
      /\ UNCHANGED <<attempts, gate, doing, at, spent, effort, wasted, reviews, faults>>
  BY DEF Answer
<1>3. g \in [attempts : {0, MoreAttempts}, dollars : {0, MoreDollars}]
  BY <1>1 DEF Nothing, Offer
<1>4. /\ g \in [attempts : Nat, dollars : Nat] /\ g.attempts \in Nat /\ g.dollars \in Nat
  BY <1>3
<1>5. promised[j].attempts \in Nat /\ promised[j].dollars \in Nat
  BY DEF IInv, TypeOK
<1> DEFINE a == AtLeast(promised[j].attempts, g.attempts)
           d == AtLeast(promised[j].dollars, g.dollars)
<1>6. a \in Nat /\ a >= promised[j].attempts /\ a >= g.attempts /\ d \in Nat
  BY <1>4, <1>5, AtLeastIs
<1>7. promised' = [promised EXCEPT ![j] = [attempts |-> a, dollars |-> d]]
  BY <1>1
<1> HIDE DEF a, d
<1>8. \A w \in Workers : doing[w] # j
  BY <1>2 DEF IInv, TypeOK
<1>9. TypeOK'
  BY <1>1, <1>2, <1>4, <1>6, <1>7, <1>8 DEF IInv, TypeOK
<1>10. Granting'
  <2> SUFFICES ASSUME NEW k \in Jobs
               PROVE  /\ answer'[k] \in [attempts : {0, MoreAttempts}, dollars : {0, MoreDollars}]
                      /\ answer'[k].attempts <= promised'[k].attempts
    BY DEF Granting
  <2>1. CASE k = j
    <3>1. answer'[k] = g /\ promised'[k].attempts = a
      BY <1>1, <1>7, <2>1 DEF IInv, TypeOK
    <3> QED BY <1>3, <1>6, <3>1
  <2>2. CASE k # j
    BY <1>1, <1>7, <2>2 DEF IInv, TypeOK, Granting
  <2> QED BY <2>1, <2>2
<1>11. \A k \in Jobs : Counted(k)' = Counted(k)
  BY <1>2 DEF Counted, IInv, TypeOK
<1>12. Paying'
  BY <1>2, <1>11 DEF IInv, Paying
<1>13. Licensed'
  BY <1>2, <1>7, <1>8 DEF IInv, Licensed, TypeOK
<1>14. WasteBounded'
  <2> SUFFICES ASSUME NEW k \in Jobs
               PROVE  wasted[k] <= AtLeast(LadderExhausted, promised'[k].attempts)
    BY <1>2 DEF WasteBounded
  <2>1. /\ wasted[k] <= AtLeast(LadderExhausted, promised[k].attempts)
        /\ wasted[k] \in Nat /\ promised[k].attempts \in Nat
    BY DEF IInv, WasteBounded, TypeOK
  <2>2. promised'[k].attempts \in Nat /\ promised'[k].attempts >= promised[k].attempts
    BY <1>6, <1>7, <2>1 DEF IInv, TypeOK
  <2>3. LadderExhausted \in Nat
    BY DEF LadderExhausted, BuildLadder
  <2> QED BY <2>1, <2>2, <2>3 DEF AtLeast
<1>15. Retrying' /\ Reviewing'
  <2>1. \A k \in Jobs : st'[k] = IF k = j THEN "ready" ELSE st[k]
    BY <1>2 DEF IInv, TypeOK
  <2> QED BY <1>2, <2>1 DEF IInv, Retrying, Reviewing
<1>16. Affordable'
  BY <1>2 DEF IInv, Affordable, Busy, Allowed, TopCap, Reviewed
<1> QED BY <1>9, <1>10, <1>12, <1>13, <1>14, <1>15, <1>16 DEF IInv

-----------------------------------------------------------------------------
(* Theorems                                                                *)

\* Nothing runs, nothing is owed.
LEMMA InvInit == Init => IInv
<1> SUFFICES ASSUME Init PROVE IInv
  OBVIOUS
<1> USE LadderAssumption
<1>1. TypeOK
  BY DEF Init, TypeOK, Nothing, HIGH, Gates
<1>2. Granting
  BY DEF Init, Granting, Nothing
<1>3. Paying
  <2>1. \A j \in Jobs : Counted(j) = 1 /\ wasted[j] = 0 /\ effort[j] = 0
    BY DEF Init, Counted
  <2>2. Rung(1) \in Nat
    BY RungRises DEF HIGH
  <2> QED BY <2>1, <2>2 DEF Paying
<1>4. Licensed
  BY DEF Init, Licensed
<1>5. WasteBounded
  BY AtLeastIs DEF Init, WasteBounded, Nothing, LadderExhausted, BuildLadder
<1>6. Retrying /\ Reviewing
  BY JobKinds DEF Init, Retrying, Reviewing
<1>7. Affordable
  <2>1. Busy = {} /\ spent = Before
    BY DEF Init, Busy, Paid
  <2>2. Cardinality(Busy) = 0
    BY <2>1, FS_EmptySet
  <2>3. SessionCost * 0 = 0
    OBVIOUS
  <2>4. Before <= TopCap /\ TopCap \in Nat
    <3>1. AtLeast(MaxDollars, MoreDollars) \in Nat
      BY AtLeastIs
    <3> QED BY <3>1, AtLeastIs DEF TopCap
  <2>5. SessionCost * (Cardinality(Workers) + Cardinality(Reviewed)) \in Nat
    BY BusyCounts, ReviewsCount, ProductRises
  <2> QED BY <2>1, <2>2, <2>3, <2>4, <2>5 DEF Affordable, Allowed
<1> QED BY <1>1, <1>2, <1>3, <1>4, <1>5, <1>6, <1>7 DEF IInv

\* No step disturbs the invariant, and none lowers an effort.
LEMMA StepKeeps ==
  ASSUME IInv, [Next]_vars
  PROVE  IInv' /\ \A j \in Jobs : effort'[j] >= effort[j]
<1>1. \A j \in Jobs : effort[j] \in Nat
  BY DEF IInv, TypeOK, HIGH
<1>2. ASSUME NEW w \in Workers, NEW j \in Jobs, Claim(w, j)
      PROVE  IInv' /\ effort' = effort
  BY <1>2, ClaimSafe DEF Claim
<1>3. ASSUME NEW w \in Workers, ParkExhausted(w) \/ ParkBroke(w) \/ ParkRepairs(w)
      PROVE  IInv' /\ effort' = effort
  <2>1. PICK kind \in Gates : at[w] = "checking" /\ ParkFor(w, kind)
    BY <1>3 DEF ParkExhausted, ParkBroke, ParkRepairs, At, Gates
  <2> QED BY <2>1, ParkSafe DEF ParkFor
<1>4. ASSUME NEW w \in Workers, Complete(w) \/ RejectCapacity(w) \/ Fail(w)
                          \/ Postpone(w) \/ Approve(w) \/ Disapprove(w) \/ Crash(w)
      PROVE  IInv' /\ effort' = effort
  BY <1>4, EndSafe DEF Complete, RejectCapacity, Fail, Postpone, Approve, Disapprove, Crash
<1>5. ASSUME NEW j \in Jobs, Answer(j)
      PROVE  IInv' /\ effort' = effort
  BY <1>5, AnswerSafe DEF Answer
<1>6. ASSUME NEW w \in Workers, Start(w)
      PROVE  IInv' /\ \A j \in Jobs : effort'[j] >= effort[j]
  BY <1>6, StartSafe
<1>7. ASSUME NEW w \in Workers, Finish(w) \/ Review(w)
      PROVE  IInv' /\ effort' = effort
  BY <1>7, FinishSafe, ReviewSafe DEF Finish, Review
<1>8. CASE UNCHANGED vars
  <2>1. IInv'
    BY <1>8 DEF vars, rows, gates, IInv, TypeOK, Granting, Paying, Counted, Licensed,
                WasteBounded, Retrying, Reviewing, Affordable, Busy, Allowed, TopCap, Reviewed
  <2> QED BY <1>1, <1>8, <2>1 DEF vars
<1> QED BY <1>1, <1>2, <1>3, <1>4, <1>5, <1>6, <1>7, <1>8 DEF Next, Step

\* The inductive invariant of the ladder and the budget.
THEOREM Invariance == Spec => []IInv
<1>1. IInv /\ [Next]_vars => IInv'
  BY StepKeeps
<1> QED BY <1>1, InvInit, PTL DEF Spec

\* Every variable keeps its type, and a worker is in a handler exactly while a
\* leased job is its own.
THEOREM TypeCorrect == Spec => []TypeOK
<1>1. IInv => TypeOK
  BY DEF IInv
<1> QED BY <1>1, Invariance, PTL

\* Whatever the caps, the costs and the interleaving of workers that do not see
\* each other's sessions, the cycle spends at most one session of every worker and
\* the reviewer's beyond the largest cap anybody set, and a verify has no more of the
\* reviewer's than max_attempts and the crashes.
THEOREM SpendIsBounded == Spec => []SpendBounded
<1>1. IInv => SpendBounded
  <2> SUFFICES ASSUME IInv PROVE SpendBounded
    OBVIOUS
  <2>1. spent <= Allowed
    BY AllowedIs DEF IInv, Affordable, TypeOK
  <2>2. ASSUME NEW t \in Tasks PROVE reviews[t] <= MaxAttempts + faults
    <3>1. /\ reviews[t] <= attempts[Verify(t)] /\ attempts[Verify(t)] <= MaxAttempts + faults
          /\ reviews[t] \in Nat /\ attempts[Verify(t)] \in Nat /\ faults \in Nat
      BY JobKinds DEF IInv, TypeOK, Reviewing, Retrying
    <3> QED BY <3>1, LadderAssumption
  <2> QED BY <2>1, <2>2 DEF SpendBounded, Allowed
<1> QED BY <1>1, Invariance, PTL

\* So BUILD's spend has an end: beyond the largest cap there is a session for every
\* worker and one for every attempt that the verify jobs of the cycle may be given.
THEOREM SpendEnds ==
  Spec => [](spent <= TopCap + SessionCost * (Cardinality(Workers)
                                              + Cardinality(Tasks) * (MaxAttempts + MaxFaults)))
<1>1. IInv => spent <= TopCap + SessionCost * (Cardinality(Workers)
                                               + Cardinality(Tasks) * (MaxAttempts + MaxFaults))
  <2> SUFFICES ASSUME IInv
      PROVE  spent <= TopCap + SessionCost * (Cardinality(Workers)
                                              + Cardinality(Tasks) * (MaxAttempts + MaxFaults))
    OBVIOUS
  <2> DEFINE all == Cardinality(Tasks) * (MaxAttempts + MaxFaults)
             some == Cardinality(Reviewed)
             n == Cardinality(Workers)
  <2>1. spent <= TopCap + SessionCost * (n + some) /\ spent \in Nat /\ TopCap \in Nat
    BY AllowedIs DEF IInv, Affordable, Allowed, TypeOK
  <2>2. all \in Nat /\ some \in Nat /\ n \in Nat /\ some <= all /\ SessionCost \in Nat
    BY LadderAssumption, ReviewsCount, BusyCounts, ProductRises
  <2> HIDE DEF all, some, n
  <2>3. /\ SessionCost * (n + some) <= SessionCost * (n + all)
        /\ SessionCost * (n + some) \in Nat /\ SessionCost * (n + all) \in Nat
    BY <2>2, ProductRises
  <2>4. spent <= TopCap + SessionCost * (n + all)
    BY <2>1, <2>3
  <2> QED BY <2>4 DEF n, all
<1> QED BY <1>1, Invariance, PTL

\* A job never has more sessions that did not complete than the ladder has rungs, or
\* than a human granted: each is paid for with an attempt that no refund, park or
\* crash gives back.
THEOREM WasteIsBounded == Spec => []WasteBounded
<1>1. IInv => WasteBounded
  BY DEF IInv
<1> QED BY <1>1, Invariance, PTL

\* A job's next session never runs at a lower effort than its last, through refunds,
\* parks, crashes and grants: the rung is that of an attempt at least as high.
THEOREM EffortClimbs == Spec => EffortNeverDrops
<1>1. IInv /\ [Next]_vars => [\A j \in Jobs : effort'[j] >= effort[j]]_vars
  BY StepKeeps
<1> QED BY <1>1, Invariance, PTL DEF Spec, EffortNeverDrops
=============================================================================
