---------------------------- MODULE JobQueueProofs ----------------------------
(***************************************************************************)
(* The safety of JobQueue for every set of jobs and workers, every         *)
(* dependency relation and every value of the bounds.  The invariant is    *)
(* proved action by action; the refinement of TaskLease uses it and, in    *)
(* addition, that no two workers share an owner string.                    *)
(***************************************************************************)
EXTENDS JobQueue, TLAPS

\* A worker has a job record exactly while it is inside run_once's try block
\* or the settlement.
WorkOK ==
  \A w \in Workers :
    /\ Busy(w) => work[w] \in Jobs
    /\ ~Busy(w) => work[w] = NoJob

\* A row that is not leased and not settled has an attempt left to give.
AttemptsLeft ==
  \A j \in Jobs :
    /\ state[j] \in {"absent", "ready", "awaiting_human"} => attempts[j] < MaxAttempts + losses[j]
    /\ attempts[j] <= MaxAttempts + losses[j]
    /\ state[j] = "failed" => attempts[j] >= MaxAttempts

\* By the time a worker parks a row, a gate of the row exists.
GateBeforePark ==
  /\ \A j \in Jobs : state[j] = "awaiting_human" => raised[j] > 0
  /\ \A w \in Workers : pc[w] = "parking" => raised[work[w]] > 0

IInv ==
  /\ TypeOK
  /\ WorkOK
  /\ LeaseConsistent
  /\ DependenciesFirst
  /\ AttemptAccounting
  /\ AttemptsLeft
  /\ GateBeforePark

\* Replacing one value of a function keeps its range.
LEMMA UpdateTyped ==
  ASSUME NEW S, NEW T, NEW f \in [S -> T], NEW x, NEW y \in T
  PROVE  [f EXCEPT ![x] = y] \in [S -> T]
OBVIOUS

\* Counting one entry of a table of counters up keeps it a table of counters.
LEMMA IncrementTyped ==
  ASSUME NEW S, NEW f \in [S -> Nat], NEW x
  PROVE  [f EXCEPT ![x] = @ + 1] \in [S -> Nat]
<1>1. CASE x \in S
  <2>1. f[x] + 1 \in Nat  BY <1>1
  <2> QED BY <2>1, UpdateTyped
<1>2. CASE x \notin S
  <2>1. [f EXCEPT ![x] = @ + 1] = f  BY <1>2
  <2> QED BY <2>1
<1> QED BY <1>1, <1>2

\* claim leases a ready row to the claimer and charges an attempt.
LEMMA ClaimKeeps ==
  ASSUME IInv, NEW w \in Workers, NEW j \in Jobs, Claim(w, j)
  PROVE  IInv'
<1> USE QueueAssumption DEF IInv, Claim, Claimable, DependenciesMet, vars, row, gates, loop, history, TypeOK, States, Outcomes, Handling, Settling, Busy
<1>1. TypeOK'
  <2>1. attempts' \in [Jobs -> Nat]  OBVIOUS
  <2>2. owner' \in [Jobs -> Owners \cup {NoOwner}]  OBVIOUS
  <2>3. claimant' \in [Jobs -> Workers \cup {NoWorker}] /\ work' \in [Workers -> Jobs \cup {NoJob}]  OBVIOUS
  <2> QED BY <2>1, <2>2, <2>3
<1>2. WorkOK'
  BY DEF WorkOK
<1>3. LeaseConsistent'
  <2>1. OwnerOf[w] \in Owners  BY QueueAssumption
  <2>2. OwnerOf[w] # NoOwner  BY <2>1, QueueAssumption
  <2> QED BY <2>1, <2>2 DEF LeaseConsistent
<1>4. DependenciesFirst'
  BY DEF DependenciesFirst
<1>5. AttemptAccounting'
  BY DEF AttemptAccounting
<1>6. AttemptsLeft'
  BY DEF AttemptsLeft
<1>7. GateBeforePark'
  BY DEF GateBeforePark
<1> QED BY <1>1, <1>2, <1>3, <1>4, <1>5, <1>6, <1>7

\* A claim that finds nothing changes no row.
LEMMA ClaimNoneKeeps ==
  ASSUME IInv, NEW w \in Workers, ClaimNone(w)
  PROVE  IInv'
<1> USE QueueAssumption DEF IInv, ClaimNone, vars, row, gates, loop, history, TypeOK, States, Outcomes, Handling, Settling, Busy
<1>1. TypeOK'
  BY DEF TypeOK
<1>2. WorkOK'
  BY DEF WorkOK
<1>3. LeaseConsistent'
  BY DEF LeaseConsistent
<1>4. DependenciesFirst'
  BY DEF DependenciesFirst
<1>5. AttemptAccounting'
  BY DEF AttemptAccounting
<1>6. AttemptsLeft'
  BY DEF AttemptsLeft
<1>7. GateBeforePark'
  BY DEF GateBeforePark
<1> QED BY <1>1, <1>2, <1>3, <1>4, <1>5, <1>6, <1>7

\* reap readies expired leases; the attempts stay charged.
LEMMA ReapKeeps ==
  ASSUME IInv, NEW w \in Workers, Reap(w)
  PROVE  IInv'
<1> USE QueueAssumption DEF IInv, Reap, TakeBack, vars, row, gates, loop, history, TypeOK, States, Outcomes, Handling, Settling, Busy
<1>1. TypeOK'
  BY DEF TypeOK
<1>2. WorkOK'
  BY DEF WorkOK
<1>3. LeaseConsistent'
  BY DEF LeaseConsistent
<1>4. DependenciesFirst'
  BY DEF DependenciesFirst
<1>5. AttemptAccounting'
  BY DEF AttemptAccounting
<1>6. AttemptsLeft'
  BY DEF AttemptsLeft
<1>7. GateBeforePark'
  BY DEF GateBeforePark
<1> QED BY <1>1, <1>2, <1>3, <1>4, <1>5, <1>6, <1>7

\* The first heartbeat touches only the expiry of a row the worker owns.
LEMMA ExtendKeeps ==
  ASSUME IInv, NEW w \in Workers, Extend(w)
  PROVE  IInv'
<1> USE QueueAssumption DEF IInv, Extend, Extended, Owns, vars, row, gates, loop, history, TypeOK, States, Outcomes, Handling, Settling, Busy
<1>1. TypeOK'
  BY DEF TypeOK
<1>2. WorkOK'
  BY DEF WorkOK
<1>3. LeaseConsistent'
  BY DEF LeaseConsistent
<1>4. DependenciesFirst'
  BY DEF DependenciesFirst
<1>5. AttemptAccounting'
  BY DEF AttemptAccounting
<1>6. AttemptsLeft'
  BY DEF AttemptsLeft
<1>7. GateBeforePark'
  BY DEF GateBeforePark
<1> QED BY <1>1, <1>2, <1>3, <1>4, <1>5, <1>6, <1>7

\* A heartbeat touches only the expiry of a row the worker owns.
LEMMA HeartbeatKeeps ==
  ASSUME IInv, NEW w \in Workers, Heartbeat(w)
  PROVE  IInv'
<1> USE QueueAssumption DEF IInv, Heartbeat, Extended, Owns, vars, row, gates, loop, history, TypeOK, States, Outcomes, Handling, Settling, Busy
<1>1. TypeOK'
  BY DEF TypeOK
<1>2. WorkOK'
  BY DEF WorkOK
<1>3. LeaseConsistent'
  BY DEF LeaseConsistent
<1>4. DependenciesFirst'
  BY DEF DependenciesFirst
<1>5. AttemptAccounting'
  BY DEF AttemptAccounting
<1>6. AttemptsLeft'
  BY DEF AttemptsLeft
<1>7. GateBeforePark'
  BY DEF GateBeforePark
<1> QED BY <1>1, <1>2, <1>3, <1>4, <1>5, <1>6, <1>7

\* A handler's decision changes no row.
LEMMA HandleKeeps ==
  ASSUME IInv, NEW w \in Workers, NEW o \in Outcomes, Handle(w, o)
  PROVE  IInv'
<1> USE QueueAssumption DEF IInv, Handle, Outcomes, vars, row, gates, loop, history, TypeOK, States, Outcomes, Handling, Settling, Busy
<1>1. TypeOK'
  BY DEF TypeOK
<1>2. WorkOK'
  BY DEF WorkOK
<1>3. LeaseConsistent'
  BY DEF LeaseConsistent
<1>4. DependenciesFirst'
  BY DEF DependenciesFirst
<1>5. AttemptAccounting'
  BY DEF AttemptAccounting
<1>6. AttemptsLeft'
  BY DEF AttemptsLeft
<1>7. GateBeforePark'
  BY DEF GateBeforePark
<1> QED BY <1>1, <1>2, <1>3, <1>4, <1>5, <1>6, <1>7

\* A handler's own gate adds a gate row.
LEMMA RaiseOwnKeeps ==
  ASSUME IInv, NEW w \in Workers, RaiseOwn(w)
  PROVE  IInv'
<1> USE QueueAssumption DEF IInv, RaiseOwn, Inserted, vars, row, gates, loop, history, TypeOK, States, Outcomes, Handling, Settling, Busy
<1>1. TypeOK'
  <2>1. raised' \in [Jobs -> Nat]  BY IncrementTyped
  <2> QED BY <2>1
<1>2. WorkOK'
  BY DEF WorkOK
<1>3. LeaseConsistent'
  BY DEF LeaseConsistent
<1>4. DependenciesFirst'
  BY DEF DependenciesFirst
<1>5. AttemptAccounting'
  BY DEF AttemptAccounting
<1>6. AttemptsLeft'
  BY DEF AttemptsLeft
<1>7. GateBeforePark'
  BY DEF GateBeforePark
<1> QED BY <1>1, <1>2, <1>3, <1>4, <1>5, <1>6, <1>7

\* ack settles an owned row, or nothing.
LEMMA AckKeeps ==
  ASSUME IInv, NEW w \in Workers, Ack(w)
  PROVE  IInv'
<1> USE QueueAssumption DEF IInv, Ack, Owns, Release, Fenced, Finished, vars, row, gates, loop, history, TypeOK, States, Outcomes, Handling, Settling, Busy
<1>1. TypeOK'
  <2>1. work[w] \in Jobs  BY DEF WorkOK
  <2>2. attempts' \in [Jobs -> Nat]  BY <2>1
  <2>3. state' \in [Jobs -> States] /\ owner' \in [Jobs -> Owners \cup {NoOwner}]  BY <2>1
  <2>4. lease' \in [Jobs -> {"none", "live", "expired"}]  BY UpdateTyped
  <2> QED BY <2>1, <2>2, <2>3, <2>4
<1>2. WorkOK'
  BY DEF WorkOK
<1>3. LeaseConsistent'
  BY DEF LeaseConsistent
<1>4. DependenciesFirst'
  BY DEF DependenciesFirst
<1>5. AttemptAccounting'
  BY DEF AttemptAccounting
<1>6. AttemptsLeft'
  BY DEF AttemptsLeft
<1>7. GateBeforePark'
  BY DEF GateBeforePark
<1> QED BY <1>1, <1>2, <1>3, <1>4, <1>5, <1>6, <1>7

\* nack fails or readies an owned row, or nothing.
LEMMA NackKeeps ==
  ASSUME IInv, NEW w \in Workers, Nack(w)
  PROVE  IInv'
<1> USE QueueAssumption DEF IInv, Nack, Owns, Release, Fenced, Finished, Exhausted, vars, row, gates, loop, history, TypeOK, States, Outcomes, Handling, Settling, Busy
<1>1. TypeOK'
  <2>1. work[w] \in Jobs  BY DEF WorkOK
  <2>2. attempts' \in [Jobs -> Nat] /\ nacks' \in [Jobs -> Nat]  BY <2>1
  <2>3. state' \in [Jobs -> States] /\ owner' \in [Jobs -> Owners \cup {NoOwner}]  BY <2>1
  <2>4. lease' \in [Jobs -> {"none", "live", "expired"}]  BY UpdateTyped
  <2>5. due' \in [Jobs -> BOOLEAN]  BY UpdateTyped
  <2> QED BY <2>1, <2>2, <2>3, <2>4, <2>5
<1>2. WorkOK'
  BY DEF WorkOK
<1>3. LeaseConsistent'
  BY DEF LeaseConsistent
<1>4. DependenciesFirst'
  BY DEF DependenciesFirst
<1>5. AttemptAccounting'
  BY DEF AttemptAccounting
<1>6. AttemptsLeft'
  BY DEF AttemptsLeft
<1>7. GateBeforePark'
  BY DEF GateBeforePark
<1> QED BY <1>1, <1>2, <1>3, <1>4, <1>5, <1>6, <1>7

\* defer readies an owned row and refunds the attempt, or nothing.
LEMMA DeferKeeps ==
  ASSUME IInv, NEW w \in Workers, Defer(w)
  PROVE  IInv'
<1> USE QueueAssumption DEF IInv, Defer, Owns, Release, Fenced, Finished, Refunded, vars, row, gates, loop, history, TypeOK, States, Outcomes, Handling, Settling, Busy
<1>1. TypeOK'
  <2>1. work[w] \in Jobs  BY DEF WorkOK
  <2>2. attempts' \in [Jobs -> Nat] /\ nacks' \in [Jobs -> Nat]  BY <2>1
  <2>3. state' \in [Jobs -> States] /\ owner' \in [Jobs -> Owners \cup {NoOwner}]  BY <2>1
  <2>4. lease' \in [Jobs -> {"none", "live", "expired"}]  BY UpdateTyped
  <2>5. due' \in [Jobs -> BOOLEAN]  BY UpdateTyped
  <2> QED BY <2>1, <2>2, <2>3, <2>4, <2>5
<1>2. WorkOK'
  BY DEF WorkOK
<1>3. LeaseConsistent'
  BY DEF LeaseConsistent
<1>4. DependenciesFirst'
  BY DEF DependenciesFirst
<1>5. AttemptAccounting'
  BY DEF AttemptAccounting
<1>6. AttemptsLeft'
  BY DEF AttemptsLeft
<1>7. GateBeforePark'
  BY DEF GateBeforePark
<1> QED BY <1>1, <1>2, <1>3, <1>4, <1>5, <1>6, <1>7

\* _settle skips raising only if an open gate exists.
LEMMA CheckGateKeeps ==
  ASSUME IInv, NEW w \in Workers, CheckGate(w)
  PROVE  IInv'
<1> USE QueueAssumption DEF IInv, CheckGate, NeedsGate, LatestGate, vars, row, gates, loop, history, TypeOK, States, Outcomes, Handling, Settling, Busy
<1>1. TypeOK'
  BY DEF TypeOK
<1>2. WorkOK'
  BY DEF WorkOK
<1>3. LeaseConsistent'
  BY DEF LeaseConsistent
<1>4. DependenciesFirst'
  BY DEF DependenciesFirst
<1>5. AttemptAccounting'
  BY DEF AttemptAccounting
<1>6. AttemptsLeft'
  BY DEF AttemptsLeft
<1>7. GateBeforePark'
  <2>1. work[w] \in Jobs  BY DEF WorkOK
  <2>2. pc'[w] = "parking" => raised[work[w]] > 0  BY <2>1
  <2> QED BY <2>2 DEF GateBeforePark
<1> QED BY <1>1, <1>2, <1>3, <1>4, <1>5, <1>6, <1>7

\* _settle raises a gate before it parks.
LEMMA RaiseGateKeeps ==
  ASSUME IInv, NEW w \in Workers, RaiseGate(w)
  PROVE  IInv'
<1> USE QueueAssumption DEF IInv, RaiseGate, Inserted, vars, row, gates, loop, history, TypeOK, States, Outcomes, Handling, Settling, Busy
<1>1. TypeOK'
  <2>1. raised' \in [Jobs -> Nat]  BY IncrementTyped
  <2> QED BY <2>1
<1>2. WorkOK'
  BY DEF WorkOK
<1>3. LeaseConsistent'
  BY DEF LeaseConsistent
<1>4. DependenciesFirst'
  BY DEF DependenciesFirst
<1>5. AttemptAccounting'
  BY DEF AttemptAccounting
<1>6. AttemptsLeft'
  BY DEF AttemptsLeft
<1>7. GateBeforePark'
  <2>1. work[w] \in Jobs  BY DEF WorkOK
  <2>2. \A j \in Jobs : raised'[j] >= raised[j]  BY <2>1
  <2>3. raised'[work[w]] > 0  BY <2>1
  <2>4. \A v \in Workers : pc[v] = "parking" => work[v] \in Jobs  BY DEF WorkOK
  <2> QED BY <2>2, <2>3, <2>4 DEF GateBeforePark
<1> QED BY <1>1, <1>2, <1>3, <1>4, <1>5, <1>6, <1>7

\* park parks an owned row, whose gate exists by now.
LEMMA ParkKeeps ==
  ASSUME IInv, NEW w \in Workers, Park(w)
  PROVE  IInv'
<1> USE QueueAssumption DEF IInv, Park, Owns, Release, Fenced, Finished, Refunded, vars, row, gates, loop, history, TypeOK, States, Outcomes, Handling, Settling, Busy
<1>1. TypeOK'
  BY DEF TypeOK
<1>2. WorkOK'
  BY DEF WorkOK
<1>3. LeaseConsistent'
  BY DEF LeaseConsistent
<1>4. DependenciesFirst'
  BY DEF DependenciesFirst
<1>5. AttemptAccounting'
  BY DEF AttemptAccounting
<1>6. AttemptsLeft'
  BY DEF AttemptsLeft
<1>7. GateBeforePark'
  BY DEF GateBeforePark
<1> QED BY <1>1, <1>2, <1>3, <1>4, <1>5, <1>6, <1>7

\* A crash loses the worker's record and no row.
LEMMA CrashKeeps ==
  ASSUME IInv, NEW w \in Workers, Crash(w)
  PROVE  IInv'
<1> USE QueueAssumption DEF IInv, Crash, Finished, vars, row, gates, loop, history, TypeOK, States, Outcomes, Handling, Settling, Busy
<1>1. TypeOK'
  BY DEF TypeOK
<1>2. WorkOK'
  BY DEF WorkOK
<1>3. LeaseConsistent'
  BY DEF LeaseConsistent
<1>4. DependenciesFirst'
  BY DEF DependenciesFirst
<1>5. AttemptAccounting'
  BY DEF AttemptAccounting
<1>6. AttemptsLeft'
  BY DEF AttemptsLeft
<1>7. GateBeforePark'
  BY DEF GateBeforePark
<1> QED BY <1>1, <1>2, <1>3, <1>4, <1>5, <1>6, <1>7

\* enqueue inserts a row or leaves the existing one alone.
LEMMA EnqueueKeeps ==
  ASSUME IInv, NEW j \in Jobs, Enqueue(j)
  PROVE  IInv'
<1> USE QueueAssumption DEF IInv, Enqueue, vars, row, gates, loop, history, TypeOK, States, Outcomes, Handling, Settling, Busy
<1>1. TypeOK'
  BY DEF TypeOK
<1>2. WorkOK'
  BY DEF WorkOK
<1>3. LeaseConsistent'
  BY DEF LeaseConsistent
<1>4. DependenciesFirst'
  BY DEF DependenciesFirst
<1>5. AttemptAccounting'
  BY DEF AttemptAccounting
<1>6. AttemptsLeft'
  BY DEF AttemptsLeft
<1>7. GateBeforePark'
  BY DEF GateBeforePark
<1> QED BY <1>1, <1>2, <1>3, <1>4, <1>5, <1>6, <1>7

\* run_after passing changes no row.
LEMMA ComesDueKeeps ==
  ASSUME IInv, NEW j \in Jobs, ComesDue(j)
  PROVE  IInv'
<1> USE QueueAssumption DEF IInv, ComesDue, vars, row, gates, loop, history, TypeOK, States, Outcomes, Handling, Settling, Busy
<1>1. TypeOK'
  BY DEF TypeOK
<1>2. WorkOK'
  BY DEF WorkOK
<1>3. LeaseConsistent'
  BY DEF LeaseConsistent
<1>4. DependenciesFirst'
  BY DEF DependenciesFirst
<1>5. AttemptAccounting'
  BY DEF AttemptAccounting
<1>6. AttemptsLeft'
  BY DEF AttemptsLeft
<1>7. GateBeforePark'
  BY DEF GateBeforePark
<1> QED BY <1>1, <1>2, <1>3, <1>4, <1>5, <1>6, <1>7

\* An expiring lease stays consistent until it is reaped.
LEMMA LeaseLapsesKeeps ==
  ASSUME IInv, NEW j \in Jobs, LeaseLapses(j)
  PROVE  IInv'
<1> USE QueueAssumption DEF IInv, LeaseLapses, vars, row, gates, loop, history, TypeOK, States, Outcomes, Handling, Settling, Busy
<1>1. TypeOK'
  BY DEF TypeOK
<1>2. WorkOK'
  BY DEF WorkOK
<1>3. LeaseConsistent'
  BY DEF LeaseConsistent
<1>4. DependenciesFirst'
  BY DEF DependenciesFirst
<1>5. AttemptAccounting'
  BY DEF AttemptAccounting
<1>6. AttemptsLeft'
  BY DEF AttemptsLeft
<1>7. GateBeforePark'
  BY DEF GateBeforePark
<1> QED BY <1>1, <1>2, <1>3, <1>4, <1>5, <1>6, <1>7

\* A stalled heartbeat lets a lease expire.
LEMMA LeaseStallsKeeps ==
  ASSUME IInv, NEW j \in Jobs, LeaseStalls(j)
  PROVE  IInv'
<1> USE QueueAssumption DEF IInv, LeaseStalls, vars, row, gates, loop, history, TypeOK, States, Outcomes, Handling, Settling, Busy
<1>1. TypeOK'
  BY DEF TypeOK
<1>2. WorkOK'
  BY DEF WorkOK
<1>3. LeaseConsistent'
  BY DEF LeaseConsistent
<1>4. DependenciesFirst'
  BY DEF DependenciesFirst
<1>5. AttemptAccounting'
  BY DEF AttemptAccounting
<1>6. AttemptsLeft'
  BY DEF AttemptsLeft
<1>7. GateBeforePark'
  BY DEF GateBeforePark
<1> QED BY <1>1, <1>2, <1>3, <1>4, <1>5, <1>6, <1>7

\* answer readies a parked row.
LEMMA AnswerKeeps ==
  ASSUME IInv, NEW j \in Jobs, Answer(j)
  PROVE  IInv'
<1> USE QueueAssumption DEF IInv, Answer, Answered, vars, row, gates, loop, history, TypeOK, States, Outcomes, Handling, Settling, Busy
<1>1. TypeOK'
  BY DEF TypeOK
<1>2. WorkOK'
  BY DEF WorkOK
<1>3. LeaseConsistent'
  BY DEF LeaseConsistent
<1>4. DependenciesFirst'
  BY DEF DependenciesFirst
<1>5. AttemptAccounting'
  BY DEF AttemptAccounting
<1>6. AttemptsLeft'
  BY DEF AttemptsLeft
<1>7. GateBeforePark'
  BY DEF GateBeforePark
<1> QED BY <1>1, <1>2, <1>3, <1>4, <1>5, <1>6, <1>7

\* A repeated answer readies a parked row.
LEMMA AnswerAgainKeeps ==
  ASSUME IInv, NEW j \in Jobs, AnswerAgain(j)
  PROVE  IInv'
<1> USE QueueAssumption DEF IInv, AnswerAgain, Answered, vars, row, gates, loop, history, TypeOK, States, Outcomes, Handling, Settling, Busy
<1>1. TypeOK'
  BY DEF TypeOK
<1>2. WorkOK'
  BY DEF WorkOK
<1>3. LeaseConsistent'
  BY DEF LeaseConsistent
<1>4. DependenciesFirst'
  BY DEF DependenciesFirst
<1>5. AttemptAccounting'
  BY DEF AttemptAccounting
<1>6. AttemptsLeft'
  BY DEF AttemptsLeft
<1>7. GateBeforePark'
  BY DEF GateBeforePark
<1> QED BY <1>1, <1>2, <1>3, <1>4, <1>5, <1>6, <1>7

\* recover readies every lease.
LEMMA RecoverKeeps ==
  ASSUME IInv, Recover
  PROVE  IInv'
<1> USE QueueAssumption DEF IInv, Recover, TakeBack, vars, row, gates, loop, history, TypeOK, States, Outcomes, Handling, Settling, Busy
<1>1. TypeOK'
  BY DEF TypeOK
<1>2. WorkOK'
  BY DEF WorkOK
<1>3. LeaseConsistent'
  BY DEF LeaseConsistent
<1>4. DependenciesFirst'
  BY DEF DependenciesFirst
<1>5. AttemptAccounting'
  BY DEF AttemptAccounting
<1>6. AttemptsLeft'
  BY DEF AttemptsLeft
<1>7. GateBeforePark'
  BY DEF GateBeforePark
<1> QED BY <1>1, <1>2, <1>3, <1>4, <1>5, <1>6, <1>7

\* A stuttering step keeps the invariant.
LEMMA StutterKeeps ==
  ASSUME IInv, UNCHANGED vars
  PROVE  IInv'
BY DEF IInv, TypeOK, WorkOK, Busy, LeaseConsistent, DependenciesFirst, AttemptAccounting,
       AttemptsLeft, GateBeforePark, vars, row, gates, loop, history

\* The empty table satisfies the invariant.
LEMMA InitIInv == Init => IInv
<1> SUFFICES ASSUME Init PROVE IInv
  OBVIOUS
<1> USE QueueAssumption DEF Init, States, Outcomes, Handling, Settling, Busy
<1>1. TypeOK  BY DEF TypeOK
<1>2. WorkOK  BY DEF WorkOK
<1>3. LeaseConsistent  BY DEF LeaseConsistent
<1>4. DependenciesFirst  BY DEF DependenciesFirst
<1>5. AttemptAccounting  BY DEF AttemptAccounting
<1>6. AttemptsLeft  BY DEF AttemptsLeft
<1>7. GateBeforePark  BY DEF GateBeforePark
<1> QED BY <1>1, <1>2, <1>3, <1>4, <1>5, <1>6, <1>7 DEF IInv

\* Every step keeps the invariant.
LEMMA NextIInv == IInv /\ [Next]_vars => IInv'
<1> SUFFICES ASSUME IInv, [Next]_vars PROVE IInv'
  OBVIOUS
<1>1. CASE UNCHANGED vars  BY <1>1, StutterKeeps
<1>2. ASSUME NEW w \in Workers, Step(w) PROVE IInv'
  BY <1>2, ClaimKeeps, ClaimNoneKeeps, ReapKeeps, ExtendKeeps, HandleKeeps, RaiseOwnKeeps,
     AckKeeps, NackKeeps, DeferKeeps, CheckGateKeeps, RaiseGateKeeps, ParkKeeps DEF Step
<1>3. ASSUME NEW w \in Workers, Heartbeat(w) \/ Crash(w) PROVE IInv'
  BY <1>3, HeartbeatKeeps, CrashKeeps
<1>4. ASSUME NEW j \in Jobs,
             Enqueue(j) \/ ComesDue(j) \/ LeaseLapses(j) \/ LeaseStalls(j)
               \/ Answer(j) \/ AnswerAgain(j)
      PROVE  IInv'
  BY <1>4, EnqueueKeeps, ComesDueKeeps, LeaseLapsesKeeps, LeaseStallsKeeps, AnswerKeeps,
     AnswerAgainKeeps
<1>5. CASE Recover  BY <1>5, RecoverKeeps
<1> QED BY <1>1, <1>2, <1>3, <1>4, <1>5 DEF Next

(* The inductive invariant holds in every reachable state, for every        *)
(* instance of the queue.                                                  *)
THEOREM Invariance == Spec => []IInv
BY InitIInv, NextIInv, PTL DEF Spec

(* Every variable keeps its type, for every instance.                      *)
THEOREM TypeCorrect == Spec => []TypeOK
<1>1. IInv => TypeOK  BY DEF IInv
<1> QED BY <1>1, Invariance, PTL

(* No statement of the queue is ever rejected by job_lease_consistent, and *)
(* a leased row names its last claimer.                                    *)
THEOREM LeasesConsistent == Spec => []LeaseConsistent
<1>1. IInv => LeaseConsistent  BY DEF IInv
<1> QED BY <1>1, Invariance, PTL

(* No job starts before all the jobs it depends on have succeeded.         *)
THEOREM DependenciesComeFirst == Spec => []DependenciesFirst
<1>1. IInv => DependenciesFirst  BY DEF IInv
<1> QED BY <1>1, Invariance, PTL

(* attempts counts the failures and the lost leases, and nothing else.     *)
THEOREM AttemptsAccounted == Spec => []AttemptAccounting
<1>1. IInv => AttemptAccounting  BY DEF IInv
<1> QED BY <1>1, Invariance, PTL

(* The number of starts is bounded by max_attempts plus the lost leases.   *)
THEOREM RetriesAreBounded == Spec => []RetriesBounded
<1>1. IInv => RetriesBounded
  BY DEF IInv, AttemptsLeft, AttemptAccounting, RetriesBounded, TypeOK
<1> QED BY <1>1, Invariance, PTL

(* A parked job has a gate.                                                *)
THEOREM ParkedJobsHaveGates == Spec => []ParkedHasGate
<1>1. IInv => ParkedHasGate  BY DEF IInv, GateBeforePark, ParkedHasGate
<1> QED BY <1>1, Invariance, PTL

\* No action changes the state or the attempts of a settled row.
LEMMA FinalStep ==
  ASSUME IInv, Next, NEW j \in Jobs, state[j] \in {"succeeded", "failed"}
  PROVE  state'[j] = state[j] /\ attempts'[j] = attempts[j]
<1> USE DEF IInv, TypeOK, row, gates, loop, history, vars
<1>1. ASSUME NEW w \in Workers, Ack(w) \/ Nack(w) \/ Defer(w) \/ Park(w)
      PROVE  state'[j] = state[j] /\ attempts'[j] = attempts[j]
  BY <1>1 DEF Ack, Nack, Defer, Park, Owns, Release, Fenced
<1>2. ASSUME NEW w \in Workers, \/ \E i \in Jobs : Claim(w, i)
                                \/ ClaimNone(w) \/ Reap(w) \/ Extend(w)
                                \/ \E o \in Outcomes : Handle(w, o)
                                \/ RaiseOwn(w) \/ CheckGate(w) \/ RaiseGate(w)
                                \/ Heartbeat(w) \/ Crash(w)
      PROVE  state'[j] = state[j] /\ attempts'[j] = attempts[j]
  BY <1>2 DEF Claim, Claimable, ClaimNone, Reap, TakeBack, Extend, Handle, RaiseOwn, CheckGate,
              RaiseGate, Heartbeat, Crash
<1>3. ASSUME NEW i \in Jobs,
             Enqueue(i) \/ ComesDue(i) \/ LeaseLapses(i) \/ LeaseStalls(i)
               \/ Answer(i) \/ AnswerAgain(i)
      PROVE  state'[j] = state[j] /\ attempts'[j] = attempts[j]
  BY <1>3 DEF Enqueue, ComesDue, LeaseLapses, LeaseStalls, Answer, AnswerAgain, Answered
<1>4. CASE Recover  BY <1>4 DEF Recover, TakeBack
<1> QED BY <1>1, <1>2, <1>3, <1>4 DEF Next, Step

(* succeeded and failed are final: no stale worker, replay or recovery     *)
(* changes the row again.                                                  *)
THEOREM SettledIsFinal == Spec => TerminalIsFinal
<1>1. IInv /\ [Next]_vars
        => [\A j \in Jobs : state[j] \in {"succeeded", "failed"}
                              => state'[j] = state[j] /\ attempts'[j] = attempts[j]]_vars
  BY FinalStep
<1> QED BY <1>1, Invariance, PTL DEF Spec, TerminalIsFinal
-----------------------------------------------------------------------------
(* Refinement                                                              *)

\* worker-{pid}-{i} and cli-{pid} name one worker each.
OwnersDistinct == \A v, w \in Workers : OwnerOf[v] = OwnerOf[w] => v = w

Grantee == [j \in Jobs |-> IF state[j] = "leased" THEN claimant[j] ELSE NoWorker]

\* The empty table is TaskLease's initial state.
LEMMA LeaseInit == Init => Lease!Init
BY DEF Init, Lease!Init

(* A settlement either is the holder's report or is forgotten.             *)
LEMMA SettleImplements ==
  ASSUME OwnersDistinct, IInv, NEW w \in Workers, NEW k \in Jobs, work[w] = k,
         Ack(w) \/ Nack(w) \/ Defer(w) \/ Park(w)
  PROVE  Lease!Report(w, k) \/ Lease!Forget(w)
<1> USE DEF IInv, TypeOK, Finished
<1>1. work[w] \in Jobs /\ work[w] # NoJob
  BY QueueAssumption DEF WorkOK, Busy, Settling, Ack, Nack, Defer, Park
<1>2. work' = [work EXCEPT ![w] = NoJob] /\ claimant' = claimant
  BY DEF Ack, Nack, Defer, Park
<1>3. CASE Fenced(w)
  BY <1>1, <1>2, <1>3 DEF Fenced, row, Lease!Forget
<1>4. CASE Owns(w) /\ \E s \in {"succeeded", "failed", "ready", "awaiting_human"}, n \in Nat : Release(w, s, n)
  <2>1. claimant[work[w]] = w
    BY <1>1, <1>4, QueueAssumption DEF Owns, LeaseConsistent, OwnersDistinct
  <2>2. PICK s \in {"succeeded", "failed", "ready", "awaiting_human"} :
          state' = [state EXCEPT ![work[w]] = s]
    BY <1>4 DEF Release
  <2>3. Grantee[work[w]] = w
    BY <1>1, <1>4, <2>1 DEF Owns, Grantee
  <2>4. Grantee' = [Grantee EXCEPT ![work[w]] = NoWorker]
    BY <1>1, <1>2, <2>2 DEF Grantee
  <2>5. s \in Lease!Settled \cup {"ready", "awaiting_human"}
    BY DEF Lease!Settled
  <2> QED BY <1>1, <1>2, <2>2, <2>3, <2>4, <2>5 DEF Lease!Report, Grantee
<1>5. Fenced(w) \/ (Owns(w) /\ \E s \in {"succeeded", "failed", "ready", "awaiting_human"}, n \in Nat : Release(w, s, n))
  <2>1. attempts[work[w]] \in Nat /\ Refunded(attempts[work[w]]) \in Nat
    BY <1>1 DEF Refunded
  <2> QED BY <2>1 DEF Ack, Nack, Defer, Park
<1> QED BY <1>3, <1>4, <1>5

(* A claim is a grant: the claimer is free, so its record is the only one. *)
LEMMA ClaimImplements ==
  ASSUME IInv, NEW w \in Workers, NEW j \in Jobs, Claim(w, j)
  PROVE  Lease!Grant(w, j)
<1> USE DEF IInv, TypeOK, Claim
<1>1. work[w] = NoJob  BY DEF WorkOK, Busy, Handling, Settling
<1>2. state[j] = "ready" /\ \A d \in Deps[j] : state[d] = "succeeded"
  BY DEF Claimable, DependenciesMet
<1>3. Grantee' = [Grantee EXCEPT ![j] = w]  BY DEF Grantee
<1> QED BY <1>1, <1>2, <1>3 DEF Lease!Grant, Grantee

(* Reap and recover revoke the leases they take back.                      *)
LEMMA TakeBackImplements ==
  ASSUME IInv, NEW S \in SUBSET Jobs, \A j \in S : state[j] = "leased", TakeBack(S)
  PROVE  Lease!Revoke(S)
<1> USE DEF IInv, TypeOK, TakeBack
<1>1. Grantee' = [j \in Jobs |-> IF j \in S THEN NoWorker ELSE Grantee[j]]
  BY DEF Grantee
<1> QED BY <1>1 DEF Lease!Revoke, Grantee

\* A worker that dies forgets its grant.
LEMMA CrashImplements ==
  ASSUME IInv, NEW w \in Workers, Crash(w)
  PROVE  Lease!Forget(w)
<1> USE DEF IInv, TypeOK, Crash, Finished, row, history, gates
<1>1. work[w] # NoJob  BY QueueAssumption DEF WorkOK
<1> QED BY <1>1 DEF Lease!Forget

\* An insert is an offer; a conflicting insert changes nothing.
LEMMA EnqueueImplements ==
  ASSUME IInv, NEW j \in Jobs, Enqueue(j)
  PROVE  Lease!Offer(j) \/ UNCHANGED Lease!vars
<1> USE DEF IInv, TypeOK, Enqueue, loop, history
<1>1. CASE state[j] = "absent"
  <2>1. state' = [state EXCEPT ![j] = "ready"]  BY <1>1
  <2>2. Grantee' = Grantee  BY <1>1, <2>1 DEF Grantee
  <2> QED BY <1>1, <2>1, <2>2 DEF Lease!Offer, Grantee
<1>2. CASE state[j] # "absent"  BY <1>2 DEF Lease!vars
<1> QED BY <1>1, <1>2

\* An answer resumes a parked job; any other answer changes no job.
LEMMA AnswerImplements ==
  ASSUME IInv, NEW j \in Jobs, NEW g, Answered(j, g)
  PROVE  Lease!Resume(j) \/ UNCHANGED Lease!vars
<1> USE DEF IInv, TypeOK, Answered, loop, history
<1>1. CASE state[j] = "awaiting_human"
  <2>1. state' = [state EXCEPT ![j] = "ready"]  BY <1>1
  <2>2. Grantee' = Grantee  BY <1>1, <2>1 DEF Grantee
  <2> QED BY <1>1, <2>1, <2>2 DEF Lease!Resume, Grantee
<1>2. CASE state[j] # "awaiting_human"
  <2>1. state' = state  BY <1>2
  <2> QED BY <2>1 DEF Lease!vars
<1> QED BY <1>1, <1>2

\* Every step of the queue is a step of TaskLease or changes nothing there.
LEMMA StepImplements ==
  ASSUME OwnersDistinct, IInv, [Next]_vars
  PROVE  [Lease!Next]_(Lease!vars)
<1>1. CASE UNCHANGED vars  BY <1>1 DEF vars, row, loop, history, Lease!vars
<1>2. ASSUME NEW w \in Workers, NEW j \in Jobs, Claim(w, j) PROVE Lease!Next
  BY <1>2, ClaimImplements DEF Lease!Next
<1>3. ASSUME NEW w \in Workers, Ack(w) \/ Nack(w) \/ Defer(w) \/ Park(w) PROVE Lease!Next
  <2>1. PICK k \in Jobs : work[w] = k
    BY <1>3 DEF IInv, WorkOK, Busy, Settling, Ack, Nack, Defer, Park
  <2>2. Lease!Report(w, k) \/ Lease!Forget(w)  BY <1>3, <2>1, SettleImplements
  <2> QED BY <2>2 DEF Lease!Next
<1>4. ASSUME NEW w \in Workers, Crash(w) PROVE Lease!Next
  BY <1>4, CrashImplements DEF Lease!Next
<1>5. ASSUME NEW w \in Workers,
             \/ ClaimNone(w) \/ Extend(w) \/ Heartbeat(w)
             \/ \E o \in Outcomes : Handle(w, o)
             \/ RaiseOwn(w) \/ CheckGate(w) \/ RaiseGate(w)
      PROVE  UNCHANGED Lease!vars
  BY <1>5 DEF ClaimNone, Extend, Heartbeat, Handle, RaiseOwn, CheckGate, RaiseGate,
              row, loop, history, Lease!vars
<1>6. ASSUME NEW w \in Workers, Reap(w) PROVE Lease!Next
  <2>1. PICK S \in SUBSET Jobs : (\A j \in S : state[j] = "leased") /\ TakeBack(S)
    BY <1>6 DEF Reap
  <2> QED BY <2>1, TakeBackImplements DEF Lease!Next
<1>7. CASE Recover
  <2>1. PICK S \in SUBSET Jobs : (\A j \in S : state[j] = "leased") /\ TakeBack(S)
    BY <1>7 DEF Recover
  <2> QED BY <2>1, TakeBackImplements DEF Lease!Next
<1>8. ASSUME NEW j \in Jobs, Enqueue(j) PROVE [Lease!Next]_(Lease!vars)
  BY <1>8, EnqueueImplements DEF Lease!Next
<1>9. ASSUME NEW j \in Jobs, ComesDue(j) \/ LeaseLapses(j) \/ LeaseStalls(j)
      PROVE  UNCHANGED Lease!vars
  BY <1>9 DEF ComesDue, LeaseLapses, LeaseStalls, loop, history, Lease!vars
<1>10. ASSUME NEW j \in Jobs, Answer(j) \/ AnswerAgain(j) PROVE [Lease!Next]_(Lease!vars)
  <2>1. PICK g : Answered(j, g)  BY <1>10 DEF Answer, AnswerAgain
  <2> QED BY <2>1, AnswerImplements DEF Lease!Next
<1> QED BY <1>1, <1>2, <1>3, <1>4, <1>5, <1>6, <1>7, <1>8, <1>9, <1>10 DEF Next, Step

(* The queue implements TaskLease: one grant at a time, and nothing a      *)
(* worker does after its lease was taken away reaches the table.           *)
THEOREM QueueImplementsTaskLease ==
  ASSUME OwnersDistinct
  PROVE  Spec => ImplementsTaskLease
<1>1. Init => Lease!Init  BY LeaseInit
<1>2. IInv /\ [Next]_vars => [Lease!Next]_(Lease!vars)  BY StepImplements
<1> QED BY <1>1, <1>2, Invariance, PTL DEF Spec, ImplementsTaskLease, Lease!Spec
=============================================================================
