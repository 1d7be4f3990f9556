--------------------------- MODULE EscalationLadder ---------------------------
(***************************************************************************)
(* What stops BUILD from spending without end.  build.implement has two    *)
(* brakes: the effort ladder over a job's own attempts, and the budget of  *)
(* the cycle that all jobs share.  Both park the job behind a human gate   *)
(* whose answer may widen the bound; both are read before a session starts *)
(* and never during one.  The reviewer's session of build.verify counts in *)
(* the same ledger and has no brake but the attempts of its job.           *)
(*                                                                         *)
(* Jobs are claimed as JobQueue has it, and a lost lease is returned with  *)
(* the crash that lost it.  Which repairs there are is left open: every    *)
(* task has its implement job from the start.  Money and turns are one     *)
(* integer.  A session's cost reaches the ledger in one step when it ends: *)
(* turn by turn, other checks would only see more of it, and start fewer   *)
(* sessions.                                                               *)
(*                                                                         *)
(* Definitions named M... are plausible faults; no action uses them.       *)
(***************************************************************************)
EXTENDS Naturals, Sequences, FiniteSets

CONSTANTS
  Tasks,           \* what a build.implement and the build.verify it inserts are for
  Workers, NoJob,
  MaxAttempts,     \* job.max_attempts, which no caller of enqueue sets
  MaxDollars,      \* the cycle's cap
  Before,          \* what DESIGN spent in the cycle before
  SessionCost,     \* what one session may cost
  Projected,       \* payload.projected_cost_per_attempt, 0 when absent
  MoreAttempts, MoreDollars,  \* what a human answers who widens a bound
  MaxFaults        \* bound: crashes

Kinds == {"implement", "verify"}
Jobs == Kinds \X Tasks
Kind(j) == j[1]
Implement(t) == <<"implement", t>>
Verify(t) == <<"verify", t>>

ASSUME LadderAssumption ==
  /\ {MaxAttempts, MaxDollars, Before, SessionCost, Projected, MoreAttempts, MoreDollars, MaxFaults} \subseteq Nat
  /\ MaxAttempts # 0
  /\ IsFiniteSet(Workers)
  /\ IsFiniteSet(Tasks)
  /\ NoJob \notin Jobs

VARIABLES
  st, attempts,    \* the job rows
  gate,            \* gate[j]: the kind of the latest gate of j
  answer,          \* answer[j]: what the latest answered gate of j grants
  doing, at,       \* the job of each worker, and where its handler is
  spent,           \* dollars the ledger records for the cycle
  effort,          \* history: the effort of j's latest session
  wasted,          \* history: sessions of j that did not complete and were charged
  promised,        \* history: the most attempts, and dollars, any answer granted j
  reviews,         \* history: the reviewer's sessions of each task
  faults

rows == <<st, attempts>>
gates == <<gate, answer, promised>>
vars == <<rows, gates, doing, at, spent, effort, wasted, reviews, faults>>

LOW == 1
STANDARD == 2
HIGH == 3
Base == LOW   \* PHASE_BASE_EFFORT[BUILD]

BuildLadder == <<LOW, LOW, STANDARD, STANDARD, HIGH, HIGH>>
LadderExhausted == Len(BuildLadder)
EffortForAttempt(n) == IF BuildLadder[n] > Base THEN BuildLadder[n] ELSE Base

Nothing == [attempts |-> 0, dollars |-> 0]

Init ==
  /\ st = [j \in Jobs |-> IF Kind(j) = "implement" THEN "ready" ELSE "absent"]
  /\ attempts = [j \in Jobs |-> 0]
  /\ gate = [j \in Jobs |-> "none"]
  /\ answer = [j \in Jobs |-> Nothing]
  /\ doing = [w \in Workers |-> NoJob]
  /\ at = [w \in Workers |-> "idle"]
  /\ spent = Before
  /\ effort = [j \in Jobs |-> 0]
  /\ wasted = [j \in Jobs |-> 0]
  /\ promised = [j \in Jobs |-> Nothing]
  /\ reviews = [t \in Tasks |-> 0]
  /\ faults = 0

-----------------------------------------------------------------------------
(* The two brakes                                                          *)

OnLadder(j) == attempts[j] <= LadderExhausted

MGrantedAnything(j) == answer[j].attempts # 0
Granted(j) == answer[j].attempts # 0 /\ attempts[j] <= answer[j].attempts

\* Granted attempts run at the ladder's top.
SessionEffort(j) == EffortForAttempt(IF OnLadder(j) THEN attempts[j] ELSE LadderExhausted)

\* The latest answer replaces the cap, but only once the configured cap is hit.
Cap(j) == IF spent >= MaxDollars /\ answer[j].dollars # 0 THEN answer[j].dollars ELSE MaxDollars

Exhausted(j) == spent >= Cap(j)
WouldExceed(j) == attempts[j] > 1 /\ Projected # 0 /\ spent + Projected > Cap(j)

-----------------------------------------------------------------------------
(* The job row, as claim, park, defer, nack and ack change it              *)

MRefundTwice(n) == IF n > 1 THEN n - 2 ELSE 0
Refund(n) == IF n > 0 THEN n - 1 ELSE 0

\* A verify depends on the implement job that inserted it.
Claim(w, j) ==
  /\ doing[w] = NoJob
  /\ st[j] = "ready"
  /\ Kind(j) = "verify" => st[Implement(j[2])] = "succeeded"
  /\ st' = [st EXCEPT ![j] = "leased"]
  /\ attempts' = [attempts EXCEPT ![j] = @ + 1]
  /\ doing' = [doing EXCEPT ![w] = j]
  /\ at' = [at EXCEPT ![w] = "checking"]
  /\ UNCHANGED <<gates, spent, effort, wasted, reviews, faults>>

\* Worker w is done with its job, which is left in state s after n attempts.
Leave(w, s, n) ==
  /\ st' = [st EXCEPT ![doing[w]] = s]
  /\ attempts' = [attempts EXCEPT ![doing[w]] = n]
  /\ doing' = [doing EXCEPT ![w] = NoJob]
  /\ at' = [at EXCEPT ![w] = "idle"]

\* A nack: the last attempt is terminal.
Nack(w) ==
  \/ attempts[doing[w]] >= MaxAttempts /\ Leave(w, "failed", attempts[doing[w]])
  \/ attempts[doing[w]] < MaxAttempts /\ Leave(w, "ready", attempts[doing[w]])

ParkFor(w, kind) ==
  /\ gate' = [gate EXCEPT ![doing[w]] = kind]
  /\ Leave(w, "awaiting_human", Refund(attempts[doing[w]]))
  /\ UNCHANGED <<answer, promised, spent, effort, wasted, reviews, faults>>

At(w, kind, place) == doing[w] # NoJob /\ Kind(doing[w]) = kind /\ at[w] = place

-----------------------------------------------------------------------------
(* build.implement                                                         *)

ParkExhausted(w) ==
  /\ At(w, "implement", "checking")
  /\ ~OnLadder(doing[w])
  /\ ~Granted(doing[w])
  /\ ParkFor(w, "escalation_exhausted")

ParkBroke(w) ==
  /\ At(w, "implement", "checking")
  /\ OnLadder(doing[w]) \/ Granted(doing[w])
  /\ Exhausted(doing[w]) \/ WouldExceed(doing[w])
  /\ ParkFor(w, "budget_exhausted")

MStartUnbraked(w) ==
  LET j == doing[w]
  IN  /\ At(w, "implement", "checking")
      /\ OnLadder(j) \/ Granted(j)
      /\ at' = [at EXCEPT ![w] = "running"]
      /\ effort' = [effort EXCEPT ![j] = SessionEffort(j)]
      /\ UNCHANGED <<rows, gates, doing, spent, wasted, reviews, faults>>

Start(w) ==
  LET j == doing[w]
  IN  /\ At(w, "implement", "checking")
      /\ OnLadder(j) \/ Granted(j)
      /\ ~Exhausted(j) /\ ~WouldExceed(j)
      /\ at' = [at EXCEPT ![w] = "running"]
      /\ effort' = [effort EXCEPT ![j] = SessionEffort(j)]
      /\ UNCHANGED <<rows, gates, doing, spent, wasted, reviews, faults>>

Spend == \E c \in 0 .. SessionCost : spent' = spent + c

\* The session completed: its verify is inserted, unless it is there from an
\* earlier run of the handler, or the session was wound down, ...
Finish(w) ==
  /\ At(w, "implement", "running")
  /\ Spend
  /\ LET v == Verify(doing[w][2])
     IN  UNCHANGED st \/ (st[v] = "absent" /\ st' = [st EXCEPT ![v] = "ready"])
  /\ at' = [at EXCEPT ![w] = "finished"]
  /\ UNCHANGED <<attempts, gates, doing, effort, wasted, reviews, faults>>

\* ... and only then is the job itself settled.
Complete(w) ==
  /\ At(w, "implement", "finished")
  /\ Leave(w, "succeeded", attempts[doing[w]])
  /\ UNCHANGED <<gates, spent, effort, wasted, reviews, faults>>

\* No capacity: a Defer, which gives the attempt back.
RejectCapacity(w) ==
  /\ At(w, "implement", "running")
  /\ Spend
  /\ Leave(w, "ready", Refund(attempts[doing[w]]))
  /\ UNCHANGED <<gates, effort, wasted, reviews, faults>>

\* The session ends incomplete.
Fail(w) ==
  /\ At(w, "implement", "running")
  /\ Spend
  /\ wasted' = [wasted EXCEPT ![doing[w]] = @ + 1]
  /\ Nack(w)
  /\ UNCHANGED <<gates, effort, reviews, faults>>

-----------------------------------------------------------------------------
(* build.verify                                                            *)

\* The commands of the item fail: the job waits for a repair, or for a human once
\* there were enough of them, and either way its attempt is given back.
Postpone(w) ==
  /\ At(w, "verify", "checking")
  /\ Leave(w, "ready", Refund(attempts[doing[w]]))
  /\ UNCHANGED <<gates, spent, effort, wasted, reviews, faults>>
ParkRepairs(w) ==
  /\ At(w, "verify", "checking")
  /\ ParkFor(w, "verify_repair_exhausted")

\* They pass, and the reviewer's session starts; no budget is read.
Review(w) ==
  /\ At(w, "verify", "checking")
  /\ at' = [at EXCEPT ![w] = "reviewing"]
  /\ reviews' = [reviews EXCEPT ![doing[w][2]] = @ + 1]
  /\ UNCHANGED <<rows, gates, doing, spent, effort, wasted, faults>>

Approve(w) ==
  /\ At(w, "verify", "reviewing")
  /\ Spend
  /\ Leave(w, "succeeded", attempts[doing[w]])
  /\ UNCHANGED <<gates, effort, wasted, reviews, faults>>

\* A review that does not complete, and a plan without criteria, cost an attempt.
MDisapproveFree(w) ==
  /\ At(w, "verify", "reviewing")
  /\ Spend
  /\ Leave(w, "ready", Refund(attempts[doing[w]]))
  /\ UNCHANGED <<gates, effort, wasted, reviews, faults>>
Disapprove(w) ==
  /\ \/ At(w, "verify", "reviewing") /\ Spend
     \/ At(w, "verify", "checking") /\ UNCHANGED spent
  /\ Nack(w)
  /\ UNCHANGED <<gates, effort, wasted, reviews, faults>>

-----------------------------------------------------------------------------
(* The worker and the human                                                *)

\* The worker dies; reap returns the job, and no attempt is given back.
Crash(w) ==
  /\ faults < MaxFaults
  /\ doing[w] # NoJob
  /\ \/ at[w] = "running" /\ Spend /\ wasted' = [wasted EXCEPT ![doing[w]] = @ + 1]
     \/ at[w] = "finished" /\ UNCHANGED spent /\ wasted' = [wasted EXCEPT ![doing[w]] = @ + 1]
     \/ at[w] = "reviewing" /\ Spend /\ UNCHANGED wasted
     \/ at[w] = "checking" /\ UNCHANGED <<spent, wasted>>
  /\ Leave(w, "ready", attempts[doing[w]])
  /\ faults' = faults + 1
  /\ UNCHANGED <<gates, effort, reviews>>

AtLeast(a, b) == IF a > b THEN a ELSE b

\* What the prompt of a gate offers: dollars, attempts, or neither that is read here.
Offer(kind) ==
  CASE kind = "budget_exhausted"     -> [Nothing EXCEPT !.dollars = MoreDollars]
    [] kind = "escalation_exhausted" -> [Nothing EXCEPT !.attempts = MoreAttempts]
    [] OTHER                         -> Nothing

\* The human answers the open gate with the grant its prompt names, or without
\* one; only the latest answer is ever read again.
Answer(j) ==
  /\ st[j] = "awaiting_human"
  /\ \E g \in {Nothing, Offer(gate[j])} :
       /\ answer' = [answer EXCEPT ![j] = g]
       /\ promised' = [promised EXCEPT ![j] = [attempts |-> AtLeast(@.attempts, g.attempts),
                                               dollars |-> AtLeast(@.dollars, g.dollars)]]
  /\ st' = [st EXCEPT ![j] = "ready"]
  /\ UNCHANGED <<attempts, gate, doing, at, spent, effort, wasted, reviews, faults>>

Step(w) ==
  \/ ParkExhausted(w) \/ ParkBroke(w) \/ Start(w)
  \/ Finish(w) \/ Complete(w) \/ RejectCapacity(w) \/ Fail(w)
  \/ Postpone(w) \/ ParkRepairs(w) \/ Review(w) \/ Approve(w) \/ Disapprove(w)
  \/ Crash(w)

Next ==
  \/ \E w \in Workers, j \in Jobs : Claim(w, j)
  \/ \E w \in Workers : Step(w)
  \/ \E j \in Jobs : Answer(j)

Spec == Init /\ [][Next]_vars

-----------------------------------------------------------------------------
(* Properties                                                              *)

Gates == {"none", "escalation_exhausted", "budget_exhausted", "verify_repair_exhausted"}

\* Every variable has its type, a worker is in a handler exactly while a leased job
\* is its own, and each place is one of its kind of job.
TypeOK ==
  /\ st \in [Jobs -> {"absent", "ready", "leased", "awaiting_human", "succeeded", "failed"}]
  /\ attempts \in [Jobs -> Nat]
  /\ gate \in [Jobs -> Gates]
  /\ answer \in [Jobs -> [attempts : Nat, dollars : Nat]]
  /\ promised \in [Jobs -> [attempts : Nat, dollars : Nat]]
  /\ doing \in [Workers -> Jobs \cup {NoJob}]
  /\ at \in [Workers -> {"idle", "checking", "running", "finished", "reviewing"}]
  /\ \A w \in Workers : at[w] = "idle" <=> doing[w] = NoJob
  /\ \A w \in Workers : at[w] \in {"running", "finished"} => Kind(doing[w]) = "implement"
  /\ \A w \in Workers : at[w] = "reviewing" => Kind(doing[w]) = "verify"
  /\ \A w \in Workers : doing[w] # NoJob => st[doing[w]] = "leased"
  /\ \A v, w \in Workers : doing[v] = doing[w] /\ doing[v] # NoJob => v = w
  /\ spent \in Nat
  /\ effort \in [Jobs -> 0 .. HIGH]
  /\ wasted \in [Jobs -> Nat]
  /\ reviews \in [Tasks -> Nat]
  /\ faults \in 0 .. MaxFaults

\* The brake is read before a session and not during it, by workers that do not
\* see each other's sessions, and it does not hold the reviewer, whose sessions
\* count in the same ledger.  What the cycle spends beyond the largest of the caps
\* anybody set and of what DESIGN had spent is at most one session of every worker
\* and the reviewer's; of these a verify has as many as its attempts, which end at
\* max_attempts but for those that a crash took.
TopCap == AtLeast(Before, AtLeast(MaxDollars, MoreDollars))
Reviewed == {r \in Tasks \X (1 .. MaxAttempts + MaxFaults) : r[2] <= reviews[r[1]]}
SpendBounded ==
  /\ spent <= TopCap + SessionCost * (Cardinality(Workers) + Cardinality(Reviewed))
  /\ \A t \in Tasks : reviews[t] <= MaxAttempts + faults

\* A job's sessions never run at a lower effort than an earlier one of its own,
\* through refunds, parks, crashes and grants.
EffortNeverDrops == [][\A j \in Jobs : effort'[j] >= effort[j]]_vars

\* Sessions of an implement job whose result was not used are paid for with attempts,
\* so that no job has more of them than the ladder has rungs, or than a human granted,
\* whichever is larger.
WasteBounded ==
  \A j \in Jobs : wasted[j] <= AtLeast(LadderExhausted, promised[j].attempts)
=============================================================================
