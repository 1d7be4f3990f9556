------------------------------- MODULE JobQueue -------------------------------
(***************************************************************************)
(* vibey's durable work queue: the job and human_gate tables, the SQL      *)
(* statements of PostgresJobRepository and PostgresHumanGateRepository,    *)
(* and WorkerLoop.run_once, the only client of most of them.  One action   *)
(* is one committed statement, or one transaction, so every interleaving   *)
(* of workers, humans, the reaper and the recover command is explored.     *)
(*                                                                         *)
(* The clock is abstracted to what the SQL compares with now(): whether a  *)
(* lease has expired (lease) and whether run_after has passed (due).       *)
(* Crashes, stalled heartbeats, operator recoveries and repeated answers   *)
(* draw on one budget of MaxFaults.  Neither priority (no caller sets it)  *)
(* nor the run_after order among claimable jobs is modelled: Claim takes   *)
(* any claimable job.                                                      *)
(***************************************************************************)
EXTENDS Naturals, FiniteSets

CONSTANTS Jobs,         \* job rows by idempotency key, of one project
          Workers,      \* WorkerLoop instances, over all processes
          Owners,       \* lease_owner strings
          OwnerOf,      \* OwnerOf[w]: the owner string worker w was built with
          Deps,         \* Deps[j]: EnqueueRequest.depends_on
          Askers,       \* jobs whose handler raises its own gate before Park
          MaxAttempts,  \* job.max_attempts
          MaxGates,     \* bound: parks a handler that is not an asker chooses
          MaxFaults,    \* bound: crashes, stalls, recoveries, repeated answers
          NoJob, NoOwner, NoWorker

ASSUME QueueAssumption ==
  /\ OwnerOf \in [Workers -> Owners]
  /\ Deps \in [Jobs -> SUBSET Jobs]
  /\ Askers \subseteq Jobs
  /\ MaxAttempts \in Nat \ {0}
  /\ MaxGates \in Nat
  /\ MaxFaults \in Nat
  /\ NoJob \notin Jobs
  /\ NoOwner \notin Owners
  /\ NoWorker \notin Workers

VARIABLES
  state, owner, lease, due, attempts,  \* columns of job
  raised, answered,                    \* gate rows of each job: 1..raised, and those with an answer
  pc, work, outcome,                   \* run_once of each worker: where it is, its JobRecord, its Outcome
  claimant, nacks, losses,             \* history: last claimer, failures charged, leases taken away
  faults

row == <<state, owner, lease, due, attempts>>
gates == <<raised, answered>>
loop == <<pc, work, outcome>>
history == <<claimant, nacks, losses>>
vars == <<row, gates, loop, history, faults>>

States == {"absent", "ready", "leased", "succeeded", "failed", "awaiting_human"}
Outcomes == {"success", "failure", "defer", "park"}
Handling == {"running", "asking"}
Settling == {"done", "raising", "parking"}
Busy(w) == pc[w] \in {"claimed"} \cup Handling \cup Settling

(* The mutations named M... below are plausible faults of the definition   *)
(* that follows each; no action uses them.                                 *)

MOwnsAnyLease(w) == state[work[w]] = "leased"

\* The WHERE clause of heartbeat, ack, nack, park and defer: the row still
\* carries this worker's owner string.
Owns(w) == state[work[w]] = "leased" /\ owner[work[w]] = OwnerOf[w]

MDependenciesMetOnceSettled(j) == \A d \in Deps[j] : state[d] \in {"succeeded", "failed"}

\* claim's NOT EXISTS.
DependenciesMet(j) == \A d \in Deps[j] : state[d] = "succeeded"

Claimable(j) ==
  /\ state[j] = "ready"
  /\ due[j]
  /\ DependenciesMet(j)

\* latest_for_job, reduced to what its callers look at.
LatestGate(j) ==
  IF raised[j] = 0 THEN "none"
  ELSE IF raised[j] \in answered[j] THEN "answered" ELSE "open"

Init ==
  /\ state = [j \in Jobs |-> "absent"]
  /\ owner = [j \in Jobs |-> NoOwner]
  /\ lease = [j \in Jobs |-> "none"]
  /\ due = [j \in Jobs |-> FALSE]
  /\ attempts = [j \in Jobs |-> 0]
  /\ raised = [j \in Jobs |-> 0]
  /\ answered = [j \in Jobs |-> {}]
  /\ pc = [w \in Workers |-> "idle"]
  /\ work = [w \in Workers |-> NoJob]
  /\ outcome = [w \in Workers |-> "none"]
  /\ claimant = [j \in Jobs |-> NoWorker]
  /\ nacks = [j \in Jobs |-> 0]
  /\ losses = [j \in Jobs |-> 0]
  /\ faults = 0
-----------------------------------------------------------------------------
(* The job table                                                           *)

\* INSERT ... ON CONFLICT DO NOTHING, with its dependency rows, which must
\* exist already (foreign key).  run_after is now() or a later time.
Enqueue(j) ==
  /\ \A d \in Deps[j] : state[d] # "absent"
  /\ \/ /\ state[j] = "absent"
        /\ state' = [state EXCEPT ![j] = "ready"]
        /\ \E b \in BOOLEAN : due' = [due EXCEPT ![j] = b]
     \/ /\ state[j] # "absent"
        /\ UNCHANGED <<state, due>>
  /\ UNCHANGED <<owner, lease, attempts, gates, loop, history, faults>>

\* run_after passes.
ComesDue(j) ==
  /\ state[j] = "ready"
  /\ ~due[j]
  /\ due' = [due EXCEPT ![j] = TRUE]
  /\ UNCHANGED <<state, owner, lease, attempts, gates, loop, history, faults>>

\* The UPDATE ... FOR UPDATE SKIP LOCKED of claim.
Claim(w, j) ==
  /\ pc[w] = "idle"
  /\ Claimable(j)
  /\ state' = [state EXCEPT ![j] = "leased"]
  /\ owner' = [owner EXCEPT ![j] = OwnerOf[w]]
  /\ lease' = [lease EXCEPT ![j] = "live"]
  /\ attempts' = [attempts EXCEPT ![j] = @ + 1]
  /\ claimant' = [claimant EXCEPT ![j] = w]
  /\ pc' = [pc EXCEPT ![w] = "claimed"]
  /\ work' = [work EXCEPT ![w] = j]
  /\ UNCHANGED <<due, gates, outcome, nacks, losses, faults>>

MClaimNoneWaits(w) ==
  /\ pc[w] = "idle"
  /\ \A j \in Jobs : ~Claimable(j)
  /\ UNCHANGED vars

\* claim returns None: run_once returns False and the drive loop goes on to reap.
ClaimNone(w) ==
  /\ pc[w] = "idle"
  /\ \A j \in Jobs : ~Claimable(j)
  /\ pc' = [pc EXCEPT ![w] = "empty"]
  /\ UNCHANGED <<row, gates, work, outcome, history, faults>>

\* Every lease in S goes back to ready; the attempt stays charged.
TakeBack(S) ==
  /\ state' = [j \in Jobs |-> IF j \in S THEN "ready" ELSE state[j]]
  /\ owner' = [j \in Jobs |-> IF j \in S THEN NoOwner ELSE owner[j]]
  /\ lease' = [j \in Jobs |-> IF j \in S THEN "none" ELSE lease[j]]
  /\ losses' = [j \in Jobs |-> IF j \in S THEN losses[j] + 1 ELSE losses[j]]
  /\ UNCHANGED <<due, attempts, gates, work, outcome, claimant, nacks>>

\* reap: every project's expired leases, whoever holds them.
Reap(w) ==
  /\ pc[w] = "empty"
  /\ TakeBack({j \in Jobs : state[j] = "leased" /\ lease[j] = "expired"})
  /\ pc' = [pc EXCEPT ![w] = "idle"]
  /\ UNCHANGED faults

\* `vibey recover`: every lease, expired or not.
Recover ==
  /\ faults < MaxFaults
  /\ \E j \in Jobs : state[j] = "leased"
  /\ TakeBack({j \in Jobs : state[j] = "leased"})
  /\ faults' = faults + 1
  /\ UNCHANGED pc

\* Some worker still heartbeats the job's lease.
Beating(j) == \E w \in Workers : Busy(w) /\ work[w] = j /\ OwnerOf[w] = owner[j]

\* The lease of a worker that is gone runs out.
LeaseLapses(j) ==
  /\ state[j] = "leased" /\ lease[j] = "live"
  /\ ~Beating(j)
  /\ lease' = [lease EXCEPT ![j] = "expired"]
  /\ UNCHANGED <<state, owner, due, attempts, gates, loop, history, faults>>

\* The lease of a live worker runs out: a stalled event loop, a lost database
\* connection, a heartbeat task that died.
LeaseStalls(j) ==
  /\ state[j] = "leased" /\ lease[j] = "live"
  /\ Beating(j)
  /\ faults < MaxFaults
  /\ lease' = [lease EXCEPT ![j] = "expired"]
  /\ faults' = faults + 1
  /\ UNCHANGED <<state, owner, due, attempts, gates, loop, history>>
-----------------------------------------------------------------------------
(* WorkerLoop.run_once                                                     *)

\* The UPDATE of heartbeat; it revives an expired lease nobody has reaped.
Extended(w) == IF Owns(w) THEN [lease EXCEPT ![work[w]] = "live"] ELSE lease

\* The extension to the lease of the job's kind, right after the claim.
Extend(w) ==
  /\ pc[w] = "claimed"
  /\ lease' = Extended(w)
  /\ pc' = [pc EXCEPT ![w] = "running"]
  /\ UNCHANGED <<state, owner, due, attempts, gates, work, outcome, history, faults>>

\* _heartbeat_forever, alive exactly while the handler runs.
Heartbeat(w) ==
  /\ pc[w] \in Handling
  /\ lease' = Extended(w)
  /\ UNCHANGED <<state, owner, due, attempts, gates, loop, history, faults>>

\* What handlers return.  An asker goes on only once its latest gate is
\* answered, and parks until then; any other handler may park for its own
\* reasons; every handler may fail, raise, or meet a capacity rejection.
Permitted(j, o) ==
  /\ o = "success" => (j \in Askers => LatestGate(j) = "answered")
  /\ o = "park" => IF j \in Askers THEN LatestGate(j) # "answered"
                                   ELSE raised[j] < MaxGates

\* The handler reads the job's latest gate and decides; an asker that has no
\* gate yet goes on to raise one.
Handle(w, o) ==
  /\ pc[w] = "running"
  /\ Permitted(work[w], o)
  /\ IF o = "park" /\ work[w] \in Askers /\ LatestGate(work[w]) = "none"
     THEN pc' = [pc EXCEPT ![w] = "asking"]
     ELSE pc' = [pc EXCEPT ![w] = "done"]
  /\ outcome' = [outcome EXCEPT ![w] = o]
  /\ UNCHANGED <<row, gates, work, history, faults>>

Inserted(j) == raised' = [raised EXCEPT ![j] = @ + 1]

\* The asker's own raise_gate.
RaiseOwn(w) ==
  /\ pc[w] = "asking"
  /\ Inserted(work[w])
  /\ pc' = [pc EXCEPT ![w] = "done"]
  /\ UNCHANGED <<row, answered, work, outcome, history, faults>>

\* run_once is over; the drive loop claims again.
Finished(w) ==
  /\ pc' = [pc EXCEPT ![w] = "idle"]
  /\ work' = [work EXCEPT ![w] = NoJob]
  /\ outcome' = [outcome EXCEPT ![w] = "none"]

\* The row leaves the lease for state s with n attempts charged.
Release(w, s, n) ==
  /\ state' = [state EXCEPT ![work[w]] = s]
  /\ owner' = [owner EXCEPT ![work[w]] = NoOwner]
  /\ lease' = [lease EXCEPT ![work[w]] = "none"]
  /\ attempts' = [attempts EXCEPT ![work[w]] = n]

\* A settle whose WHERE clause matches no row: the worker does not look at
\* the returned False.
Fenced(w) == ~Owns(w) /\ UNCHANGED <<row, nacks>>

MRefundedNever(n) == n

\* greatest(attempts - 1, 0)
Refunded(n) == IF n > 0 THEN n - 1 ELSE 0

Ack(w) ==
  /\ pc[w] = "done" /\ outcome[w] = "success"
  /\ \/ /\ Owns(w)
        /\ Release(w, "succeeded", attempts[work[w]])
        /\ UNCHANGED <<due, nacks>>
     \/ Fenced(w)
  /\ Finished(w)
  /\ UNCHANGED <<gates, claimant, losses, faults>>

MExhaustedLate(n) == n > MaxAttempts
Exhausted(n) == n >= MaxAttempts

\* nack: failed once the attempts are used up, otherwise ready after a backoff.
Nack(w) ==
  /\ pc[w] = "done" /\ outcome[w] = "failure"
  /\ \/ /\ Owns(w)
        /\ Release(w, IF Exhausted(attempts[work[w]]) THEN "failed" ELSE "ready",
                   attempts[work[w]])
        /\ due' = [due EXCEPT ![work[w]] = FALSE]
        /\ nacks' = [nacks EXCEPT ![work[w]] = @ + 1]
     \/ Fenced(w)
  /\ Finished(w)
  /\ UNCHANGED <<gates, claimant, losses, faults>>

Defer(w) ==
  /\ pc[w] = "done" /\ outcome[w] = "defer"
  /\ \/ /\ Owns(w)
        /\ Release(w, "ready", Refunded(attempts[work[w]]))
        /\ due' = [due EXCEPT ![work[w]] = FALSE]
        /\ UNCHANGED nacks
     \/ Fenced(w)
  /\ Finished(w)
  /\ UNCHANGED <<gates, claimant, losses, faults>>

MNeedsGateOnlyAfterOne(j) == LatestGate(j) = "answered"
NeedsGate(j) == LatestGate(j) # "open"

\* _settle of a Park, in its three statements: look at the latest gate, raise
\* one unless an open one exists, park the row.
CheckGate(w) ==
  /\ pc[w] = "done" /\ outcome[w] = "park"
  /\ pc' = [pc EXCEPT ![w] = IF NeedsGate(work[w]) THEN "raising" ELSE "parking"]
  /\ UNCHANGED <<row, gates, work, outcome, history, faults>>

RaiseGate(w) ==
  /\ pc[w] = "raising"
  /\ Inserted(work[w])
  /\ pc' = [pc EXCEPT ![w] = "parking"]
  /\ UNCHANGED <<row, answered, work, outcome, history, faults>>

Park(w) ==
  /\ pc[w] = "parking"
  /\ \/ /\ Owns(w)
        /\ Release(w, "awaiting_human", Refunded(attempts[work[w]]))
        /\ UNCHANGED <<due, nacks>>
     \/ Fenced(w)
  /\ Finished(w)
  /\ UNCHANGED <<gates, claimant, losses, faults>>

\* The process dies between two statements and is restarted.  A heartbeat
\* that raised has the same effect: run_once rethrows and the outcome is lost.
Crash(w) ==
  /\ Busy(w)
  /\ faults < MaxFaults
  /\ faults' = faults + 1
  /\ Finished(w)
  /\ UNCHANGED <<row, gates, history>>
-----------------------------------------------------------------------------
(* The human                                                               *)

\* The transaction of answer: the gate row, and the job row if it is parked.
Answered(j, g) ==
  /\ answered' = [answered EXCEPT ![j] = @ \cup {g}]
  /\ state' = [state EXCEPT ![j] = IF @ = "awaiting_human" THEN "ready" ELSE @]
  /\ UNCHANGED <<owner, lease, due, attempts, raised, loop, history>>

Answer(j) ==
  /\ \E g \in (1..raised[j]) \ answered[j] : Answered(j, g)
  /\ UNCHANGED faults

\* answer does not look whether the gate has an answer already.
AnswerAgain(j) ==
  /\ faults < MaxFaults
  /\ \E g \in answered[j] : Answered(j, g)
  /\ faults' = faults + 1
-----------------------------------------------------------------------------
Step(w) ==
  \/ \E j \in Jobs : Claim(w, j)
  \/ ClaimNone(w) \/ Reap(w) \/ Extend(w)
  \/ \E o \in Outcomes : Handle(w, o)
  \/ RaiseOwn(w) \/ Ack(w) \/ Nack(w) \/ Defer(w)
  \/ CheckGate(w) \/ RaiseGate(w) \/ Park(w)

Next ==
  \/ \E w \in Workers : Step(w) \/ Heartbeat(w) \/ Crash(w)
  \/ \E j \in Jobs : \/ Enqueue(j) \/ ComesDue(j) \/ LeaseLapses(j) \/ LeaseStalls(j)
                     \/ Answer(j) \/ AnswerAgain(j)
  \/ Recover

\* Workers keep stepping (a crashed one is restarted, a handler ends), clocks
\* advance, and someone answers open gates.  A worker that has just settled
\* claims again at once, while a deferred job's run_after lies ahead: so it
\* does find the queue empty if the queue keeps being empty.
Fairness ==
  /\ \A w \in Workers : WF_vars(Step(w)) /\ SF_vars(ClaimNone(w))
  /\ \A j \in Jobs : WF_vars(ComesDue(j)) /\ WF_vars(LeaseLapses(j)) /\ WF_vars(Answer(j))

Spec == Init /\ [][Next]_vars
FairSpec == Spec /\ Fairness
-----------------------------------------------------------------------------
TypeOK ==
  /\ state \in [Jobs -> States]
  /\ owner \in [Jobs -> Owners \cup {NoOwner}]
  /\ lease \in [Jobs -> {"none", "live", "expired"}]
  /\ due \in [Jobs -> BOOLEAN]
  /\ attempts \in [Jobs -> Nat]
  /\ raised \in [Jobs -> Nat]
  /\ answered \in [Jobs -> SUBSET Nat]
  /\ pc \in [Workers -> {"idle", "empty", "claimed"} \cup Handling \cup Settling]
  /\ work \in [Workers -> Jobs \cup {NoJob}]
  /\ outcome \in [Workers -> Outcomes \cup {"none"}]
  /\ claimant \in [Jobs -> Workers \cup {NoWorker}]
  /\ nacks \in [Jobs -> Nat]
  /\ losses \in [Jobs -> Nat]
  /\ faults \in 0..MaxFaults

(* The CHECK job_lease_consistent of migrations/0003_job.sql never rejects *)
(* a statement of the queue: a row has an owner and an expiry exactly      *)
(* while it is leased, and the owner is that of the last claimer.          *)
LeaseConsistent ==
  \A j \in Jobs :
    /\ (state[j] = "leased") <=> (owner[j] # NoOwner)
    /\ (state[j] = "leased") <=> (lease[j] # "none")
    /\ state[j] = "leased" => claimant[j] \in Workers /\ owner[j] = OwnerOf[claimant[j]]

(* Nothing runs, waits for a human or is settled before every job it       *)
(* depends on has succeeded, and that stays true whatever is reaped,       *)
(* recovered or replayed later (claim's NOT EXISTS, enqueue's conflict     *)
(* clause, ack's owner check).                                             *)
DependenciesFirst ==
  \A j \in Jobs : state[j] \in {"leased", "succeeded", "failed", "awaiting_human"}
                    => \A d \in Deps[j] : state[d] = "succeeded"

(* An attempt is charged for each failure and each lease taken away and    *)
(* for nothing else: PARK and DEFER refund theirs, so waiting on a human   *)
(* or on capacity never consumes max_attempts (data-model.md section 3.4). *)
AttemptAccounting ==
  \A j \in Jobs :
    attempts[j] = nacks[j] + losses[j]
                    + (IF state[j] \in {"leased", "succeeded"} THEN 1 ELSE 0)

(* A job that keeps failing is given up: it starts at most max_attempts    *)
(* times beyond the leases it lost, and it is failed for good only when at *)
(* least max_attempts charges are on it.                                   *)
RetriesBounded ==
  \A j \in Jobs :
    /\ attempts[j] <= MaxAttempts + losses[j]
    /\ state[j] = "failed" => nacks[j] + losses[j] >= MaxAttempts

(* A parked job always has a gate that says why (the comment in _settle).  *)
ParkedHasGate == \A j \in Jobs : state[j] = "awaiting_human" => raised[j] > 0

(* A settled job never changes again, whatever a worker that lost its      *)
(* lease, a crashed one that was restarted or a repeated enqueue does.     *)
TerminalIsFinal ==
  [][\A j \in Jobs : state[j] \in {"succeeded", "failed"}
                       => state'[j] = state[j] /\ attempts'[j] = attempts[j]]_vars

(* The queue grants, revokes and records results as TaskLease says: in     *)
(* particular a worker whose lease was taken away settles nothing, even if *)
(* somebody else holds the job by then.                                    *)
Lease == INSTANCE TaskLease
           WITH st <- state, doing <- work,
                holder <- [j \in Jobs |-> IF state[j] = "leased" THEN claimant[j] ELSE NoWorker]
ImplementsTaskLease == Lease!Spec

(* No lease outlives its worker for ever: a job whose worker died, stalled *)
(* or was fenced off becomes claimable again (reap in the idle branch of   *)
(* the drive loop).                                                        *)
LeaseReturned == \A j \in Jobs : state[j] = "leased" ~> state[j] # "leased"

(* A parked job can be released by answering a gate that is still open.    *)
ParkedIsAnswerable ==
  \A j \in Jobs : state[j] = "awaiting_human" => (1..raised[j]) \ answered[j] # {}
=============================================================================
