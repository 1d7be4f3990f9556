---------------------------- MODULE BuildPipeline ----------------------------
(***************************************************************************)
(* The BUILD phase of one project cycle: build.decompose fans the spec out *)
(* into one build.implement job per work item, implement enqueues verify,  *)
(* verify enqueues integrate, failed checks raise a finding and a repair,  *)
(* and the last integrate moves the project to REVIEW.                     *)
(*                                                                         *)
(* The job table is TaskLease, the specification JobQueue implements; the  *)
(* ledger, the project row, the advisory lock and every job insert are     *)
(* separate committed statements, so each is an action of its own and a    *)
(* worker may crash, raise or lose its lease between any two.              *)
(*                                                                         *)
(* A chain is the implement, verify and integrate job that stem from one   *)
(* idempotency key: the item's own, a repair's, or a wind-down's.  What    *)
(* engines and gate commands find is a nondeterministic choice; attempts   *)
(* and retry delays are JobQueue's and are not repeated here.              *)
(***************************************************************************)
EXTENDS Naturals, Sequences, FiniteSets

CONSTANTS
  Items, Order,     \* the decomposition, and the order it is fanned out in
  Needs,            \* Needs[i]: the items that i depends on
  Workers, NoJob, NoWorker,
  MaxRounds,        \* repair rounds before a job parks
  GrantedRounds,    \* what a human who grants more rounds answers
  MaxWinds,         \* how often one conversation may be handed on
  MaxFindings,      \* bound: findings raised per item
  GivesUp,          \* the kinds of job that may run out of attempts
  MaxFaults         \* bound: crashes, exceptions and lost leases

ASSUME RoundsAssumption == {MaxRounds, GrantedRounds, MaxWinds, MaxFindings, MaxFaults} \subseteq Nat
ASSUME ItemsAssumption ==
  /\ Order \in Seq(Items) /\ Items = {Order[n] : n \in DOMAIN Order}
  /\ Needs \in [Items -> SUBSET Items]

Classes == {"verify", "integrate"}
Kinds == Classes \cup {"decompose", "implement"}
Findings == 1 .. MaxFindings
NoFinding == 0

Root == <<"root", 0>>
Repair(k) == <<"repair", k>>
Wind(n) == <<"wind", n>>
Chains == {Root} \cup {Repair(k) : k \in Findings} \cup {Wind(n) : n \in 1 .. MaxWinds}

Decompose == <<"decompose">>
Implement(i, c) == <<"implement", i, c>>
Verify(i, c) == <<"verify", i, c>>
Integrate(i, c) == <<"integrate", i, c>>
Jobs == {Decompose} \cup ({"implement", "verify", "integrate"} \X Items \X Chains)
Kind(j) == j[1]

ASSUME NullAssumption == NoJob \notin Jobs /\ NoWorker \notin Workers

DependsOn(j) ==
  CASE Kind(j) = "decompose" -> {}
    [] Kind(j) = "implement" -> IF j[3] = Root THEN {Implement(d, Root) : d \in Needs[j[2]]} ELSE {}
    [] Kind(j) = "verify"    -> {Implement(j[2], j[3])}
    [] Kind(j) = "integrate" -> {Verify(j[2], j[3])}

VARIABLES
  st, holder, doing,  \* the job table and what each worker is executing
  findings,           \* findings[i]: the class of each finding raised for i, in order
  closed,             \* closed[i]: the findings of i the ledger has as resolved
  payload,            \* payload[i][c]: the repair finding and wind-down count c carries
  grant,              \* grant[j]: the rounds the latest answered gate of j grants
  green,              \* the items whose merge passed its checks
  phase, demo,        \* the project row, and whether review.demo is enqueued
  lock,               \* the worker whose session holds the integration lock
  run,                \* where each worker is in its handler, and its locals
  faults

table == <<st, holder, doing>>
ledger == <<findings, closed>>
project == <<phase, demo, green>>
vars == <<table, ledger, payload, grant, project, lock, run, faults>>

Table == INSTANCE TaskLease WITH Deps <- [j \in Jobs |-> DependsOn(j)]

Idle == [at |-> "idle", out |-> "ready", open |-> {}, raised |-> 0, arg |-> 0]
Blank == [finding |-> NoFinding, winds |-> 0]

Init ==
  /\ Table!Init
  /\ findings = [i \in Items |-> <<>>]
  /\ closed = [i \in Items |-> {}]
  /\ payload = [i \in Items |-> [c \in Chains |-> Blank]]
  /\ grant = [j \in Jobs |-> 0]
  /\ green = {}
  /\ phase = "BUILD"
  /\ demo = FALSE
  /\ lock = NoWorker
  /\ run = [w \in Workers |-> Idle]
  /\ faults = 0

-----------------------------------------------------------------------------
(* What the handlers read and the moves they share                         *)

At(w, kind, place) == doing[w] # NoJob /\ Kind(doing[w]) = kind /\ run[w].at = place

Item(w) == doing[w][2]
Chain(w) == doing[w][3]
Carried(w) == payload[Item(w)][Chain(w)]

\* Each failing check reads only the findings of its own kind.
Raised(i, class) == {k \in DOMAIN findings[i] : findings[i][k] = class}
OpenFindings(i, class) == Raised(i, class) \ closed[i]

Allowed(j) == IF grant[j] > MaxRounds THEN grant[j] ELSE MaxRounds

Unsettled(j) == st[j] \in {"ready", "leased", "awaiting_human"}
MRemainingUnparked(j) == {k \in Jobs : k # j /\ st[k] \in {"ready", "leased"}}
MRemainingWaiting(j) == {k \in Jobs : k # j /\ st[k] \in {"ready", "awaiting_human"}}
Remaining(j) == {k \in Jobs : k # j /\ Unsettled(k)}

\* enqueue() keeps the row an idempotency key already has.
Enqueue(j) ==
  \/ Table!Offer(j)
  \/ st[j] # "absent" /\ UNCHANGED table

Goto(w, place) == run' = [run EXCEPT ![w].at = place]

\* The handler returns; an integrate job first leaves its try/finally.
Return(w, outcome) ==
  run' = [run EXCEPT ![w].at = IF lock = w THEN "unlock" ELSE "settle", ![w].out = outcome]

NackedAs(j) == {"ready"} \cup (IF Kind(j) \in GivesUp THEN {"failed"} ELSE {})

-----------------------------------------------------------------------------
(* The worker loop                                                         *)

\* The acceptance services end in enqueue_build_decompose.
Kickoff ==
  /\ Table!Offer(Decompose)
  /\ UNCHANGED <<ledger, payload, grant, project, lock, run, faults>>

Claim(w, j) ==
  /\ Table!Grant(w, j)
  /\ run' = [run EXCEPT ![w] = [Idle EXCEPT !.at = "start"]]
  /\ UNCHANGED <<ledger, payload, grant, project, lock, faults>>

\* ack, nack, defer and park only touch the row of the worker's own lease.
Settle(w) ==
  /\ run[w].at = "settle"
  /\ LET j == doing[w]
     IN  \/ Table!Report(w, j) /\ st'[j] = run[w].out
         \/ holder[j] # w /\ Table!Forget(w)
  /\ run' = [run EXCEPT ![w] = Idle]
  /\ UNCHANGED <<ledger, payload, grant, project, lock, faults>>

\* The handler fails or defers before it has written anything: an engine run
\* that does not complete, a diff the reviewer rejects, no capacity.
StopEarly(w) ==
  /\ run[w].at = "start" /\ run[w].arg = 0
  /\ Kind(doing[w]) # "integrate"
  /\ \E s \in NackedAs(doing[w]) : Return(w, s)
  /\ UNCHANGED <<table, ledger, payload, grant, project, lock, faults>>

\* The escalation ladder, the budget or the wind-down limit is exhausted.
ParkImplement(w) ==
  /\ At(w, "implement", "start")
  /\ Return(w, "awaiting_human")
  /\ UNCHANGED <<table, ledger, payload, grant, project, lock, faults>>

\* A human answers the gate of a parked job; where rounds are counted, the
\* answer may grant more.
Answer(j) ==
  /\ Table!Resume(j)
  /\ \E g \in {0, GrantedRounds} : /\ g = 0 \/ Kind(j) \in Classes
                                  /\ grant' = [grant EXCEPT ![j] = g]
  /\ UNCHANGED <<ledger, payload, project, lock, run, faults>>

-----------------------------------------------------------------------------
(* build.decompose and build.implement                                     *)

\* _fan_out: one insert per item, in order; a replay inserts nothing twice.
FanOut(w) ==
  /\ At(w, "decompose", "start")
  /\ run[w].arg < Len(Order)
  /\ Enqueue(Implement(Order[run[w].arg + 1], Root))
  /\ run' = [run EXCEPT ![w].arg = @ + 1]
  /\ UNCHANGED <<ledger, payload, grant, project, lock, faults>>

FannedOut(w) ==
  /\ At(w, "decompose", "start")
  /\ run[w].arg = Len(Order)
  /\ Return(w, "succeeded")
  /\ UNCHANGED <<table, ledger, payload, grant, project, lock, faults>>

MCompleteKeepsOpen(w) ==
  /\ At(w, "implement", "start")
  /\ Goto(w, "built")
  /\ UNCHANGED <<table, ledger, payload, grant, project, lock, faults>>

\* A completed repair session closes its own finding before it is verified.
Complete(w) ==
  /\ At(w, "implement", "start")
  /\ closed' = [closed EXCEPT ![Item(w)] = @ \cup ({Carried(w).finding} \ {NoFinding})]
  /\ Goto(w, "built")
  /\ UNCHANGED <<table, findings, payload, grant, project, lock, faults>>

EnqueueVerify(w) ==
  /\ At(w, "implement", "built")
  /\ Enqueue(Verify(Item(w), Chain(w)))
  /\ Return(w, "succeeded")
  /\ UNCHANGED <<ledger, payload, grant, project, lock, faults>>

\* The engine is asked to stop: the conversation goes to a successor whose key
\* is the item and the number of wind-downs its payload counts.
WindDown(w) ==
  /\ At(w, "implement", "start")
  /\ Carried(w).winds < MaxWinds
  /\ LET n == Carried(w).winds + 1
         next == Implement(Item(w), Wind(n))
     IN  /\ Enqueue(next)
         /\ payload' = IF st[next] = "absent"
                       THEN [payload EXCEPT ![Item(w)][Wind(n)] = [Carried(w) EXCEPT !.winds = n]]
                       ELSE payload
  /\ Return(w, "succeeded")
  /\ UNCHANGED <<ledger, grant, project, lock, faults>>

-----------------------------------------------------------------------------
(* build.integrate holds the branch while it merges                        *)

LockBusy(w) ==
  /\ At(w, "integrate", "start")
  /\ lock # NoWorker
  /\ Return(w, "ready")
  /\ UNCHANGED <<table, ledger, payload, grant, project, lock, faults>>

MTakeLockAlways(w) ==
  /\ At(w, "integrate", "start")
  /\ lock' = w
  /\ Goto(w, "checking")
  /\ UNCHANGED <<table, ledger, payload, grant, project, faults>>

TakeLock(w) ==
  /\ At(w, "integrate", "start")
  /\ lock = NoWorker
  /\ lock' = w
  /\ Goto(w, "checking")
  /\ UNCHANGED <<table, ledger, payload, grant, project, faults>>

Unlock(w) ==
  /\ run[w].at = "unlock"
  /\ lock' = NoWorker
  /\ Goto(w, "settle")
  /\ UNCHANGED <<table, ledger, payload, grant, project, faults>>

-----------------------------------------------------------------------------
(* Checks fail: at most one repair in flight, and a bounded number of them *)

Checking(w) == At(w, "verify", "start") \/ At(w, "integrate", "checking")

\* Gate commands fail, or the merge conflicts, and the ledger is read.
ChecksFail(w) ==
  /\ Checking(w)
  /\ LET class == Kind(doing[w])
     IN  run' = [run EXCEPT ![w].at = "failed",
                            ![w].open = OpenFindings(Item(w), class),
                            ![w].raised = Cardinality(Raised(Item(w), class))]
  /\ UNCHANGED <<table, ledger, payload, grant, project, lock, faults>>

RepairInFlight(w) ==
  /\ run[w].at = "failed"
  /\ run[w].open # {}
  /\ Return(w, "ready")
  /\ UNCHANGED <<table, ledger, payload, grant, project, lock, faults>>

RoundsExhausted(w) ==
  /\ run[w].at = "failed"
  /\ run[w].open = {}
  /\ run[w].raised >= Allowed(doing[w])
  /\ Return(w, "awaiting_human")
  /\ UNCHANGED <<table, ledger, payload, grant, project, lock, faults>>

MRaiseFindingLate(w) ==
  /\ run[w].at = "failed"
  /\ run[w].open = {}
  /\ run[w].raised <= Allowed(doing[w])
  /\ Len(findings[Item(w)]) < MaxFindings
  /\ findings' = [findings EXCEPT ![Item(w)] = Append(@, Kind(doing[w]))]
  /\ run' = [run EXCEPT ![w].at = "raised", ![w].arg = Len(findings'[Item(w)])]
  /\ UNCHANGED <<table, closed, payload, grant, project, lock, faults>>

RaiseFinding(w) ==
  /\ run[w].at = "failed"
  /\ run[w].open = {}
  /\ run[w].raised < Allowed(doing[w])
  /\ Len(findings[Item(w)]) < MaxFindings
  /\ findings' = [findings EXCEPT ![Item(w)] = Append(@, Kind(doing[w]))]
  /\ run' = [run EXCEPT ![w].at = "raised", ![w].arg = Len(findings'[Item(w)])]
  /\ UNCHANGED <<table, closed, payload, grant, project, lock, faults>>

\* The repair's payload is the failing job's, with its finding replaced.
EnqueueRepair(w) ==
  /\ run[w].at = "raised"
  /\ LET k == run[w].arg
     IN  /\ Enqueue(Implement(Item(w), Repair(k)))
         /\ payload' = [payload EXCEPT ![Item(w)][Repair(k)] = [Carried(w) EXCEPT !.finding = k]]
  /\ Return(w, "ready")
  /\ UNCHANGED <<ledger, grant, project, lock, faults>>

-----------------------------------------------------------------------------
(* Checks pass: open findings are closed, and the next step is enqueued    *)

ChecksPass(w) ==
  /\ Checking(w)
  /\ run' = [run EXCEPT ![w].at = "passed",
                        ![w].open = OpenFindings(Item(w), Kind(doing[w]))]
  /\ green' = IF Kind(doing[w]) = "integrate" THEN green \cup {Item(w)} ELSE green
  /\ UNCHANGED <<table, ledger, payload, grant, phase, demo, lock, faults>>

ResolveSeen(w) ==
  /\ run[w].at = "passed"
  /\ closed' = [closed EXCEPT ![Item(w)] = @ \cup run[w].open]
  /\ Goto(w, "resolved")
  /\ UNCHANGED <<table, findings, payload, grant, project, lock, faults>>

EnqueueIntegrate(w) ==
  /\ At(w, "verify", "resolved")
  /\ Enqueue(Integrate(Item(w), Chain(w)))
  /\ Return(w, "succeeded")
  /\ UNCHANGED <<ledger, payload, grant, project, lock, faults>>

\* _maybe_enter_review: count, then compare-and-set the phase, then insert.
CountUnsettled(w) ==
  /\ At(w, "integrate", "resolved")
  /\ \/ Remaining(doing[w]) # {} /\ Return(w, "succeeded")
     \/ Remaining(doing[w]) = {} /\ Goto(w, "last")
  /\ UNCHANGED <<table, ledger, payload, grant, project, lock, faults>>

\* The compare-and-set of the project row; its miss is suppressed by the caller.
Transitioned(expected, to) == IF phase = expected THEN to ELSE phase

MEnterReviewOnce(w) ==
  /\ At(w, "integrate", "last")
  /\ \/ phase = "BUILD" /\ phase' = "REVIEW" /\ Goto(w, "entered")
     \/ phase # "BUILD" /\ UNCHANGED phase /\ Return(w, "succeeded")
  /\ UNCHANGED <<table, ledger, payload, grant, demo, green, lock, faults>>

\* A miss means that somebody else, or this job before a replay, moved on.
EnterReview(w) ==
  /\ At(w, "integrate", "last")
  /\ phase' = Transitioned("BUILD", "REVIEW")
  /\ Goto(w, "entered")
  /\ UNCHANGED <<table, ledger, payload, grant, demo, green, lock, faults>>

EnqueueDemo(w) ==
  /\ At(w, "integrate", "entered")
  /\ demo' = TRUE
  /\ Return(w, "succeeded")
  /\ UNCHANGED <<table, ledger, payload, grant, phase, green, lock, faults>>

-----------------------------------------------------------------------------
(* What goes wrong around the handlers                                     *)

\* Any exception in a handler becomes a nack; the lock is still released.
Raise(w) ==
  /\ faults < MaxFaults
  /\ run[w].at \notin {"idle", "unlock", "settle"}
  /\ \E s \in NackedAs(doing[w]) : Return(w, s)
  /\ faults' = faults + 1
  /\ UNCHANGED <<table, ledger, payload, grant, project, lock>>

\* The process dies; its database session, and the lock with it, goes away.
Crash(w) ==
  /\ faults < MaxFaults
  /\ Table!Forget(w)
  /\ lock' = IF lock = w THEN NoWorker ELSE lock
  /\ run' = [run EXCEPT ![w] = Idle]
  /\ faults' = faults + 1
  /\ UNCHANGED <<ledger, payload, grant, project>>

\* The lease of a dead worker runs out and the job is reaped.
Reap(j) ==
  /\ st[j] = "leased"
  /\ doing[holder[j]] # j
  /\ Table!Revoke({j})
  /\ UNCHANGED <<ledger, payload, grant, project, lock, run, faults>>

\* A stalled worker, or one that `vibey recover` overlooked, goes on without
\* its lease while another worker claims the job.
LoseLease(j) ==
  /\ faults < MaxFaults
  /\ st[j] = "leased"
  /\ doing[holder[j]] = j
  /\ Table!Revoke({j})
  /\ faults' = faults + 1
  /\ UNCHANGED <<ledger, payload, grant, project, lock, run>>

Handle(w) ==
  \/ StopEarly(w) \/ ParkImplement(w)
  \/ FanOut(w) \/ FannedOut(w)
  \/ Complete(w) \/ EnqueueVerify(w) \/ WindDown(w)
  \/ LockBusy(w) \/ TakeLock(w) \/ Unlock(w)
  \/ ChecksFail(w) \/ RepairInFlight(w) \/ RoundsExhausted(w) \/ RaiseFinding(w) \/ EnqueueRepair(w)
  \/ ChecksPass(w) \/ ResolveSeen(w) \/ EnqueueIntegrate(w)
  \/ CountUnsettled(w) \/ EnterReview(w) \/ EnqueueDemo(w)
  \/ Settle(w)

Next ==
  \/ Kickoff
  \/ \E w \in Workers : Handle(w) \/ Raise(w) \/ Crash(w)
  \/ \E w \in Workers, j \in Jobs : Claim(w, j)
  \/ \E j \in Jobs : Answer(j) \/ Reap(j) \/ LoseLease(j)

Spec == Init /\ [][Next]_vars

\* The worker loop keeps running; a job that keeps failing runs out of attempts
\* or is given up by its human, so an engine run that can complete, a check that
\* can be decided and the ready jobs of one kind are not passed over forever.
ClaimsSome(kind) == \E w \in Workers, j \in Jobs : Kind(j) = kind /\ Claim(w, j)

FairSpec ==
  /\ Spec
  /\ WF_vars(Kickoff) /\ WF_vars(\E j \in Jobs : Reap(j))
  /\ \A w \in Workers :
       /\ WF_vars(Handle(w))
       /\ SF_vars(FanOut(w) \/ FannedOut(w))
       /\ SF_vars(Complete(w))
       /\ SF_vars(ChecksFail(w) \/ ChecksPass(w))
  /\ \A kind \in Kinds : SF_vars(ClaimsSome(kind))

-----------------------------------------------------------------------------
(* Properties                                                              *)

Places == {"idle", "start", "built", "checking", "failed", "raised", "passed",
           "resolved", "last", "entered", "unlock", "settle"}

\* Every variable has its type, a worker is in a handler exactly while it has a
\* job, and a finding is only ever closed after it was raised.
TypeOK ==
  /\ st \in [Jobs -> Table!Open \cup Table!Settled \cup {"absent"}]
  /\ holder \in [Jobs -> Workers \cup {NoWorker}]
  /\ doing \in [Workers -> Jobs \cup {NoJob}]
  /\ findings \in [Items -> Seq(Classes)]
  /\ closed \in [Items -> SUBSET Findings]
  /\ \A i \in Items : closed[i] \subseteq DOMAIN findings[i]
  /\ payload \in [Items -> [Chains -> [finding : Findings \cup {NoFinding}, winds : 0 .. MaxWinds]]]
  /\ grant \in [Jobs -> {0, GrantedRounds}]
  /\ green \subseteq Items
  /\ phase \in {"BUILD", "REVIEW"} /\ demo \in BOOLEAN
  /\ lock \in Workers \cup {NoWorker}
  /\ run \in [Workers -> [at : Places, out : Table!Open \cup Table!Settled, open : SUBSET Findings,
                         raised : Nat, arg : Nat]]
  /\ \A w \in Workers : run[w].at = "idle" <=> doing[w] = NoJob
  /\ faults \in 0 .. MaxFaults

\* Two workers never touch the integration branch at once, although a worker
\* whose lease was revoked goes on merging while its job is claimed again: the
\* advisory lock protects the branch where the lease does not.
Merging(w) == doing[w] # NoJob /\ Kind(doing[w]) = "integrate" /\ run[w].at \notin {"start", "settle"}
MergeExclusive == \A v, w \in Workers : Merging(v) /\ Merging(w) => v = w

\* Repairs are bounded: never more integrate findings than the rounds allowed.
IntegrateRoundsBounded ==
  \A i \in Items : Cardinality(Raised(i, "integrate"))
                    <= IF GrantedRounds > MaxRounds THEN GrantedRounds ELSE MaxRounds

\* The project leaves BUILD only after decomposition settled, and every item it
\* names was merged and passed its checks, or a job of it ran out of attempts.
ReviewIsEarned ==
  phase = "REVIEW" =>
    /\ st[Decompose] \in Table!Settled
    /\ \A i \in Items :
         \/ i \in green
         \/ st[Decompose] = "failed"
         \/ \E j \in Jobs \ {Decompose} : j[2] = i /\ st[j] = "failed"

\* As long as nothing goes wrong, nothing of BUILD is left to do when the project is
\* in REVIEW, but for the job whose integrate made it so.
ReviewIsQuiet ==
  faults = 0 /\ phase = "REVIEW" =>
    \A j, k \in Jobs : Unsettled(j) /\ Unsettled(k) => j = k

\* A crash or an exception between the transition and the insert never leaves a
\* project in REVIEW without its first job: a worker is about to insert it, or
\* a job of BUILD is unsettled, and will count again when it is replayed.
ReviewGetsItsDemo ==
  phase = "REVIEW" /\ ~demo => \/ \E w \in Workers : At(w, "integrate", "entered")
                              \/ \E j \in Jobs : Unsettled(j)

\* The repair of a finding, or a successor that carries it on, is still to run, or a
\* worker is about to enqueue it.
InRepair(i, k) ==
  \/ \E c \in Chains : payload[i][c].finding = k /\ Unsettled(Implement(i, c))
  \/ \E w \in Workers : run[w].at = "raised" /\ Item(w) = i /\ run[w].arg = k

\* Its repair ran out of attempts, ...
GivenUp(i, k) == \E c \in Chains : payload[i][c].finding = k /\ st[Implement(i, c)] = "failed"

\* ... or was wound down, and the key of its successor was another's.
Displaced(i, k) ==
  \E c \in Chains :
    /\ payload[i][c].finding = k /\ st[Implement(i, c)] = "succeeded"
    /\ payload[i][c].winds < MaxWinds
    /\ LET n == payload[i][c].winds + 1
       IN  st[Implement(i, Wind(n))] # "absent" /\ payload[i][Wind(n)].finding # k

\* As long as nothing goes wrong, an open finding is being worked on, but for the two
\* ways in which its repair can be lost.
OpenFindingHasRepair ==
  faults = 0 =>
    \A i \in Items : \A k \in DOMAIN findings[i] \ closed[i] :
      InRepair(i, k) \/ GivenUp(i, k) \/ Displaced(i, k)

\* BUILD ends: again and again the project is in REVIEW or waits for its human.
\* After a crash or an exception it may also come to rest in BUILD, with every job
\* done or behind a finding that lost its repair; it still does not spin for ever.
AllDone == st[Decompose] = "succeeded" /\ \A j \in Jobs : st[j] \in {"absent", "succeeded"}
RepairLost == \E i \in Items : \E k \in DOMAIN findings[i] \ closed[i] : ~InRepair(i, k)
BuildEnds ==
  []<>(\/ phase = "REVIEW"
       \/ \E j \in Jobs : st[j] \in {"awaiting_human", "failed"}
       \/ faults > 0 /\ (AllDone \/ RepairLost))
=============================================================================
