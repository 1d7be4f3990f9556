# A verification of vibey's orchestration core

vibey drives coding agents through the phases of a software project (DESIGN,
BUILD, REVIEW, and optionally VISUAL_DESIGN and DEPLOY). Its orchestrator is a
set of stateless workers around a Postgres database: every step is a job row,
every wait for a person is a gate row, everything an agent reports is a ledger
event, and any worker may die between any two statements. The agents themselves
are driven by bundled runners, which loop over turns of a vendor's session. This
directory models the orchestrator, from the kickoff of a project to the end of
its deployment, and one of the runners in TLA+, checks them with TLC and proves
with TLAPS every safety property that a passing run checks.

All source paths below are relative to `src/src/vibey/`, except those of the
runner, which are relative to `src/src/vibey_runners/claude/src/claudeloop/`.

## The system

| Part | State it keeps | Operations | Works with |
|---|---|---|---|
| Job queue (`infrastructure/db/job_repository.py`, `migrations/0003_job.sql`) | `job`, `job_dependency` | enqueue, claim, heartbeat, ack, nack, park, defer, reap, count_unsettled | every handler enqueues; the worker loop does the rest |
| Human gates (`infrastructure/db/human_gate_repository.py`) | `human_gate` | raise, answer, latest_for_job | `answer` releases a parked job |
| Worker loop (`application/worker.py`, `cli/main.py` drive, recover) | none of its own: a JobRecord and an Outcome in memory | run_once, the heartbeat task, reap when idle | queue, gates, one handler per job kind |
| BUILD handlers (`application/build_*_handler.py`) | none of their own | decompose, implement, verify, integrate | queue, ledger, gates, lock, project row, engines, git |
| Ledger (`infrastructure/db/*ledger*.py`) | append-only events | append, read all | open findings, spend, evidence are derived from it |
| Integration lock (`infrastructure/db/advisory_lock.py`) | a session-level advisory lock per project and cycle | try_acquire, release | integrate |
| Ladder and budget (`domain/effort.py`, `domain/budget.py`, `application/budget_source.py`) | nothing: functions of the attempts and the ledger | effort_for_attempt, any_exhausted, would_exceed | implement |
| Wind-down and handoff (`application/wind_down.py`, `rotation_handoff.py`, `domain/noloss.py`) | `handoff` | brief, no-loss gate, successor job | implement, rotation |
| Engine rotation and health (`application/engine_select*.py`, `engine_health_service.py`, `domain/rotation.py`) | `rotation_cursor`, `engine_health` | select, record success, selection, rejection | every engine session |
| Project row and phases (`infrastructure/db/project_repository.py`, `domain/phase.py`) | phase, cycle | compare-and-set, evidence guards | handlers that end a phase, acceptance commands |
| Design (`application/design_handler.py`, `design_acceptance.py`, `kickoff.py`, `visual_*`) | questions, answers and assumptions in the ledger; the spec and inventory stores | interview, synthesis, inventory, acceptance | queue, ledger, gates, project row |
| Review (`application/review_*_handler.py`) | none of their own | demo, collect, triage, deployment choice | queue, ledger, gates, project row |
| Deployment (`application/deploy_*_handler.py`) | one deployment spec and one consent per project | bridge, interview, synthesis, acceptance, execute, demo, triage, routes | queue, ledger, gates, project row, cloud |
| Claude runner (`application/runner.py`, `domain/loop.py`, `domain/waiting.py`) | a state in memory; `meta.json`, an inbox, a session lock, handoff artifacts on disk | preflight, turn, wait, probe, poll, stop, wind down | its vendor, its operator, other runners of the session |
| Adapters | subprocesses, worktrees, cloud resources | - | handlers |

What is hard about it: the statements of a handler commit one by one, so that a
crash leaves any prefix of them behind and the job is run again from its start
(`worker.py`, lines 2 to 5, demands that every handler be idempotent under
replay); a worker that lost its lease does not notice and goes on; several workers
serve one project; people answer at any moment, also twice; several bounds on
paid work (attempts, repair rounds, wind-downs, money) interact with refunds and
with grants; the phase is moved in one statement and the first job of the new phase
inserted in the next; and what belongs to the project alone (a deployment spec, a
consent, a cursor) has one place that every cycle, leg and worker overwrites.
`PROJECT.json` lists each such place with its line under "hazards".

What makes each part correct:

- queue: one worker at a time can record a result; settled means settled;
  dependencies first; attempts are charged for failures only; leases end;
- gates: a parked job can be answered, and a person sees one question per job;
- BUILD: merges exclude each other, repairs are bounded and one at a time, an open
  finding is being worked on, the phase ends exactly when the work has ended, and
  the next phase gets its first job whatever crashes;
- ladder and budget: failed sessions and money are bounded, those of the reviewer
  included, which no brake holds; effort does not drop;
- rotation: every candidate gets its turn, a rejection stands until its deadline, an
  escalation changes the engine;
- design: the human is asked before anything is assumed, and no question that must
  be answered is left behind;
- phases: a project moves along the legal edges only, work of a cycle has the
  spec of that cycle, and a project that is not done has somebody who moves it;
- deployment: what is applied to the cloud is what a human accepted, in the phase
  that is for it;
- runner: one client of a session at a time, commands of the operator are heeded in
  every wait, and the record a run leaves is complete when it says that it is.

## The modules

```
                              TaskLease
        implements  +---------^   ^   ^   ^---------+  uses as its job table
                    |             |   |             |
                JobQueue  BuildPipeline  DeliveryCycle  DeployStages
                                              |             |
                                              +- implement -+
                                              v
                                         PhaseMachine

   DesignInterview      EscalationLadder      EngineRotation      RunLoop
```

Each of these modules of a component has a module of its name with `Proofs` after it,
which extends it and holds its theorems.
Each module of a component has an `MC` module that gives its constants values.
`DeliveryCycle` is the composition: `DesignInterview` is its job "interview" in
detail, `BuildPipeline` what happens between its "decompose" and its
"integrate", and `DeployStages` what follows the phase DEPLOY in which it ends.
Definitions whose names start with M are mutations of the code, each
used to show that a property can fail.

### TaskLease

The abstract specification of the job table: a task is granted to one worker, the
holder alone can report, a grant may be revoked at any moment, a late report is
forgotten.

### JobQueue

One action per committed statement or transaction. `state`, `owner`, `lease`,
`due`, `attempts` are columns of `job`; `raised[j]` counts the gate rows of a job and
`answered[j]` those with an answer; `pc`, `work`, `outcome` are where each
`WorkerLoop` is in `run_once`, its JobRecord and its Outcome. The clock appears
only as what SQL compares with `now()`: a lease is live or expired, a job is due or
not. A settle of a `Park` is three statements and three actions (`CheckGate`,
`RaiseGate`, `Park`). `Handle` is any handler, as the loop sees it; a job in
`Askers` has a handler that raises its own gate first, as `review.collect` and the
deployment gates do. Every settle has two outcomes: the WHERE clause matches the
owner string, or it does not and the worker goes on without noticing (`Fenced`).
`claimant`, `nacks`, `losses` are history variables for the properties.

### BuildPipeline

The BUILD phase of one cycle, over the job table as `TaskLease` states it
(`Table == INSTANCE TaskLease`): that is sound because `JobQueue` implements
`TaskLease`. `run[w]` is where worker w is in its handler, with its local variables;
every ledger event, insert and project update is an action, so that
`Crash`, `Raise` (an exception) and `LoseLease` can fall between any two of them. A
*chain* is the implement, verify and integrate job that stem from one
idempotency key: of the item, of a repair, or of a wind-down successor. Engines, gate
commands and merges succeed or fail nondeterministically (`ChecksPass`,
`ChecksFail`, `StopEarly`). Several findings are resolved in one action
(`ResolveSeen`): a crash between two resolutions leaves some of them open, which the
replayed job then resolves, as it does when it crashes before the first.

### EscalationLadder

What BUILD spends: `build.implement` with its two brakes, the real ladder of
`domain/effort.py` and one budget that all jobs share, and `build.verify`, whose
reviewer's session counts in the same ledger (`build_engine_run.py` records both, and
`budget_source.py` sums the cycle) and reads no budget. A verify is inserted when its
implement job completes, claimed when that succeeded, and its attempts are those of
`nack`: a failing check gives one back, a review that does not approve costs one. What
DESIGN spent in the cycle (`_build_spend_recorder`) is there from the start. `answer[j]`
is the latest answered gate of a job, the only one the code reads. A session's cost
reaches the ledger when the session ends. `max_attempts` is 7, which no caller changes.

### DesignInterview

One `design.interview` job. `turn` is the stage of the handler's loop, and it starts
from the first on every claim: what the handler knows is the ledger (`asked`,
`answered`, `assumed`) and the latest gate of the job, whichever stage raised it.
Every event it appends is an action (`Ask`, `RecordAnswer`, `Assume`), so is every
job it inserts at the end (`EnqueueFollowup`), and `Crash` falls between any two.
`passedOver` is the history of what a human saw in a gate and left open; `skips`, any
set of optional questions, is what this human always leaves open. The handler
recognises the gate of a stage by the stage's name anywhere in its prompt
(`design_handler.py`, line 62); the model compares stages, which is the same as long as
no question's own words spell the name of another stage.

### PhaseMachine

The abstract specification of the project row: the edges of `domain/phase.py`, of
which `ABANDONED` has no writer, and the one place where the cycle changes.

### DeliveryCycle

The project row, the design and visual stores, the open findings and every job of a
cycle from kickoff to DONE or to DEPLOY. Handlers and commands (`cli`) are sequences
of committed statements: where the code moves the phase and then inserts the first
job of the next one, that is two actions with a fault possible in between. The
compare-and-set looks at the phase alone (`Transition`), as `project_repository.py` does.
A job of a kind and a cycle is one element of `Jobs`, which is what the idempotency
keys make of it; the interview of a loop-back has a key of its own.

### DeployStages

The legs of a deployment. `dspec`, `consent` and `elicited` have one place per
project, as in the code; a route starts the next leg, whose jobs have other keys
but the same places. `accepted` remembers what was stored when a human said yes,
`again` which jobs were handed back to be run a second time.

### EngineRotation

`application/engine_selection.py` and `domain/rotation.py` with integer currents:
`Look` reads the health rows, `ReadCursors` the cursors, `Advance` writes them, and
`GetSelected` and `RecordSelection` read a health row and write the whole of it
back (and the engine into the job's row, a statement of its own in the code, which
nobody else reads in between); `Succeed`, `Reject` and `Fail` are the outcomes of the job. `circuit` has a
third value, "due", for an open circuit whose deadline has passed. Weights are those
of the code's formula in quarters, rounded as `round()` does, with decay, fidelity
and cost at 1. `lost` counts the selections that wrote over cursors another worker
had changed, and the arithmetic properties are about the time before the first one.

### RunLoop

`run`, `_run_loop` and the two ends of `application/runner.py`, over the state
machine of `domain/loop.py`. `pc` is where the process is; `decision` and `phase` are
those of the loop's state; `accepted`, `rejected` and `waited` are its budget and wait.
The vendor answers each turn and probe as it likes (`Capacity`), the operator drops
files into the inbox at any moment (`Command`), and a rival resumes the same session
and leaves it (`RivalTakes`, `RivalLeaves`), as another runner may. A batch of the inbox
is one action (`Poll`), with the precedence the code gives to commands of one batch.
`asked` is what the operator may expect of each half of the profile: a command that has
its batch to itself, until one names the half again.
The end of a run is a path of steps (`Path`), and `Raise` and `Kill` fall anywhere.
`rejected` saturates at `MaxTurns`, beyond which the budget tells nothing apart.

## What the runs check

| Configuration | Instance | States | Shows |
|---|---|---|---|
| `JobQueue_leases` | 2 workers, 2 dependent jobs, 2 attempts, 1 fault, fairness | 92 k | dependency order, accounting of attempts, bounded retries, gates of parked jobs, the refinement of TaskLease, and that every lease ends |
| `Build_faults` | 1 item, 2 workers, 2 findings, 1 fault | 628 k | merges exclude each other, one bounded round of repairs at a time, REVIEW is earned |
| `Build_repairs` | 2 items, the second needs the first; 2 findings and 1 wind-down of the first, implement jobs that fail for good, no fault | 1.2 M | open findings are worked on, but for two named ways to lose a repair; nothing is left of BUILD when REVIEW is entered |
| `Build_restart` | 1 worker, 2 findings, 2 faults, fairness | 137 k | `review.demo` is not lost between the transition and the insert; BUILD ends in REVIEW, with its human, or at rest after a fault |
| `Ladder_brakes` | 2 workers, 2 items with an implement and a verify job each, 1 crash, a projection, grants | 3.9 M | overspend is one session per worker and the reviewer's, reviews and failed sessions are bounded, effort never drops |
| `Interview_stages` | 3 stages, 5 questions, 2 crashes, fairness | 32 k | no blocking question is left, nothing is assumed unasked, stages come in order, the interview ends or an optional question of an early stage holds it |
| `Delivery_flow` | 2 cycles, 1 worker, 1 fault of any kind, fairness | 311 k | work has a spec, DONE has no open finding, only a fault strands a project or lets a loop-back repeat a cycle, the refinement of PhaseMachine, reviews without findings end |
| `Deploy_faults` | 2 targets, 2 legs, 1 worker, 1 fault, fairness | 526 k | the cloud gets what was accepted and only in DEPLOY_EXECUTE unless certain jobs run twice, the refinement of PhaseMachine; without a fault a deployment ends, by way of refusals, broken clouds, triage and its routes |
| `Rotation` | 2 engines, 2 workers, 3 attempts, 1 crash | 6.8 M | cursors cancel out, no engine waits for more than 2 selections, escalations change the engine, rejections stand |
| `Run_loop` | 2 turns, 2 units of wait, 3 commands, 1 exception or kill, fairness | 1.4 M | one client of a session, a complete handoff record, wind-downs, lone commands about the profile and stops are heeded |

Runs that show a disagreement between the code and what the repository says of
it; each is a finding in `PROJECT.json` with the quoted line:

| Configuration | Property | What happens |
|---|---|---|
| `JobQueue_lost_wakeup` | `ParkedIsAnswerable` | an answer between `raise_gate` and `park` is lost, the job stays parked |
| `Deploy_replay` | `DeployedAsAccepted` | an acceptance that is replayed a leg later binds the old answer to the new spec |

The models contain further behaviour of the same kind that no configuration is
spent on. Each item below is a behaviour of a model; where the repository says
otherwise, the place is named.

Job queue and BUILD:

- `reap` looks at no limit (`job_repository.py`, line 226): in `JobQueue` a job
  whose worker keeps dying starts more often than `MaxAttempts`. `RetriesBounded`
  therefore counts lost leases apart.
- A worker that lost its lease runs `CheckGate` and `RaiseGate` all the same, and a
  job can then have two open gates.
- Two verify jobs of one item can both start a repair, and two repairs of one item
  that both wind down compute the same key (`wind_down.py`, line 199): the insert of the
  second successor is a conflict, and its finding stays open with nobody at work on it.
  `OpenFindingHasRepair` names this exception (`Displaced`) and that of a repair that
  failed for good (`GivenUp`), and `FindingsAreRepaired` proves that there is no third.
- A crash between a finding and the insert of its repair leaves a verify job that
  defers for ever; a crash inside decompose leaves BUILD at rest with some of its
  items.
- Two last integrates can each see the other unsettled, and the project then stays in
  BUILD; with two workers and a crash in between, `review.demo` can be lost the same
  way. `ReviewGetsItsDemo` holds for one worker only, hence the bound of `Build_restart`.
- An item that failed for good does not keep the project out of REVIEW.
- Neither brake holds the reviewer's session of `build.verify` (`build_verify_handler.py`,
  lines 178 to 187), which counts in the same ledger; a comment says that no engine
  session starts once the cycle's spend crosses its cap (`build_implement_handler.py`,
  line 140). `SpendBounded` adds these sessions to the bound, and `SpendEnds` proves how
  many there can be.
- Both brakes of `build.implement` read one `latest_for_job`: the answer of a budget
  gate hides the attempts an earlier gate granted, and the granted cap is read only
  when the configured one is exhausted, not when the projection alone exceeds it.
  The first granted attempt that fails is terminal.

Phases and design:

- A human who always leaves one optional question of an early stage open is asked again
  after every later gate, and the interview never ends (`design_handler.py`, line 61;
  `docs/plans/phase-protocols.md`, line 142, promises a recorded assumption, with which
  the phase goes on). `InterviewEnds` states this exception (`HeldBy`): such a question is
  assumed, as promised, and holds the interview all the same.
- A crash between a transition and the insert that follows it strands the project at
  the acceptance of a design and at a triage: the compare-and-set of the replay misses
  and is not tolerated (`docs/plans/architecture-and-roadmap.md`, lines 99 to 101: every
  job type must be safe to run twice). `StrandedOnlyByFault` says that nothing
  else does.
- A triage of cycle 1 that is replayed in the review of cycle 2 loops back without
  increasing the cycle, since the compare-and-set does not look at it; likewise a stale
  integrate of cycle 1 can end the BUILD of cycle 2.
- A user's findings are resolved by nobody: after one "changes" with feedback
  every later triage loops back. "changes" without feedback is an acceptance.
- A second kickoff in the DESIGN of a later cycle adds a second interview.
- `max_cycles` is not enforced at a loop-back.

Deployment:

- A failed `deploy.execute` moves the phase, inserts the triage and then reports a
  failure, so that it is run again beside the leg its triage starts. If that leg has just
  moved the phase to execute, the retry can take it to review, where its own triage is
  settled: the new leg then misses its transition and nothing is left to run.
  `DeployEnds` excepts this (`TriagedInVain`).
- An exception at the insert of the demo, after the transition to review, is recorded as a
  broken deployment, whose triage is then not inserted either: the project stays there.
- The route to a code fix goes to DESIGN in the same cycle without a job.
- A rejected spec is retried until it fails for good.
- An interview that is run a second time while its first copy is still at work can leave
  another answer behind, and a synthesis that is run a second time stores it after the
  human accepted the first one. It takes three workers and three lost leases, and
  `DeployedAsAcceptedOnce` makes the exception explicit.

Rotation:

- The claim that no engine starves within the sum of the weights
  (`docs/plans/architecture-and-roadmap.md`, lines 773 and 1194) does not hold from
  cursors that a change of membership left behind: of three engines with weights 2, 1
  and 1 one can lose four selections in a row. What does hold is a bound in the number
  of engines and the largest base weight (`NobodyStarves`). `MaxWait` in `Rotation` is that
  of two engines of base weight 1 (`PairStarvesNobody`), and is tight.
- Two overlapping selections read the same cursors, and one update is lost
  (ADR-0005 admits it; `rotation_cursor_repository.py`, line 4, says transactional).
- The record of a selection writes a whole health row from an earlier read and can
  close a circuit that a rejection opened in between.
- After a refunded deferral an escalation excludes the engine that rejected, not
  the one that failed (ADR-0007).

Runner:

- `max_turns` is looked at only after an accepted turn: turns that are rejected after a
  granted probe exceed it, and each starts a wait of its own.
- Two clients can drive one session in the first turn of a new session, whose lock is
  only taken when its id is known, and while an exception closes the client after the
  lock was released (`runner.py`, line 867). `OneDriver` states exactly these exceptions
  to what the runner's `docs/plans/architecture-and-roadmap.md` says in line 142.
- A killed run leaves its lock file, and nothing breaks it.
- A wind-down does not break a wait for capacity, as its docstring says it does
  (`domain/control.py`, lines 30 to 33): `_sleep_interruptible` (`runner.py`, line 1221) returns
  early for a stop only. The wait is slept to its end, a turn is sent, and then the run
  ends; `WindDownHonoured` is about what holds of that.
- Of `set_preset`, `set_model` and `set_effort` in one batch only the last in this order is
  followed, whichever came last (`domain/control.py`, line 208, and `runner.py`, line 943), a
  batch with a wind-down drops all three, and one that comes before the turn that the
  earlier one was meant for replaces it: `set_model` and then `set_effort` loses the model.
  The docstrings (`domain/control.py`, lines 62, 73 and 83) promise each from the next turn
  on. `LastCommandInForce` is about the commands that are not lost in these ways.
- A turn that tells no session id leaves the session without its lock (`runner.py`, line
  491): the next turn runs without it as well.
- A stop that is polled after the run has finished its work still reports "stopped".

### Bounds and why they are enough

Two workers are enough for every interleaving of two handlers and for a worker
without its lease beside the new owner; the properties relate at most two of them.
Two jobs give one dependency; two attempts give a first failure and a terminal one;
one gate beyond the first gives an answered and an open one. Two findings of an item
give a repair of a repair, or one of verify and one of integrate; one wind-down gives
a successor. The
ladder is the real one, and `max_attempts` 7 takes a job past it to a grant. Counters end with named bounds: `MaxFaults`
(crashes, exceptions, lost leases, recoveries, second answers), `MaxGates`
(parks that a handler which is not an asker chooses), `MaxFindings`. `attempts` needs
none: what raises it without bound is a fault, or a nack that ends at `MaxAttempts`.

`OpenFindingHasRepair` and `ReviewIsQuiet` are about runs without faults: a crash can
lose a repair for good, and a lost lease leaves its job to be replayed after the project
has moved on. `Build_repairs` leaves the second item, which waits for the first, without
findings and wind-downs (`FirstItemOnly`, a constraint): repairs of one item do not look at
another's. Two findings of the first are what two verify jobs at once and a collision of
their successors take. In `Build_faults` only verify may fail for good
(`GivesUp`): that is the failure that a repair is made of. Rounds granted by the human
are 0 in the BUILD runs: a grant raises the bound and changes nothing else.

`EscalationLadder` lets one item go through its whole ladder and all its reviews; the
other is there to spend at the same time, in its first attempts (`OneLongTask`, a
constraint, which sees the sessions of two workers end in any order). The theorems are
for any number of items and attempts. Workers are symmetric, and no property of the run
tells them apart.

`DeliveryCycle` and `DeployStages` have one worker and one fault. Their jobs form a
chain, so that a second worker finds a job only where a fault has left one behind; the
stale job beside the new owner is there with one worker as well, since `LoseLease`
hands the job out again while its handler still runs. Two cycles and two legs are what a
late job of an earlier one needs. One automated and one human finding give both
branches of triage.

`DesignInterview` has three stages, so that a gate can be of an earlier, the same or a
later stage than the one that is looked at, with and without optional questions; every
choice of those that its human always leaves open is an initial state.

`EngineRotation` has two engines of equal base weight, which the circuit and the warm
session make differ, and explores states until two
selections have overlapped (`NoOverlapYet`, a constraint; `Balanced` and `NoStarvation`
say what holds until then). Three attempts reach the second tier of the ladder.

`RunLoop` has two turns, so that a turn can follow the one a wind-down came in, two
units of waiting, so that a probe can be rejected and a later one granted, and three
commands: two that meet in one batch or one slot, and one after them.

Deadlock checking is off where the system really ends: BUILD, the ladder's jobs,
the interview, a delivery, a deployment, a run. `JobQueue` and `EngineRotation` never
stop and are checked for deadlock.

### Fairness

`JobQueue!Fairness`: workers keep stepping, since the drive loop has no exit but the
drain and Kubernetes restarts a dead pod; a worker whose claims keep coming back
empty does reach the idle branch (strong fairness, since a worker that has just
settled claims again); clocks advance; somebody answers open gates.

`BuildPipeline!FairSpec`: the kickoff is given, leases are reaped, handlers go on (weak);
decompose produces items and an engine session that can complete and a check that can
be decided are not passed over for ever (strong), since a job that keeps failing
runs out of attempts; ready jobs of each kind are claimed (strong: claim orders by
`run_after`).

`DesignInterview!FairSpec`: the job is claimed, its handler goes on and its human
answers (weak), and of the gates of a stage that are raised again and again one is
answered in full, but for what this human always leaves open (strong; nothing in the code
makes a person answer, and `InterviewEnds` is about the handler, given one who does).

`DeliveryCycle!FairSpec`, `DeployStages!FairSpec`: commands are given, handlers go on,
ready jobs are claimed, gates answered and leases reaped (weak, job by job). In
`DeployStages` a job that keeps failing runs out of its attempts (strong,
`OutOfAttempts`): the model does not count them, `nack` does. Of the cloud and of what a
human answers nothing is assumed.

`RunLoop!FairSpec`: the process goes on, and each call to the vendor returns, with
whatever answer. Nothing is assumed of the operator, the rival or what the vendor says.

No fairness is assumed of crashes, exceptions, lost leases or kills anywhere.

## What is proved

`JobQueueProofs`, for every set of jobs, workers and owners, every dependency relation
and every bound, from `QueueAssumption` (the types of the constants: nothing but what
the callers of `WorkerLoop` and `enqueue` pass):

- `Invariance`: the conjunction of `TypeOK`, `LeaseConsistent`,
  `DependenciesFirst`, `AttemptAccounting`, `RetriesBounded`, `ParkedHasGate` and
  what a worker in the middle of `run_once` knows is inductive. None of the parts is
  inductive alone: that an acknowledged job's dependencies succeeded rests on the row
  being leased, which rests on the owner string; that a parked job has a gate rests on
  the place of the worker that is about to park it. The proof goes action by action,
  and within an action by the parts it can disturb.
- `TypeCorrect`, `LeasesConsistent`, `DependenciesComeFirst`, `AttemptsAccounted`,
  `RetriesAreBounded`, `ParkedJobsHaveGates`: the six parts as theorems of `Spec`.
- `SettledIsFinal`: the action property, from the invariant: every statement that
  changes a row requires it to be ready, leased or parked.
- `QueueImplementsTaskLease`: the refinement, step by step, under
  `OwnersDistinct`. This assumption is not idle: the owner string is
  `worker-<pid>-<i>` (`cli/main.py`, line 1405), and two pods may well run with the
  same pid. With equal strings the WHERE clauses fence nothing, and a worker can
  settle the lease of another one.

`DesignInterviewProofs`, for every number of stages, every batch, every choice of
questions that must be answered and of what a human leaves open, any number of crashes:

- `TypeCorrect`: the type invariant, inductive with what a handler that is in a
  stage knows of the earlier ones.
- `NothingAssumedUnasked` (`AssumedWasPassedOver`): an assumption is only recorded for a
  question that a human saw in a gate and left open. The invariant ties the latest gate,
  if it was answered, to that history.
- `StagesComeInOrder` (`StagesInOrder`): a stage is asked only when the earlier ones
  have no question open; it rests on the batch of a stage staying as it was
  proposed while it is being recorded.
- `NoBlockerIsLeft` (`NoBlockerLeftBehind`): with a follow-up job in the table, no
  question that must be answered is open.

`RunLoopProofs`, for every budget and wait, any vendor, operator and rival, and any
number of exceptions and kills, from `LimitAssumption` (both limits are positive, as
the configuration requires):

- `TypeCorrect`, which contains that accepted turns never exceed `max_turns`; it rests
  on `Budgeted`: whatever is decided while turns may still be sent leaves room for one.
- `OneClient` (`OneDriver`): from `Driven`, which says that a process that knows its
  session holds the lock everywhere but at its start and its ends.
- `MarkedIsComplete` (`MarkerIsComplete`): from `Recorded`, which puts each place of an end on
  the path of its decision, with what the earlier places wrote.
- `WindDownsAreHonoured` (`WindDownHonoured`): a wind-down that was heard is held, and the
  decision after the next accepted turn is one of an end.
- `LastCommandStands` (`LastCommandInForce`): a command that comes alone is pending or in
  force until its half of the profile is named again (`Profiled`), through every batch, wait
  and rejection, since a command locks the policy out and the other half is kept.

`EscalationLadderProofs`, for any items, workers, caps, costs, grants and number of
crashes, from `LadderAssumption` (amounts are natural numbers, `max_attempts` is not 0,
workers and items are finitely many). The ladder itself is the real one:

- `TypeCorrect`.
- `SpendIsBounded` (`SpendBounded`): what is spent exceeds the largest cap that anybody
  set, and what DESIGN had spent, by one session of each worker and by the reviewer's at
  most, and a verify has no more reviews than `max_attempts` and the crashes. The invariant
  adds to what is spent the cost of the sessions that run (`Affordable`), as a cardinality,
  since each of them passed the check before the others' cost reached the ledger; a
  review is paid for with an attempt that is not given back (`Reviewing`), and attempts
  end at the maximum but for those a crash took (`Retrying`).
- `SpendEnds`: so the cycle's spend has a bound in the constants alone: the caps, and a
  session for each worker and for each attempt that the verify jobs may be given.
- `WasteIsBounded` (`WasteBounded`): the sessions of a job that did not complete are
  fewer than the attempts its row counts (`Paying`), and a session starts only with an
  attempt on the ladder or granted (`Licensed`).
- `EffortClimbs` (`EffortNeverDrops`): the effort of a job is at most the rung of its
  attempts, and the rungs rise.

`BuildPipelineProofs`, for every plan of items and dependencies, any workers, rounds,
wind-downs, crashes, exceptions and lost leases, from `RoundsAssumption`,
`ItemsAssumption` (the plan is a sequence of exactly the items, which is what decompose
parses) and `NullAssumption`:

- `Invariance`. What a handler still has to do is not in the job table; so the invariant
  says of each place in a handler what was committed on the way there (`Placed`,
  `Informed`, `Advanced`), and of each row that succeeded what its handler left behind
  (`Followed`). Without `Followed`, the count of unsettled jobs says nothing about the
  items; without `Informed`, the number of rounds that integrate read before it
  raised a finding could be stale.
- `TypeCorrect`.
- `MergesAlone` (`MergeExclusive`): from `Held`, which ties the lock to the places of
  integrate that touch the branch. Leases play no part in it: they may all be lost.
- `RoundsAreBounded` (`IntegrateRoundsBounded`): only the holder of the lock raises an
  integrate finding, hence the number it has read is still the number there is.
- `ReviewEarned` (`ReviewIsEarned`): when nothing is unsettled, the chain of each item is
  followed from its root to its end, by the greatest wind-down that is in the table.
- `UsesTable`: BUILD steps the job table only as `TaskLease!Spec` does, so that what
  `QueueImplementsTaskLease` proves of the queue is what BUILD assumes of it.
- `ReviewStaysQuiet` (`ReviewIsQuiet`), from `Quiet`, which holds while `faults = 0`: a
  lease and its holder agree (`Agreed`), a worker that has counted nothing unsettled beside
  its own job (`Counted`) has the only one that is left (`OnlyJob`), and in REVIEW an
  unsettled job is that of a worker that counted so and is about to settle it (`Closing`).
- `FindingsAreRepaired` (`OpenFindingHasRepair`), from `Mending`: no two workers are
  about to give the same finding its repair (`RaisedOnce`), and a chain whose implement
  succeeded has closed its finding or was wound down (`Mended`). While `faults = 0` an open
  finding moreover was just raised, or some chain carries it (`Tracked`). Of the chains
  that carry it one was wound down most often (`LastCarrier`): it is at work, has failed
  for good, or found the key of its successor taken.
- `DemoOrBlemish`: with one worker, whatever the faults, a review has its demo or something
  that will count again, unless a job failed for good or a session was wound down.
  `Concluding` says that the worker that leaves its handler with success leaves something
  to be counted. `DemoIsNotLost` (`ReviewGetsItsDemo`) is the case of `Build_restart`,
  where neither can happen. One worker is needed: with two, the demo can be lost (above).

`DeliveryCycleProofs`, for any number of cycles, workers, findings and faults, from
`CycleAssumption`, `RepliesAssumption` (the answers a review gate takes) and
`NullAssumption`. The invariant has two parts, since most of what this component promises
holds only as long as each job runs once. `Basis` holds whatever goes wrong. `Course` holds
while `faults = 0`: BUILD and REVIEW of a cycle are one line of jobs, of which one is at
work (`InOrder`), at the phase of the project row (`InPhase`); other cycles are over or
untouched (`Elsewhere`); who moved the row is about to insert what follows (`Pending`):

- `TypeCorrect`, `WorkIsSpecified` (`WorkHasSpec`) and `ImplementsMachine`
  (`ImplementsPhaseMachine`) from `Basis`, for any number of faults;
- `DoneClean` (`DoneIsClean`), `NotStrandedWithoutFault` (`StrandedOnlyByFault`) and
  `LoopBacksAdvance` (`LoopBackAdvances`) from `Course`: with as many workers as one likes
  nothing but a fault can do what these forbid;
- `UsesTable`, as for BUILD: handlers and commands step the job table as `TaskLease!Spec`
  does.

`DeployStagesProofs`, for any number of legs, workers, targets and faults, from
`ScopeAssumption`, `LegAssumption` (the keys of a leg derive from the route that starts it,
so no two routes start the same one: `deploy_review_routing.py`), `FaultAssumption` and
`NullAssumption`. The invariant is in layers, each under the weakest condition on which
jobs were handed back to run again: `Basis` always; `Sound`, what at most one fault can
do; `Single`, one leg is the last and it alone is applied, unless an execution runs
again; `Designs`, one leg is being designed, in DEPLOY_DESIGN, unless an acceptance runs
again; and `Accepts`, what the human of that leg saw is what is stored:

- `TypeCorrect` and `ImplementsMachine` (`ImplementsPhaseMachine`), for any faults;
- `AcceptedIsDeployed` (`DeployedAsAcceptedOnce`). The property used to except
  acceptances alone, as the run with one worker permits. Checking the candidate invariant
  with three workers and three faults refuted that: a stale interview answers "here" after
  the first answered "there", the acceptance is of "here", and then the second runs of the
  interview and of the synthesis store "there", which the acceptance consents to. Both
  must run again for that, and the property now says so;
- `AppliedInExecute` (`AppliesInExecute`), from `Single`;
- `NotStrandedWithoutReplay` (`StrandedOnlyByReplay`): every job that succeeded has left
  something behind that goes on (`Followed`), and there is always a last leg;
- `UsesTable`: every step of the job table is one of `TaskLease`. The initial states are
  not, since a deployment starts with the bridge in its table.

`EngineRotationProofs`, for any finite rotation with any positive base weights, any
workers and bounds, from `EngineAssumption`, `WeightAssumption`, `OrderAssumption` (the
places in the rotation differ) and `BoundAssumption`:

- `SubsetInduction`, `SumUnfolds`, `SumRemoves`, `SumAdds`, `SumSplits`,
  `PaymentBalances`: what a sum over a finite set is. The library defines it as a fold by
  recursion over the subsets. That this recursion defines a function, and each of
  these facts, needs induction; the induction theorems of the library take an operator, so
  each is instead derived from the least element of a set of numbers (`WFMin`), with the
  statement as a set of subsets.
- `TypeCorrect`: with that a total weight is a number.
- `CursorsBalance` (`Balanced`): what the winner pays is what the candidates gained.
- `EscalationChangesEngine` (`EscalationRotates`): from `Runs` (the engine that failed last
  is the one that the row names) and `Admits` (who was selected is not excluded),
  which have to be carried from the reading of the health rows to the run.
- `RejectedStaysOut` (`RejectionStands`).
- `NobodyStarves` (`NoStarvation`), for n engines of base weights up to m, when `MaxWait` is
  at least 4 m (n - 1). That the cursors sum to 0 bounds none of them, since the set of
  candidates changes from one selection to the next and a long history might push one
  ever further. What is inductive is a bound for every group of engines at once
  (`Spread`): with w = 2 m, the largest weight there can be, the cursors of any k of
  the n engines sum to at most w k (n - k). If the winner is in the group, the sum does not
  grow. If it is not, the candidates in the group are each behind the winner, so
  that their sum is bounded by that of the group with the winner and of the group without
  the candidates, and these two bounds average to exactly the one that is to be shown
  (`SpreadBound`, `SelectionSpreads`). A candidate that loses gains at least 1, since no
  weight is rounded to 0 (`WeightWithin`), so it has never lost more often than its
  cursor has risen from the lowest it can be (`Patient`).
- `PairStarvesNobody` (`NoStarvation`), for two engines, when `MaxWait` is at least
  m + 3 m div 2: of two weights one at most is doubled (`Weighted`), and who loses had a
  cursor below m (`Close`). Its hypothesis is what `Rotation` has for m = 1.

The theorems hold for all constants that meet the named assumptions and the hypotheses
given here.

Only model-checked, and why: `LeaseReturned`, `BuildEnds`, `InterviewEnds`,
`DeliveryEnds`, `DeployEnds` and `StopIsHeard`, since liveness under fairness is out of
the prover's reach. Every invariant, action property and refinement that a passing run
checks is a theorem. The hypotheses that a theorem has beyond the assumptions of its
module are: distinct owner strings (`QueueImplementsTaskLease`), one worker
(`DemoOrBlemish`, `DemoIsNotLost`), and a bound on the base weights
(`NobodyStarves`, `PairStarvesNobody`). No module declares a RECURSIVE operator, so each of
them can be proved about.

## Not modelled

- the brief of a handoff and the no-loss gate over it (`domain/noloss.py`): in
  `BuildPipeline` a wind-down has its successor and its key, not its content;
- the vendors' command lines, as the orchestrator's engine adapters call them,
  worktrees, cloud, operator, notifications, telemetry, dashboard: their results are
  nondeterministic choices, or they only print;
- the content of briefs, prompts, specs and verdicts;
- priorities and the order of claims; retry delays beyond "not yet due";
- the decay of an engine's failures, its fidelity and its cost, which scale weights;
- a database connection that drops under a live process, which would release the
  advisory lock in the middle of a merge (`advisory_lock.py`, line 39);
- the wirings of handlers that only tests use (no ledger reader, no lock);
- of the Claude runner: prompts, resources and session settings of the inbox, which are
  held for a later turn in the way the profile is; the plan; dollars; attempts; the
  attach to a detached run;
- the other bundled runners (`vibey_runners/agy`, `codex`, `cursor` and the rest), which
  drive their vendors with loops of the same shape, and `vibey_tools` (the GitHub automation,
  the skills engine), which are programs of their own that share no state with the
  orchestrator.

The repository has 96 thousand lines in 815 files, most of them adapters, runners, tools,
command lines and rendering. What is modelled is the part that keeps shared state and
can be interleaved, crashed and replayed; the share of the lines is small for that
reason, not because a modelled handler is left half done.

## Plan

1. `HandoffGate`: the no-loss gate of `domain/noloss.py` over small ledgers, against
   a reference definition of what is lost.
2. The automation of pull requests in `vibey_tools/gh`, whose retries and merge queue are
   a state machine of their own.
3. `RejectionStands` without its exception, for a health row that is written as a
   compare-and-set, as a statement of what such a change would gain.
