---------------------------- MODULE DeliveryCycle ----------------------------
(***************************************************************************)
(* A project from its kickoff to DONE, or to the door of its deployment:   *)
(* design, the optional visual design, build, review, and the review that  *)
(* loops back into another cycle of design or build.                       *)
(*                                                                         *)
(* Three kinds of actor move it: workers that run jobs of the table        *)
(* (TaskLease), the human at the command line, and the human who answers   *)
(* the gates of parked jobs.  Each statement a handler or a command        *)
(* commits is an action of its own, and what has been committed stays when *)
(* its process dies.                                                       *)
(*                                                                         *)
(* The interview is DesignInterview's in detail and BUILD is               *)
(* BuildPipeline's: here one job elicits, and one integrate job, the last  *)
(* of its cycle, ends BUILD.  design.research, design.spec and visual.plan *)
(* write documents only and are left out.                                  *)
(*                                                                         *)
(* Definitions named M... are plausible faults; no action uses them.       *)
(***************************************************************************)
EXTENDS Naturals

CONSTANTS
  Workers, NoJob, NoWorker,
  Automated,   \* the findings the automated review may raise
  Vague,       \* the findings whose triage needs clarification
  Replies,     \* what a human may answer to review.collect
  MaxCycle,    \* bound: cycles, and the project's own limit of them
  FaultKinds,  \* which faults happen: "crash", "raise", "lease", "command"
  MaxFaults    \* bound: faults

ASSUME CycleAssumption == MaxCycle \in Nat \ {0} /\ MaxFaults \in Nat
ASSUME RepliesAssumption == Replies \subseteq {"accept", "changes", "question", "cancel"}

Cycles == 1 .. MaxCycle
FromUser == "user"      \* a finding from the human's own feedback
Findings == Automated \cup {FromUser}

\* The jobs of each cycle; the interview of a loop-back has a key of its own.
Interview(c, origin) == <<"interview", c, origin>>
Synthesize(c) == <<"synthesize", c>>
Inventory(c) == <<"inventory", c>>
Decompose(c) == <<"decompose", c>>
Plan(c) == <<"plan", c>>
Integrate(c) == <<"integrate", c>>
Demo(c) == <<"demo", c>>
Collect(c) == <<"collect", c>>
Triage(c) == <<"triage", c>>
Choice(c) == <<"choice", c>>
Deploy(c) == <<"deploy", c>>

Single == {"synthesize", "inventory", "decompose", "plan", "integrate", "demo", "collect",
           "triage", "choice", "deploy"}
Jobs == ({"interview"} \X Cycles \X {"entry", "loop"}) \cup (Single \X Cycles)
Kind(j) == j[1]
Cycle(j) == j[2]

ASSUME NullAssumption == NoJob \notin Jobs /\ NoWorker \notin Workers

VARIABLES
  st, holder, doing,   \* the job table and what each worker is executing
  phase, cycle,        \* the project row
  elicited,            \* the cycles whose questions are all dealt with
  asked,               \* the cycles with questions in the ledger
  spec,                \* the cycles that have a design spec in the store
  inventory,           \* the cycles that have a visual inventory
  open,                \* the findings raised and not resolved
  gate,                \* gate[j]: the latest gate of j, or what was answered to it
  cli,                 \* the command that runs at the command line
  run,                 \* where each worker is in its handler, and its locals
  faults

table == <<st, holder, doing>>
project == <<phase, cycle>>
stores == <<elicited, asked, spec, inventory>>
vars == <<table, project, stores, open, gate, cli, run, faults>>

Table == INSTANCE TaskLease WITH Deps <- [j \in Jobs |-> {}]
Machine == INSTANCE PhaseMachine

Idle == [at |-> "idle", out |-> "ready", seen |-> {}]
NoCommand == [at |-> "idle", from |-> "INTAKE", to |-> "INTAKE", job |-> NoJob]

Init ==
  /\ Table!Init
  /\ phase = "INTAKE" /\ cycle = 1
  /\ elicited = {} /\ asked = {} /\ spec = {} /\ inventory = {}
  /\ open = {}
  /\ gate = [j \in Jobs |-> "none"]
  /\ cli = NoCommand
  /\ run = [w \in Workers |-> Idle]
  /\ faults = 0

-----------------------------------------------------------------------------
(* What the handlers share                                                 *)

At(w, kind, place) == doing[w] # NoJob /\ Kind(doing[w]) = kind /\ run[w].at = place
Of(w) == Cycle(doing[w])

Unsettled(j) == st[j] \in {"ready", "leased", "awaiting_human"}

Enqueue(j) ==
  \/ Table!Offer(j)
  \/ st[j] # "absent" /\ UNCHANGED table

Goto(w, place) == run' = [run EXCEPT ![w].at = place]
Return(w, outcome) == run' = [run EXCEPT ![w] = [at |-> "settle", out |-> outcome, seen |-> {}]]

\* A failure, which costs an attempt, and in the end the last.
Fail(w) == \E outcome \in {"ready", "failed"} : Return(w, outcome)

\* The compare-and-set of the project row looks at the phase alone.
MOverwrite(expected, to) == phase' = to
Transition(expected, to) == phase = expected /\ phase' = to

Claim(w, j) ==
  /\ Kind(j) # "deploy"
  /\ Table!Grant(w, j)
  /\ run' = [run EXCEPT ![w] = [Idle EXCEPT !.at = "start"]]
  /\ UNCHANGED <<project, stores, open, gate, cli, faults>>

Settle(w) ==
  /\ run[w].at = "settle"
  /\ LET j == doing[w]
     IN  \/ Table!Report(w, j) /\ st'[j] = run[w].out
         \/ holder[j] # w /\ Table!Forget(w)
  /\ run' = [run EXCEPT ![w] = Idle]
  /\ UNCHANGED <<project, stores, open, gate, cli, faults>>

\* The handler raises its gate and parks; on an open gate it parks again.
Asks(kind) == kind \in {"interview", "collect", "choice"}
Ask(w) ==
  /\ run[w].at = "start" /\ Asks(Kind(doing[w]))
  /\ gate[doing[w]] \in {"none", "open"}
  /\ Kind(doing[w]) = "interview" => Of(w) \notin elicited
  /\ gate' = [gate EXCEPT ![doing[w]] = "open"]
  /\ asked' = IF Kind(doing[w]) = "interview" THEN asked \cup {Of(w)} ELSE asked
  /\ Return(w, "awaiting_human")
  /\ UNCHANGED <<table, project, elicited, spec, inventory, open, cli, faults>>

RepliesTo(j) ==
  CASE Kind(j) = "interview" -> {"answers"}
    [] Kind(j) = "collect"   -> Replies
    [] Kind(j) = "choice"    -> {"deploy", "local_only"}
    [] OTHER                 -> {}

Answer(j) ==
  /\ Table!Resume(j)
  /\ gate[j] = "open"
  /\ \E reply \in RepliesTo(j) : gate' = [gate EXCEPT ![j] = reply]
  /\ UNCHANGED <<project, stores, open, cli, run, faults>>

-----------------------------------------------------------------------------
(* The command line                                                        *)

Busy(at, from, to, j) == [at |-> at, from |-> from, to |-> to, job |-> j]

\* enqueue_design_interview: a fresh project is moved first.
Kickoff ==
  /\ cli.at = "idle"
  /\ \/ Transition("INTAKE", "DESIGN")
     \/ /\ phase = "DESIGN" /\ st[Interview(cycle, "entry")] = "absent"
        /\ UNCHANGED phase
  /\ cli' = Busy("insert", "INTAKE", "DESIGN", Interview(cycle, "entry"))
  /\ UNCHANGED <<table, cycle, stores, open, gate, run, faults>>

\* Both acceptance services check what they read, then move, then insert.  One
\* command runs at a time, and only a command leaves either design phase.
AcceptDesign(to) ==
  /\ cli.at = "idle"
  /\ phase = "DESIGN" /\ cycle <= MaxCycle
  /\ cycle \in spec
  /\ asked \subseteq elicited
  /\ to \in {"BUILD", "VISUAL_DESIGN"}
  /\ cli' = Busy("checked", "DESIGN", to, NoJob)
  /\ UNCHANGED <<table, project, stores, open, gate, run, faults>>

SettleVisual ==
  /\ cli.at = "idle"
  /\ phase = "VISUAL_DESIGN" /\ cycle <= MaxCycle
  /\ cycle \in inventory
  /\ cli' = Busy("checked", "VISUAL_DESIGN", "BUILD", NoJob)
  /\ UNCHANGED <<table, project, stores, open, gate, run, faults>>

CommandMove ==
  /\ cli.at = "checked"
  /\ Transition(cli.from, cli.to)
  /\ cli' = Busy("insert", cli.from, cli.to,
                 IF cli.to = "BUILD" THEN Decompose(cycle) ELSE Inventory(cycle))
  /\ UNCHANGED <<table, cycle, stores, open, gate, run, faults>>

CommandInsert ==
  /\ cli.at = "insert"
  /\ Enqueue(cli.job)
  /\ cli' = NoCommand
  /\ UNCHANGED <<project, stores, open, gate, run, faults>>

-----------------------------------------------------------------------------
(* Design and build                                                        *)

Elicited(w) ==
  /\ At(w, "interview", "start")
  /\ Of(w) \in elicited \/ gate[doing[w]] = "answers"
  /\ elicited' = elicited \cup {Of(w)}
  /\ Goto(w, "elicited")
  /\ UNCHANGED <<table, project, asked, spec, inventory, open, gate, cli, faults>>

EnqueueSynthesize(w) ==
  /\ At(w, "interview", "elicited")
  /\ Enqueue(Synthesize(Of(w)))
  /\ Return(w, "succeeded")
  /\ UNCHANGED <<project, stores, open, gate, cli, faults>>

SaveSpec(w) ==
  /\ At(w, "synthesize", "start")
  /\ spec' = spec \cup {Of(w)}
  /\ Return(w, "succeeded")
  /\ UNCHANGED <<table, project, elicited, asked, inventory, open, gate, cli, faults>>

SaveInventory(w) ==
  /\ At(w, "inventory", "start")
  /\ inventory' = inventory \cup {Of(w)}
  /\ Return(w, "succeeded")
  /\ UNCHANGED <<table, project, elicited, asked, spec, open, gate, cli, faults>>

\* build.plan is build.decompose under the name a fast loop-back gives it.  Both
\* refuse a cycle that has no spec, as the demo does; by WorkHasSpec none of them
\* meets one.
Decomposing(w) == At(w, "decompose", "start") \/ At(w, "plan", "start")

FanOut(w) ==
  /\ Decomposing(w)
  /\ Of(w) \in spec
  /\ Enqueue(Integrate(Of(w)))
  /\ Return(w, "succeeded")
  /\ UNCHANGED <<project, stores, open, gate, cli, faults>>

\* The last integrate moves on; a miss is suppressed.
EnterReview(w) ==
  /\ At(w, "integrate", "start")
  /\ \/ Transition("BUILD", "REVIEW")
     \/ phase # "BUILD" /\ UNCHANGED phase
  /\ Goto(w, "entered")
  /\ UNCHANGED <<table, cycle, stores, open, gate, cli, faults>>

EnqueueDemo(w) ==
  /\ At(w, "integrate", "entered")
  /\ Enqueue(Demo(Of(w)))
  /\ Return(w, "succeeded")
  /\ UNCHANGED <<project, stores, open, gate, cli, faults>>

-----------------------------------------------------------------------------
(* Review                                                                  *)

\* A fresh scan supersedes the open automated findings, one event each ...
ReadStale(w) ==
  /\ At(w, "demo", "start")
  /\ Of(w) \in spec
  /\ run' = [run EXCEPT ![w].at = "superseding", ![w].seen = open \cap Automated]
  /\ UNCHANGED <<table, project, stores, open, gate, cli, faults>>

Supersede(w, f) ==
  /\ At(w, "demo", "superseding")
  /\ f \in run[w].seen
  /\ open' = open \ {f}
  /\ run' = [run EXCEPT ![w].seen = @ \ {f}]
  /\ UNCHANGED <<table, project, stores, gate, cli, faults>>

\* ... and raises what it finds now, one event each.
Scan(w) ==
  /\ At(w, "demo", "superseding")
  /\ run[w].seen = {}
  /\ \E found \in SUBSET Automated :
       run' = [run EXCEPT ![w].at = "raising", ![w].seen = found]
  /\ UNCHANGED <<table, project, stores, open, gate, cli, faults>>

RaiseAutomated(w, f) ==
  /\ At(w, "demo", "raising")
  /\ f \in run[w].seen
  /\ open' = open \cup {f}
  /\ run' = [run EXCEPT ![w].seen = @ \ {f}]
  /\ UNCHANGED <<table, project, stores, gate, cli, faults>>

EnqueueCollect(w) ==
  /\ At(w, "demo", "raising")
  /\ run[w].seen = {}
  /\ Enqueue(Collect(Of(w)))
  /\ Return(w, "succeeded")
  /\ UNCHANGED <<project, stores, open, gate, cli, faults>>

\* A question and a cancellation settle the review without a triage.
StopReview(w) ==
  /\ At(w, "collect", "start")
  /\ gate[doing[w]] \in {"question", "cancel"}
  /\ Return(w, "succeeded")
  /\ UNCHANGED <<table, project, stores, open, gate, cli, faults>>

\* "changes" stands for a verdict with feedback; without, it is an acceptance.
TakeVerdict(w) ==
  /\ At(w, "collect", "start")
  /\ gate[doing[w]] \in {"accept", "changes"}
  /\ open' = IF gate[doing[w]] = "changes" THEN open \cup {FromUser} ELSE open
  /\ Goto(w, "taken")
  /\ UNCHANGED <<table, project, stores, gate, cli, faults>>

EnqueueTriage(w) ==
  /\ At(w, "collect", "taken")
  /\ Enqueue(Triage(Of(w)))
  /\ Return(w, "succeeded")
  /\ UNCHANGED <<project, stores, open, gate, cli, faults>>

MReadFeedback(w) ==
  /\ At(w, "triage", "start")
  /\ run' = [run EXCEPT ![w].at = "triaged", ![w].seen = open \ Automated]
  /\ UNCHANGED <<table, project, stores, open, gate, cli, faults>>

ReadFindings(w) ==
  /\ At(w, "triage", "start")
  /\ run' = [run EXCEPT ![w].at = "triaged", ![w].seen = open]
  /\ UNCHANGED <<table, project, stores, open, gate, cli, faults>>

MSettleClear(w) ==
  /\ At(w, "triage", "triaged")
  /\ run[w].seen = {}
  /\ Return(w, "succeeded")
  /\ UNCHANGED <<table, project, stores, open, gate, cli, faults>>

EnqueueChoice(w) ==
  /\ At(w, "triage", "triaged")
  /\ run[w].seen = {}
  /\ Enqueue(Choice(Of(w)))
  /\ Return(w, "succeeded")
  /\ UNCHANGED <<project, stores, open, gate, cli, faults>>

Target(w) == IF run[w].seen \cap Vague # {} THEN "DESIGN" ELSE "BUILD"

MLoopInPlace(w) ==
  /\ At(w, "triage", "triaged")
  /\ run[w].seen # {}
  /\ Of(w) < MaxCycle
  /\ Transition("REVIEW", Target(w))
  /\ UNCHANGED cycle
  /\ Goto(w, "looped")
  /\ UNCHANGED <<table, stores, open, gate, cli, faults>>

\* The next cycle is counted from the job's own.
LoopBack(w) ==
  /\ At(w, "triage", "triaged")
  /\ run[w].seen # {}
  /\ Of(w) < MaxCycle
  /\ Transition("REVIEW", Target(w))
  /\ cycle' = Of(w) + 1
  /\ Goto(w, "looped")
  /\ UNCHANGED <<table, stores, open, gate, cli, faults>>

\* Triage and the deployment choice do not suppress a miss.
Misses(w) ==
  /\ phase # "REVIEW"
  /\ \/ At(w, "triage", "triaged") /\ run[w].seen # {}
     \/ At(w, "choice", "start") /\ gate[doing[w]] \in {"deploy", "local_only"}
  /\ Fail(w)
  /\ UNCHANGED <<table, project, stores, open, gate, cli, faults>>

Redesign(w) ==
  /\ At(w, "triage", "looped")
  /\ Target(w) = "DESIGN"
  /\ Enqueue(Interview(Of(w) + 1, "loop"))
  /\ Return(w, "succeeded")
  /\ UNCHANGED <<project, stores, open, gate, cli, faults>>

\* The fast loop-back carries the spec over to the cycle it starts.
MCarryNothing(w) ==
  /\ At(w, "triage", "looped")
  /\ Target(w) = "BUILD"
  /\ Goto(w, "carried")
  /\ UNCHANGED <<table, project, stores, open, gate, cli, faults>>

CarrySpec(w) ==
  /\ At(w, "triage", "looped")
  /\ Target(w) = "BUILD"
  /\ spec' = IF Of(w) \in spec THEN spec \cup {Of(w) + 1} ELSE spec
  /\ Goto(w, "carried")
  /\ UNCHANGED <<table, project, elicited, asked, inventory, open, gate, cli, faults>>

MRebuildSame(w) ==
  /\ At(w, "triage", "carried")
  /\ Enqueue(Plan(Of(w)))
  /\ Return(w, "succeeded")
  /\ UNCHANGED <<project, stores, open, gate, cli, faults>>

Rebuild(w) ==
  /\ At(w, "triage", "carried")
  /\ Enqueue(Plan(Of(w) + 1))
  /\ Return(w, "succeeded")
  /\ UNCHANGED <<project, stores, open, gate, cli, faults>>

Decline(w) ==
  /\ At(w, "choice", "start")
  /\ gate[doing[w]] = "local_only"
  /\ Transition("REVIEW", "DONE")
  /\ Return(w, "succeeded")
  /\ UNCHANGED <<table, cycle, stores, open, gate, cli, faults>>

OptIn(w) ==
  /\ At(w, "choice", "start")
  /\ gate[doing[w]] = "deploy"
  /\ Transition("REVIEW", "DEPLOY")
  /\ Goto(w, "opted")
  /\ UNCHANGED <<table, cycle, stores, open, gate, cli, faults>>

EnqueueDeploy(w) ==
  /\ At(w, "choice", "opted")
  /\ Enqueue(Deploy(Of(w)))
  /\ Return(w, "succeeded")
  /\ UNCHANGED <<project, stores, open, gate, cli, faults>>

-----------------------------------------------------------------------------
(* Faults                                                                  *)

May(kind) == kind \in FaultKinds /\ faults < MaxFaults /\ faults' = faults + 1

Raise(w) ==
  /\ May("raise")
  /\ run[w].at \notin {"idle", "settle"}
  /\ Fail(w)
  /\ UNCHANGED <<table, project, stores, open, gate, cli>>

Crash(w) ==
  /\ May("crash")
  /\ Table!Forget(w)
  /\ run' = [run EXCEPT ![w] = Idle]
  /\ UNCHANGED <<project, stores, open, gate, cli>>

CommandCrash ==
  /\ May("command")
  /\ cli.at # "idle"
  /\ cli' = NoCommand
  /\ UNCHANGED <<table, project, stores, open, gate, run>>

Reap(j) ==
  /\ st[j] = "leased"
  /\ doing[holder[j]] # j
  /\ Table!Revoke({j})
  /\ UNCHANGED <<project, stores, open, gate, cli, run, faults>>

LoseLease(j) ==
  /\ May("lease")
  /\ st[j] = "leased"
  /\ doing[holder[j]] = j
  /\ Table!Revoke({j})
  /\ UNCHANGED <<project, stores, open, gate, cli, run>>

-----------------------------------------------------------------------------

Handle(w) ==
  \/ Ask(w) \/ Settle(w)
  \/ Elicited(w) \/ EnqueueSynthesize(w) \/ SaveSpec(w) \/ SaveInventory(w)
  \/ FanOut(w) \/ EnterReview(w) \/ EnqueueDemo(w)
  \/ ReadStale(w) \/ Scan(w) \/ EnqueueCollect(w)
  \/ \E f \in Automated : Supersede(w, f) \/ RaiseAutomated(w, f)
  \/ StopReview(w) \/ TakeVerdict(w) \/ EnqueueTriage(w)
  \/ ReadFindings(w) \/ EnqueueChoice(w) \/ LoopBack(w) \/ Misses(w)
  \/ Redesign(w) \/ CarrySpec(w) \/ Rebuild(w)
  \/ Decline(w) \/ OptIn(w) \/ EnqueueDeploy(w)

Accept == SettleVisual \/ \E to \in {"BUILD", "VISUAL_DESIGN"} : AcceptDesign(to)
Command == CommandMove \/ CommandInsert

Next ==
  \/ Kickoff \/ Accept \/ Command \/ CommandCrash
  \/ \E w \in Workers : Handle(w) \/ Raise(w) \/ Crash(w)
  \/ \E w \in Workers, j \in Jobs : Claim(w, j)
  \/ \E j \in Jobs : Answer(j) \/ Reap(j) \/ LoseLease(j)

Spec == Init /\ [][Next]_vars

\* Workers run, claim and reap; the human gives the commands that are due and
\* answers the gates.
FairSpec ==
  /\ Spec
  /\ WF_vars(Kickoff) /\ WF_vars(Accept) /\ WF_vars(Command)
  /\ \A w \in Workers : WF_vars(Handle(w))
  /\ \A j \in Jobs :
       /\ WF_vars(\E w \in Workers : Claim(w, j))
       /\ WF_vars(Answer(j))
       /\ WF_vars(Reap(j))

-----------------------------------------------------------------------------
(* Properties                                                              *)

Places == {"idle", "start", "elicited", "entered", "superseding", "raising", "taken", "triaged",
           "looped", "carried", "opted", "settle"}

\* Every variable has its type, a worker is in a handler exactly while it has a
\* job, and whoever waits for a human has asked.
TypeOK ==
  /\ st \in [Jobs -> Table!Open \cup Table!Settled \cup {"absent"}]
  /\ holder \in [Jobs -> Workers \cup {NoWorker}]
  /\ doing \in [Workers -> Jobs \cup {NoJob}]
  /\ phase \in Machine!Phases /\ cycle \in Cycles
  /\ elicited \subseteq Cycles /\ asked \subseteq Cycles
  /\ spec \subseteq Cycles /\ inventory \subseteq Cycles
  /\ open \subseteq Findings
  /\ gate \in [Jobs -> {"none", "open", "answers", "deploy", "local_only"} \cup Replies]
  /\ cli \in [at : {"idle", "checked", "insert"}, from : Machine!Phases, to : Machine!Phases,
              job : Jobs \cup {NoJob}]
  /\ run \in [Workers -> [at : Places, out : Table!Open \cup Table!Settled, seen : SUBSET Findings]]
  /\ \A w \in Workers : run[w].at = "idle" <=> doing[w] = NoJob
  /\ \A j \in Jobs : st[j] = "awaiting_human" => gate[j] # "none"
  /\ faults \in 0 .. MaxFaults

\* Nothing is built or shown without a spec: whatever crashes, is run twice or
\* loses its lease, the jobs of a cycle from its decomposition to its triage are
\* only inserted once the spec of that very cycle was saved, or carried over.
Downstream == {"decompose", "plan", "integrate", "demo", "collect", "triage"}
WorkHasSpec ==
  \A j \in Jobs : Kind(j) \in Downstream /\ st[j] # "absent" => Cycle(j) \in spec

\* The transitions the handlers make are edges of the phase machine, and only a
\* review changes the cycle.
ImplementsPhaseMachine == Machine!Spec

\* Every loop-back starts a new cycle, as long as every job runs once; the
\* compare-and-set itself does not look at the cycle.
LoopBackAdvances ==
  [][cycle' # cycle \/ (phase = "REVIEW" /\ phase' \in {"DESIGN", "BUILD"})
       => faults > 0 \/ cycle' = cycle + 1]_<<phase, cycle>>

\* A project is done when no finding is open, unless a job was run twice.
DoneIsClean == phase \in {"DONE", "DEPLOY"} => faults > 0 \/ open = {}

\* The human has a command to give.
CommandDue ==
  \/ phase = "INTAKE"
  \/ phase = "DESIGN" /\ st[Interview(cycle, "entry")] = "absent"
  \/ phase = "DESIGN" /\ cycle \in spec /\ asked \subseteq elicited
  \/ phase = "VISUAL_DESIGN" /\ cycle \in inventory

\* The human ended the review of this cycle with a question or a cancellation.
ReviewStopped == gate[Collect(cycle)] \in {"question", "cancel"}

\* A project that is not done is going on: a job is there to be run or waits for
\* its human, a worker or a command is at it, or a command is due.
NotStranded ==
  \/ phase = "DONE"
  \/ \E j \in Jobs : Unsettled(j)
  \/ \E w \in Workers : doing[w] # NoJob
  \/ cli.at # "idle"
  \/ CommandDue
  \/ ReviewStopped

\* Only a fault strands a project.
StrandedOnlyByFault == faults = 0 => NotStranded

\* A project whose reviews find nothing ends, or is handed over for deployment.
DeliveryEnds ==
  [](open = {} /\ faults = 0 /\ ~ReviewStopped) => <>(phase \in {"DONE", "DEPLOY"})
=============================================================================
