----------------------------- MODULE DeployStages -----------------------------
(***************************************************************************)
(* A deployment from the human's opt-in to DONE: the bridge into the       *)
(* stages, the interview, the synthesis and the acceptance of a deployment *)
(* spec, its execution, the review of what was deployed or of why it       *)
(* failed, and the routes from there.                                      *)
(*                                                                         *)
(* What the bridge or a route starts is a leg: the jobs whose keys derive  *)
(* from one another.  The spec, the consent and the answers they are made  *)
(* of belong to the project and have one place each, which every leg       *)
(* overwrites.  Each statement a handler commits is an action; the cloud   *)
(* is external and applies, or fails, as it likes.                         *)
(*                                                                         *)
(* Definitions named M... are plausible faults; no action uses them.       *)
(***************************************************************************)
EXTENDS Naturals

CONSTANTS
  Workers, NoJob, NoWorker,
  Scopes, NoScope,  \* the targets a human may name; no target
  Legs, NoLeg,      \* bound: the legs a run has
  Onward,           \* Onward[kind][m]: the leg that a route of leg m starts, or none
  FaultKinds,       \* which faults happen: "crash", "raise", "lease"
  MaxFaults         \* bound: faults

\* A target is no word of a gate.
ASSUME ScopeAssumption == NoScope \notin Scopes /\ Scopes \cap {"none", "open", "accept"} = {}

\* The keys of a leg derive from the route that starts it: no two routes start the same one.
ASSUME LegAssumption ==
  /\ 0 \in Legs /\ NoLeg \notin Legs
  /\ Onward \in [{"route demo", "route triage"} -> [Legs -> (Legs \ {0}) \cup {NoLeg}]]
  /\ \A k, l \in {"route demo", "route triage"}, m, n \in Legs :
       Onward[k][m] # NoLeg /\ Onward[k][m] = Onward[l][n] => k = l /\ m = n
ASSUME FaultAssumption == MaxFaults \in Nat

Kinds == {"interview", "synthesize", "spec", "execute", "demo", "triage", "route demo",
          "route triage"}
Bridge == <<"bridge", 0>>
Jobs == (Kinds \X Legs) \cup {Bridge}
Kind(j) == j[1]
Leg(j) == j[2]

ASSUME NullAssumption == NoJob \notin Jobs /\ NoWorker \notin Workers

VARIABLES
  st, holder, doing,  \* the job table and what each worker is executing
  phase, cycle,       \* the project row
  gate,               \* gate[j]: the gate of j, or what was answered to it
  elicited,           \* the latest answer to an interview in the ledger
  dspec,              \* the target of the stored spec
  consent,            \* the target that the stored consent is bound to
  run,                \* where each worker is in its handler, and what it loaded
  deployed,           \* what was applied to the cloud, by the leg that did it
  accepted,           \* history: the targets stored when a human accepted
  again,              \* history: the jobs handed back to be run again
  faults

table == <<st, holder, doing>>
project == <<phase, cycle>>
files == <<elicited, dspec, consent>>
vars == <<table, project, gate, files, run, deployed, accepted, again, faults>>

Table == INSTANCE TaskLease WITH Deps <- [j \in Jobs |-> {}]
Machine == INSTANCE PhaseMachine

Idle == [at |-> "idle", out |-> "ready", target |-> NoScope]

\* The deployment was chosen: the phase is DEPLOY and the bridge is ready.
Init ==
  /\ st = [j \in Jobs |-> IF j = Bridge THEN "ready" ELSE "absent"]
  /\ holder = [j \in Jobs |-> NoWorker]
  /\ doing = [w \in Workers |-> NoJob]
  /\ phase = "DEPLOY" /\ cycle = 1
  /\ gate = [j \in Jobs |-> "none"]
  /\ elicited = NoScope /\ dspec = NoScope /\ consent = NoScope
  /\ run = [w \in Workers |-> Idle]
  /\ deployed = {} /\ accepted = {} /\ again = {}
  /\ faults = 0

-----------------------------------------------------------------------------
(* What the handlers share                                                 *)

At(w, kind, place) == doing[w] # NoJob /\ Kind(doing[w]) = kind /\ run[w].at = place
Of(w) == Leg(doing[w])

Enqueue(j) ==
  \/ Table!Offer(j)
  \/ st[j] # "absent" /\ UNCHANGED table

Goto(w, place) == run' = [run EXCEPT ![w].at = place]
Return(w, outcome) == run' = [run EXCEPT ![w] = [Idle EXCEPT !.at = "settle", !.out = outcome]]

\* A failure costs an attempt and is retried; no first failure is the last.
Fail(w) ==
  \/ Return(w, "ready")
  \/ doing[w] \in again /\ Return(w, "failed")

MOverwrite(expected, to) == phase' = to /\ UNCHANGED cycle
Transition(expected, to) == phase = expected /\ phase' = to /\ UNCHANGED cycle

Claim(w, j) ==
  /\ Table!Grant(w, j)
  /\ run' = [run EXCEPT ![w] = [Idle EXCEPT !.at = "start"]]
  /\ UNCHANGED <<project, gate, files, deployed, accepted, again, faults>>

Settle(w) ==
  /\ run[w].at = "settle"
  /\ LET j == doing[w]
     IN  \/ /\ Table!Report(w, j) /\ st'[j] = run[w].out
            /\ again' = IF run[w].out = "ready" THEN again \cup {j} ELSE again
         \/ holder[j] # w /\ Table!Forget(w) /\ UNCHANGED again
  /\ run' = [run EXCEPT ![w] = Idle]
  /\ UNCHANGED <<project, gate, files, deployed, accepted, faults>>

\* The handler raises its gate and parks; on an open gate it parks again.
Asks(kind) == kind \in {"interview", "spec", "demo", "triage"}
Ask(w) ==
  /\ run[w].at = "start" /\ Asks(Kind(doing[w]))
  /\ gate[doing[w]] \in {"none", "open"}
  /\ gate' = [gate EXCEPT ![doing[w]] = "open"]
  /\ Return(w, "awaiting_human")
  /\ UNCHANGED <<table, project, files, deployed, accepted, again, faults>>

\* A further leg is only asked for within the bound.
Loops(j, kind, replies) == IF Onward[kind][Leg(j)] = NoLeg THEN {} ELSE replies
RepliesTo(j) ==
  CASE Kind(j) = "interview" -> Scopes
    [] Kind(j) = "spec"      -> {"accept", "reject"}
    [] Kind(j) = "demo"      -> {"approve"} \cup Loops(j, "route demo", {"request_changes"})
    [] Kind(j) = "triage"    -> {"abort", "loop_code_fix"}
                                  \cup Loops(j, "route triage", {"loop_design", "retry_execute"})
    [] OTHER                 -> {}

Answer(j) ==
  /\ Table!Resume(j)
  /\ gate[j] = "open"
  /\ \E reply \in RepliesTo(j) :
       /\ gate' = [gate EXCEPT ![j] = reply]
       /\ accepted' = IF reply = "accept" THEN accepted \cup {dspec} ELSE accepted
  /\ UNCHANGED <<project, files, run, deployed, again, faults>>

-----------------------------------------------------------------------------
(* From the bridge to the acceptance                                       *)

\* A miss means the bridge was crossed before, and is suppressed.
Cross(w) ==
  /\ At(w, "bridge", "start")
  /\ \/ Transition("DEPLOY", "DEPLOY_DESIGN")
     \/ phase # "DEPLOY" /\ UNCHANGED project
  /\ Goto(w, "crossed")
  /\ UNCHANGED <<table, gate, files, deployed, accepted, again, faults>>

EnqueueInterview(w) ==
  /\ At(w, "bridge", "crossed")
  /\ Enqueue(<<"interview", 0>>)
  /\ Return(w, "succeeded")
  /\ UNCHANGED <<project, gate, files, deployed, accepted, again, faults>>

Elicit(w) ==
  /\ At(w, "interview", "start")
  /\ gate[doing[w]] \in Scopes
  /\ elicited' = gate[doing[w]]
  /\ Goto(w, "elicited")
  /\ UNCHANGED <<table, project, gate, dspec, consent, deployed, accepted, again, faults>>

EnqueueSynthesize(w) ==
  /\ At(w, "interview", "elicited")
  /\ Enqueue(<<"synthesize", Of(w)>>)
  /\ Return(w, "succeeded")
  /\ UNCHANGED <<project, gate, files, deployed, accepted, again, faults>>

\* The spec is built from the last answer of the project, whoever asked for it.
SaveSpec(w) ==
  /\ At(w, "synthesize", "start")
  /\ dspec' = elicited
  /\ Goto(w, "saved")
  /\ UNCHANGED <<table, project, gate, elicited, consent, deployed, accepted, again, faults>>

EnqueueSpec(w) ==
  /\ At(w, "synthesize", "saved")
  /\ Enqueue(<<"spec", Of(w)>>)
  /\ Return(w, "succeeded")
  /\ UNCHANGED <<project, gate, files, deployed, accepted, again, faults>>

\* A rejection is a failure of the job, whose gate stays answered.
Reject(w) ==
  /\ At(w, "spec", "start")
  /\ gate[doing[w]] = "reject"
  /\ Fail(w)
  /\ UNCHANGED <<table, project, gate, files, deployed, accepted, again, faults>>

\* The consent is bound to the spec that is stored by now.
SaveConsent(w) ==
  /\ At(w, "spec", "start")
  /\ gate[doing[w]] = "accept"
  /\ consent' = dspec
  /\ Goto(w, "consented")
  /\ UNCHANGED <<table, project, gate, elicited, dspec, deployed, accepted, again, faults>>

EnterExecute(w) ==
  /\ At(w, "spec", "consented")
  /\ Transition("DEPLOY_DESIGN", "DEPLOY_EXECUTE")
  /\ Goto(w, "entered")
  /\ UNCHANGED <<table, gate, files, deployed, accepted, again, faults>>

MEnqueueNothing(w) ==
  /\ At(w, "spec", "entered")
  /\ Return(w, "succeeded")
  /\ UNCHANGED <<table, project, gate, files, deployed, accepted, again, faults>>

EnqueueExecute(w) ==
  /\ At(w, "spec", "entered")
  /\ Enqueue(<<"execute", Of(w)>>)
  /\ Return(w, "succeeded")
  /\ UNCHANGED <<project, gate, files, deployed, accepted, again, faults>>

-----------------------------------------------------------------------------
(* The execution                                                           *)

Refuse(w) ==
  /\ At(w, "execute", "start")
  /\ consent # dspec
  /\ Fail(w)
  /\ UNCHANGED <<table, project, gate, files, deployed, accepted, again, faults>>

MLoadUnchecked(w) ==
  /\ At(w, "execute", "start")
  /\ run' = [run EXCEPT ![w].at = "loaded", ![w].target = dspec]
  /\ UNCHANGED <<table, project, gate, files, deployed, accepted, again, faults>>

Load(w) ==
  /\ At(w, "execute", "start")
  /\ consent = dspec
  /\ run' = [run EXCEPT ![w].at = "loaded", ![w].target = dspec]
  /\ UNCHANGED <<table, project, gate, files, deployed, accepted, again, faults>>

\* The cloud takes the plan, and is healthy afterwards or not ...
Apply(w) ==
  /\ At(w, "execute", "loaded")
  /\ deployed' = deployed \cup {<<Of(w), run[w].target>>}
  /\ \E place \in {"verified", "broken"} : Goto(w, place)
  /\ UNCHANGED <<table, project, gate, files, accepted, again, faults>>

\* ... or it refuses it.
Refused(w) ==
  /\ At(w, "execute", "loaded")
  /\ Goto(w, "broken")
  /\ UNCHANGED <<table, project, gate, files, deployed, accepted, again, faults>>

\* The handler's try covers the transition too: a miss is a broken deployment.
EnterReview(w) ==
  /\ At(w, "execute", "verified")
  /\ \/ Transition("DEPLOY_EXECUTE", "DEPLOY_REVIEW") /\ Goto(w, "reviewing")
     \/ phase # "DEPLOY_EXECUTE" /\ UNCHANGED project /\ Goto(w, "broken")
  /\ UNCHANGED <<table, gate, files, deployed, accepted, again, faults>>

EnqueueDemo(w) ==
  /\ At(w, "execute", "reviewing")
  /\ Enqueue(<<"demo", Of(w)>>)
  /\ Return(w, "succeeded")
  /\ UNCHANGED <<project, gate, files, deployed, accepted, again, faults>>

\* What broke goes to the human, and the job fails, to be run again.
EnterTriage(w) ==
  /\ At(w, "execute", "broken")
  /\ \/ Transition("DEPLOY_EXECUTE", "DEPLOY_REVIEW") /\ Goto(w, "failing")
     \/ phase # "DEPLOY_EXECUTE" /\ UNCHANGED project /\ Fail(w)
  /\ UNCHANGED <<table, gate, files, deployed, accepted, again, faults>>

EnqueueTriage(w) ==
  /\ At(w, "execute", "failing")
  /\ Enqueue(<<"triage", Of(w)>>)
  /\ Fail(w)
  /\ UNCHANGED <<project, gate, files, deployed, accepted, again, faults>>

-----------------------------------------------------------------------------
(* Review and routes                                                       *)

MSettleAnswered(w) ==
  /\ run[w].at = "start" /\ Kind(doing[w]) \in {"demo", "triage"}
  /\ gate[doing[w]] \notin {"none", "open"}
  /\ Return(w, "succeeded")
  /\ UNCHANGED <<table, project, gate, files, deployed, accepted, again, faults>>

EnqueueRoute(w) ==
  /\ run[w].at = "start" /\ Kind(doing[w]) \in {"demo", "triage"}
  /\ gate[doing[w]] \notin {"none", "open"}
  /\ Enqueue(<<IF Kind(doing[w]) = "demo" THEN "route demo" ELSE "route triage", Of(w)>>)
  /\ Return(w, "succeeded")
  /\ UNCHANGED <<project, gate, files, deployed, accepted, again, faults>>

Routing(w, place) == At(w, "route demo", place) \/ At(w, "route triage", place)

\* The action a route carries is the answer it was inserted for.
Action(w) == gate[<<IF Kind(doing[w]) = "route demo" THEN "demo" ELSE "triage", Of(w)>>]

Target(action) ==
  CASE action \in {"approve", "abort"}               -> "DONE"
    [] action = "loop_code_fix"                      -> "DESIGN"
    [] action \in {"request_changes", "loop_design"} -> "DEPLOY_DESIGN"
    [] action = "retry_execute"                      -> "DEPLOY_EXECUTE"

Conclude(w) ==
  /\ Routing(w, "start")
  /\ Target(Action(w)) \in {"DONE", "DESIGN"}
  /\ Transition("DEPLOY_REVIEW", Target(Action(w)))
  /\ Return(w, "succeeded")
  /\ UNCHANGED <<table, gate, files, deployed, accepted, again, faults>>

MLoopInPlace(w) ==
  /\ Routing(w, "start")
  /\ Target(Action(w)) \in {"DEPLOY_DESIGN", "DEPLOY_EXECUTE"}
  /\ Goto(w, "routed")
  /\ UNCHANGED <<table, project, gate, files, deployed, accepted, again, faults>>

Loop(w) ==
  /\ Routing(w, "start")
  /\ Target(Action(w)) \in {"DEPLOY_DESIGN", "DEPLOY_EXECUTE"}
  /\ Transition("DEPLOY_REVIEW", Target(Action(w)))
  /\ Goto(w, "routed")
  /\ UNCHANGED <<table, gate, files, deployed, accepted, again, faults>>

StartLeg(w) ==
  /\ Routing(w, "routed")
  /\ Enqueue(<<IF Target(Action(w)) = "DEPLOY_DESIGN" THEN "interview" ELSE "execute",
              Onward[Kind(doing[w])][Of(w)]>>)
  /\ Return(w, "succeeded")
  /\ UNCHANGED <<project, gate, files, deployed, accepted, again, faults>>

\* Neither the acceptance nor a route suppresses a miss.
Misses(w) ==
  /\ \/ At(w, "spec", "consented") /\ phase # "DEPLOY_DESIGN"
     \/ Routing(w, "start") /\ phase # "DEPLOY_REVIEW"
  /\ Fail(w)
  /\ UNCHANGED <<table, project, gate, files, deployed, accepted, again, faults>>

-----------------------------------------------------------------------------
(* Faults                                                                  *)

May(kind) == kind \in FaultKinds /\ faults < MaxFaults /\ faults' = faults + 1

\* The execution takes an exception for a broken deployment.
Raise(w) ==
  /\ May("raise")
  /\ run[w].at \notin {"idle", "settle"}
  /\ IF run[w].at \in {"loaded", "verified", "reviewing"} THEN Goto(w, "broken") ELSE Fail(w)
  /\ UNCHANGED <<table, project, gate, files, deployed, accepted, again>>

Crash(w) ==
  /\ May("crash")
  /\ Table!Forget(w)
  /\ run' = [run EXCEPT ![w] = Idle]
  /\ UNCHANGED <<project, gate, files, deployed, accepted, again>>

Reap(j) ==
  /\ st[j] = "leased"
  /\ doing[holder[j]] # j
  /\ Table!Revoke({j})
  /\ again' = again \cup {j}
  /\ UNCHANGED <<project, gate, files, run, deployed, accepted, faults>>

LoseLease(j) ==
  /\ May("lease")
  /\ st[j] = "leased"
  /\ doing[holder[j]] = j
  /\ Table!Revoke({j})
  /\ again' = again \cup {j}
  /\ UNCHANGED <<project, gate, files, run, deployed, accepted>>

-----------------------------------------------------------------------------

Handle(w) ==
  \/ Ask(w) \/ Settle(w)
  \/ Cross(w) \/ EnqueueInterview(w) \/ Elicit(w) \/ EnqueueSynthesize(w)
  \/ SaveSpec(w) \/ EnqueueSpec(w)
  \/ Reject(w) \/ SaveConsent(w) \/ EnterExecute(w) \/ EnqueueExecute(w)
  \/ Refuse(w) \/ Load(w) \/ Apply(w) \/ Refused(w)
  \/ EnterReview(w) \/ EnqueueDemo(w) \/ EnterTriage(w) \/ EnqueueTriage(w)
  \/ EnqueueRoute(w) \/ Conclude(w) \/ Loop(w) \/ StartLeg(w) \/ Misses(w)

Next ==
  \/ \E w \in Workers : Handle(w) \/ Raise(w) \/ Crash(w)
  \/ \E w \in Workers, j \in Jobs : Claim(w, j)
  \/ \E j \in Jobs : Answer(j) \/ Reap(j) \/ LoseLease(j)

Spec == Init /\ [][Next]_vars

\* Workers run, claim and reap, humans answer, and a job that is retried again
\* and again runs out of its attempts.
OutOfAttempts ==
  \E w \in Workers : Handle(w) /\ run'[w].at = "settle" /\ run'[w].out = "failed"

FairSpec ==
  /\ Spec
  /\ SF_vars(OutOfAttempts)
  /\ \A w \in Workers : WF_vars(Handle(w))
  /\ \A j \in Jobs :
       /\ WF_vars(\E w \in Workers : Claim(w, j))
       /\ WF_vars(Answer(j))
       /\ WF_vars(Reap(j))

-----------------------------------------------------------------------------
(* Properties                                                              *)

Places == {"idle", "start", "crossed", "elicited", "saved", "consented", "entered", "loaded",
           "verified", "reviewing", "broken", "failing", "routed", "settle"}
Targets == Scopes \cup {NoScope}

\* Every variable has its type, a worker is in a handler exactly while it has a
\* job, and whoever waits for a human has asked.
TypeOK ==
  /\ st \in [Jobs -> Table!Open \cup Table!Settled \cup {"absent"}]
  /\ holder \in [Jobs -> Workers \cup {NoWorker}]
  /\ doing \in [Workers -> Jobs \cup {NoJob}]
  /\ phase \in Machine!Phases /\ cycle = 1
  /\ gate \in [Jobs -> {"none", "open", "accept", "reject", "approve", "request_changes", "abort",
                        "loop_code_fix", "loop_design", "retry_execute"} \cup Scopes]
  /\ elicited \in Targets /\ dspec \in Targets /\ consent \in Targets
  /\ run \in [Workers -> [at : Places, out : Table!Open \cup Table!Settled, target : Targets]]
  /\ deployed \subseteq Legs \X Scopes /\ accepted \subseteq Scopes
  /\ again \subseteq Jobs
  /\ \A w \in Workers : run[w].at = "idle" <=> doing[w] = NoJob
  /\ \A j \in Jobs : st[j] = "awaiting_human" => gate[j] # "none"
  /\ faults \in 0 .. MaxFaults

\* Some job of these kinds was handed back after a failure, a crash or a lost lease.
RunAgain(kinds) == \E j \in again : Kind(j) \in kinds

\* Nothing is applied to a target that no human accepted: the stored consent is
\* of the spec the human was asked about.
DeployedAsAccepted == \A d \in deployed : d[2] \in accepted

\* The acceptance binds its consent to what is stored when the job runs.  That is
\* what the human saw unless an acceptance runs a second time, or both an interview
\* and a synthesis do: the first leaves another answer, the second stores it.
DeployedAsAcceptedOnce ==
  \/ RunAgain({"spec"})
  \/ RunAgain({"interview"}) /\ RunAgain({"synthesize"})
  \/ DeployedAsAccepted

\* The cloud is touched in DEPLOY_EXECUTE, and never after the project moved on,
\* unless an execution is run a second time.
AppliesInExecute ==
  [][deployed' # deployed => RunAgain({"execute"}) \/ phase = "DEPLOY_EXECUTE"]_deployed

\* The project moves along the edges of the phase machine and along no other.
ImplementsPhaseMachine == Machine!Spec

Unsettled(j) == st[j] \in {"ready", "leased", "awaiting_human"}
Rejected == \E m \in Legs : gate[<<"spec", m>>] = "reject"

\* A deployment that is not over is going on: its next step is some job's, or its
\* human's, who may have rejected the spec.
NotStranded ==
  \/ phase \in {"DONE", "DESIGN"}
  \/ Rejected
  \/ \E j \in Jobs : Unsettled(j)
  \/ \E w \in Workers : doing[w] # NoJob

\* The jobs that move the phase before they insert the next one and do not
\* suppress a miss.
Movers == {"spec", "execute", "route demo", "route triage"}

\* Only the second run of one of those strands the project, as long as no job
\* fails more often than it is retried.
StrandedOnlyByReplay == faults > 1 \/ RunAgain(Movers) \/ NotStranded

\* A replayed execution broke again, in a phase that a later leg moved to execute:
\* it takes that phase to review, where its own triage is settled already.
TriagedInVain == \E w \in Workers : At(w, "execute", "failing") /\ st[<<"triage", Of(w)>>] # "absent"

\* A deployment ends whatever the cloud does, by way of a triage and its routes as
\* well: unless a spec is rejected, or the retry of an execution that failed takes
\* the phase from the leg that its triage started.
DeployEnds == [](faults = 0 /\ ~Rejected /\ ~TriagedInVain) => <>(phase \in {"DONE", "DESIGN"})
=============================================================================
