---------------------------- MODULE EngineRotation ----------------------------
(***************************************************************************)
(* Which engine runs the next BUILD job of a project: smooth weighted      *)
(* round robin over the engines whose circuit admits them, with the        *)
(* exclusions and the stickiness that the job's own row asks for, and the  *)
(* health row that the outcome of the run is written back to.              *)
(*                                                                         *)
(* The cursors and the health rows are shared by the workers of a project. *)
(* A selection reads the health rows, then the cursors, and writes the     *)
(* cursors in a transaction of its own; recording it reads a health row    *)
(* and writes the whole row back.  Each is an action, so that selections   *)
(* overlap, and a worker may die between any two.                          *)
(*                                                                         *)
(* The decay of an engine's failures, its fidelity and its cost are at 1;  *)
(* the circuit and the warm session make the weights differ.               *)
(*                                                                         *)
(* Definitions named M... are plausible faults; no action uses them.       *)
(***************************************************************************)
EXTENDS Integers, FiniteSets, Functions

CONSTANTS
  Workers, Engines, NoEngine,
  Base, Order,  \* the base weight of each engine, and its place in the rotation
  Verified,     \* bound: the engines whose implementations are up for a verify job
  MaxAttempt,   \* bound: attempts of a job
  MaxWait,      \* the longest wait of a candidate, in selections it takes part in
  MaxLost,      \* bound: selections that overwrite another's
  MaxFaults     \* bound: crashes

ASSUME EngineAssumption ==
  IsFiniteSet(Engines) /\ NoEngine \notin Engines /\ Verified \subseteq Engines
ASSUME WeightAssumption == Base \in [Engines -> Nat \ {0}]
ASSUME OrderAssumption ==
  Order \in [Engines -> Nat] /\ \A d, e \in Engines : Order[d] = Order[e] => d = e

ASSUME BoundAssumption == MaxAttempt \in Nat \ {0} /\ {MaxWait, MaxLost, MaxFaults} \subseteq Nat

VARIABLES
  cursor,   \* rotation_cursor.current of each engine
  circuit,  \* engine_health.circuit of each engine; "due": open, resets_at passed
  job,      \* the job that each worker has
  run,      \* where each worker is in its selection, and what it read
  resting,  \* history: rejected engines whose deadline has not passed
  torn,     \* history: engines whose row was last written from a stale read
  waits,    \* history: selections each engine lost since it last won, while lost = 0
  lost,     \* history: selections that overwrote another's cursors
  faults

history == <<resting, torn, waits, lost>>
vars == <<cursor, circuit, job, run, history, faults>>

\* A job as selection sees it: a verify job bars the engine that implemented.  For
\* an implement job there is the engine last assigned to it, and as its history the
\* engine of its last attempt, if that failed at its work.
NoJob == [kind |-> "none", attempt |-> 0, barred |-> {}, assigned |-> NoEngine,
          failed |-> NoEngine]
Fresh(kind, barred) == [NoJob EXCEPT !.kind = kind, !.barred = barred, !.attempt = 1]

Idle == [at |-> "idle", weight |-> <<>>, current |-> <<>>, engine |-> NoEngine, row |-> "closed"]

Init ==
  /\ cursor = [e \in Engines |-> 0]
  /\ circuit = [e \in Engines |-> "closed"]
  /\ job = [w \in Workers |-> NoJob]
  /\ run = [w \in Workers |-> Idle]
  /\ resting = {} /\ torn = {} /\ waits = [e \in Engines |-> 0] /\ lost = 0
  /\ faults = 0

-----------------------------------------------------------------------------
(* What a job asks of its selection                                        *)

\* Two attempts on each tier of the BUILD ladder.
Tier(attempt) == (attempt + 1) \div 2
Escalates(j) == j.attempt > 1 /\ Tier(j.attempt) > Tier(j.attempt - 1)
Retries(j) == j.kind = "implement" /\ j.attempt > 1 /\ j.assigned # NoEngine

MExcludedBarred(j) == j.barred
Excluded(j) == IF Retries(j) /\ Escalates(j) THEN j.barred \cup {j.assigned} ELSE j.barred

Warm(j, e) == Retries(j) /\ ~Escalates(j) /\ e = j.assigned /\ e \notin j.barred

\* round() of a number of quarters, to even at a half, and never 0.
Rounded(quarters) ==
  LET n == quarters \div 4
      up == quarters % 4 = 3 \/ (quarters % 4 = 2 /\ n % 2 = 1)
  IN  IF up THEN n + 1 ELSE IF n = 0 THEN 1 ELSE n

Weight(j, e) ==
  Rounded(Base[e] * (IF circuit[e] = "closed" THEN 4 ELSE 1) * (IF Warm(j, e) THEN 2 ELSE 1))

Eligible(j) == {e \in Engines : circuit[e] # "open" /\ e \notin Excluded(j)}

\* A worker claims its job again, or a new one.
Claims(w) ==
  IF job[w] # NoJob THEN {[job[w] EXCEPT !.attempt = @ + 1]}
  ELSE {Fresh("implement", {})} \cup {Fresh("verify", {e}) : e \in Verified}

\* A deferral gives the attempt back.
Deferred(j) == [j EXCEPT !.attempt = @ - 1, !.failed = NoEngine]

-----------------------------------------------------------------------------
(* A selection                                                             *)

\* The health rows are read, and with them go the candidates and their weights.
Look(w) ==
  /\ run[w].at = "idle"
  /\ \E j \in Claims(w) :
       /\ Eligible(j) # {}
       /\ job' = [job EXCEPT ![w] = j]
       /\ run' = [run EXCEPT ![w] = [Idle EXCEPT !.at = "reading",
                                                 !.weight = [e \in Eligible(j) |-> Weight(j, e)]]]
  /\ UNCHANGED <<cursor, circuit, history, faults>>

NoneEligible(w) ==
  /\ run[w].at = "idle"
  /\ \E j \in Claims(w) : Eligible(j) = {} /\ job' = [job EXCEPT ![w] = Deferred(j)]
  /\ UNCHANGED <<cursor, circuit, run, history, faults>>

ReadCursors(w) ==
  /\ run[w].at = "reading"
  /\ run' = [run EXCEPT ![w].at = "advancing",
                        ![w].current = [e \in DOMAIN run[w].weight |-> cursor[e]]]
  /\ UNCHANGED <<cursor, circuit, job, history, faults>>

\* Smooth weighted round robin: everyone gains its weight, and the one that is
\* furthest ahead pays for all.
Bumped(w) == [e \in DOMAIN run[w].weight |-> run[w].current[e] + run[w].weight[e]]
TotalWeight(w) == SumFunctionOnSet(run[w].weight, DOMAIN run[w].weight)

MWinnerByOrder(w) ==
  CHOOSE e \in DOMAIN run[w].weight : \A d \in DOMAIN run[w].weight : Order[e] <= Order[d]

Winner(w) ==
  CHOOSE e \in DOMAIN run[w].weight :
    \A d \in DOMAIN run[w].weight :
      \/ Bumped(w)[e] > Bumped(w)[d]
      \/ Bumped(w)[e] = Bumped(w)[d] /\ Order[e] <= Order[d]

MPays(w) == [Bumped(w) EXCEPT ![Winner(w)] = @ - run[w].weight[Winner(w)]]
Paid(w) == [Bumped(w) EXCEPT ![Winner(w)] = @ - TotalWeight(w)]

Advance(w) ==
  /\ run[w].at = "advancing"
  /\ LET candidates == DOMAIN run[w].weight
         stale == \E e \in candidates : cursor[e] # run[w].current[e]
     IN  /\ stale => lost < MaxLost
         /\ cursor' = [e \in Engines |-> IF e \in candidates THEN Paid(w)[e] ELSE cursor[e]]
         /\ lost' = IF stale THEN lost + 1 ELSE lost
         /\ waits' = [e \in Engines |->
                        CASE e = Winner(w) \/ lost' > 0 -> 0
                          [] e \notin candidates       -> waits[e]
                          [] OTHER                     -> waits[e] + 1]
  /\ run' = [run EXCEPT ![w] = [Idle EXCEPT !.at = "selected", !.engine = Winner(w)]]
  /\ UNCHANGED <<circuit, job, resting, torn, faults>>

\* The selection is counted in the winner's health row, ...
GetSelected(w) ==
  /\ run[w].at = "selected"
  /\ run' = [run EXCEPT ![w].at = "recording", ![w].row = circuit[run[w].engine]]
  /\ UNCHANGED <<cursor, circuit, job, history, faults>>

\* ... which is written back as it was read, and then the engine into the job's row.
\* The code has two statements: no other worker reads that row, so only a crash could
\* tell the two apart, and EscalationRotates excepts a job whose worker crashed.
MWriteClosed(w) ==
  /\ circuit' = [circuit EXCEPT ![run[w].engine] = "closed"]
  /\ UNCHANGED torn

WriteBack(w) ==
  LET e == run[w].engine
  IN  /\ circuit' = [circuit EXCEPT ![e] = run[w].row]
      /\ torn' = IF circuit[e] = run[w].row THEN torn ELSE torn \cup {e}

RecordSelection(w) ==
  /\ run[w].at = "recording"
  /\ WriteBack(w)
  /\ job' = [job EXCEPT ![w].assigned = IF job[w].kind = "implement" THEN run[w].engine ELSE @]
  /\ run' = [run EXCEPT ![w].at = "running", ![w].row = "closed"]
  /\ UNCHANGED <<cursor, resting, waits, lost, faults>>

-----------------------------------------------------------------------------
(* The run and its outcome                                                 *)

Record(w, state) ==
  /\ circuit' = [circuit EXCEPT ![run[w].engine] = state]
  /\ torn' = torn \ {run[w].engine}
  /\ UNCHANGED <<cursor, waits, lost, faults>>

\* A success closes the circuit, ...
Succeed(w) ==
  /\ run[w].at = "running"
  /\ Record(w, "closed")
  /\ resting' = resting \ {run[w].engine}
  /\ job' = [job EXCEPT ![w] = NoJob]
  /\ run' = [run EXCEPT ![w] = Idle]

\* ... a capacity rejection opens it until the deferred job is due again, ...
Reject(w) ==
  /\ run[w].at = "running"
  /\ Record(w, "open")
  /\ resting' = resting \cup {run[w].engine}
  /\ job' = [job EXCEPT ![w] = Deferred(@)]
  /\ run' = [run EXCEPT ![w] = Idle]

\* ... and a failure of the work leaves it alone.  The last attempt asks a human.
Fail(w) ==
  /\ run[w].at = "running"
  /\ job' = [job EXCEPT ![w] = IF @.attempt = MaxAttempt THEN NoJob
                               ELSE [@ EXCEPT !.failed = IF job[w].kind = "implement"
                                                            THEN run[w].engine ELSE NoEngine]]
  /\ run' = [run EXCEPT ![w] = Idle]
  /\ UNCHANGED <<cursor, circuit, history, faults>>

\* The deadline of a rejection passes.
DeadlinePasses(e) ==
  /\ circuit[e] = "open" \/ e \in resting
  /\ circuit' = [circuit EXCEPT ![e] = IF @ = "open" THEN "due" ELSE @]
  /\ resting' = resting \ {e}
  /\ UNCHANGED <<cursor, job, run, torn, waits, lost, faults>>

\* The process dies; its job is reaped and costs an attempt.
Crash(w) ==
  /\ faults < MaxFaults
  /\ run[w].at # "idle"
  /\ job' = [job EXCEPT ![w] = IF @.attempt = MaxAttempt THEN NoJob
                               ELSE [@ EXCEPT !.failed = NoEngine]]
  /\ run' = [run EXCEPT ![w] = Idle]
  /\ faults' = faults + 1
  /\ UNCHANGED <<cursor, circuit, history>>

-----------------------------------------------------------------------------

Select(w) ==
  \/ Look(w) \/ NoneEligible(w) \/ ReadCursors(w) \/ Advance(w)
  \/ GetSelected(w) \/ RecordSelection(w)

Next ==
  \/ \E w \in Workers : Select(w) \/ Succeed(w) \/ Reject(w) \/ Fail(w) \/ Crash(w)
  \/ \E e \in Engines : DeadlinePasses(e)

Spec == Init /\ [][Next]_vars

-----------------------------------------------------------------------------
(* Properties                                                              *)

Places == {"idle", "reading", "advancing", "selected", "recording", "running"}
Circuits == {"closed", "open", "due"}

\* Every variable has its type, and whoever runs has a job and an engine that the
\* job does not bar.
TypeOK ==
  /\ cursor \in [Engines -> Int]
  /\ circuit \in [Engines -> Circuits]
  /\ \A w \in Workers :
       /\ job[w].kind \in {"none", "implement", "verify"}
       /\ job[w].attempt \in 0 .. MaxAttempt
       /\ job[w].barred \subseteq Engines
       /\ {job[w].assigned, job[w].failed} \subseteq Engines \cup {NoEngine}
       /\ run[w].at \in Places /\ run[w].engine \in Engines \cup {NoEngine}
       /\ run[w].row \in Circuits
       /\ run[w].at = "running" => job[w] # NoJob /\ run[w].engine \in Engines \ job[w].barred
  /\ resting \subseteq Engines /\ torn \subseteq Engines
  /\ waits \in [Engines -> Nat] /\ lost \in 0 .. MaxLost /\ faults \in 0 .. MaxFaults

\* What the winners paid is what the others gained: the cursors cancel out, under
\* any membership of the rotation and any weights, until two selections overlap.
Balanced == lost > 0 \/ SumFunctionOnSet(cursor, Engines) = 0

\* No engine is starved: whatever the others' circuits and the stickiness of the
\* jobs do, a candidate wins one of the next MaxWait + 1 selections it is in.
NoStarvation == lost > 0 \/ \A e \in Engines : waits[e] <= MaxWait

\* An attempt on a higher tier of the ladder does not go to the engine that failed
\* the tier below, unless the job was deferred or lost its worker in between.
EscalationRotates ==
  \A w \in Workers :
    run[w].at = "running" /\ job[w].kind = "implement" /\ Escalates(job[w])
      => run[w].engine # job[w].failed

\* A rejected engine is out until its deadline or until it succeeds: no worker's
\* bookkeeping lets it in, unless the row was written from a stale read.
RejectionStands == \A e \in resting : circuit[e] = "open" \/ e \in torn
=============================================================================
