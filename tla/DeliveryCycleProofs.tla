-------------------------- MODULE DeliveryCycleProofs --------------------------
(***************************************************************************)
(* The safety of DeliveryCycle for any number of workers, cycles, findings *)
(* and faults.  Basis holds whatever goes wrong.  Course is what holds as  *)
(* long as nothing does: BUILD and REVIEW are one line of jobs, of which   *)
(* one is at work, at the cycle of the project row.                        *)
(***************************************************************************)
EXTENDS DeliveryCycle, TLAPS

USE CycleAssumption, RepliesAssumption, NullAssumption
USE DEF table, project, stores, Table!Open, Table!Settled

-----------------------------------------------------------------------------
(* What holds whatever goes wrong                                          *)

\* A row is leased exactly while somebody holds it, and a worker's job is in the table.
Tabled ==
  /\ \A j \in Jobs : holder[j] # NoWorker <=> st[j] = "leased"
  /\ \A w \in Workers : doing[w] # NoJob => st[doing[w]] # "absent"

\* Whoever is about to park has asked, and the loop-back leads to a cycle.
Placed(w) ==
  /\ run[w].at = "settle" /\ run[w].out = "awaiting_human" => gate[doing[w]] # "none"
  /\ run[w].at \in {"looped", "carried"} => Kind(doing[w]) = "triage" /\ Of(w) < MaxCycle
  /\ run[w].at = "carried" => Of(w) + 1 \in spec

\* Between its check and its move a command relies on what it has read, and what it
\* is about to insert is due.
Commanding ==
  /\ cli.at = "checked" =>
       /\ <<cli.from, cli.to>> \in {<<"DESIGN", "BUILD">>, <<"DESIGN", "VISUAL_DESIGN">>,
                                    <<"VISUAL_DESIGN", "BUILD">>}
       /\ phase = cli.from /\ cycle \in spec
  /\ cli.at = "insert" => /\ cli.job \in Jobs
                          /\ Kind(cli.job) \in {"interview", "inventory", "decompose"}
                          /\ Kind(cli.job) = "decompose" => Cycle(cli.job) \in spec
  /\ phase = "VISUAL_DESIGN" => cycle \in spec

Basis ==
  /\ TypeOK /\ Tabled /\ Commanding /\ WorkHasSpec
  /\ \A w \in Workers : doing[w] # NoJob => Placed(w)

-----------------------------------------------------------------------------
(* What holds as long as nothing has gone wrong                            *)

\* Workers and rows agree on who does what.
Agreed ==
  /\ \A j \in Jobs : st[j] = "leased" => doing[holder[j]] = j
  /\ \A w \in Workers : doing[w] # NoJob => holder[doing[w]] = w

\* How far a job is: what is decided about it counts, whether reported or not.
Result(s) ==
  IF s = "succeeded" THEN "over" ELSE IF s \in {"ready", "awaiting_human"} THEN "waiting" ELSE s
Doing(r) ==
  IF r.at = "settle" THEN Result(r.out)
  ELSE IF r.at = "looped" /\ r.seen \cap Vague # {} THEN "redesigning"
  ELSE IF r.at \in {"looped", "carried"} THEN "rebuilding"
  ELSE r.at
Mode(j) == IF st[j] = "leased" THEN Doing(run[holder[j]]) ELSE Result(st[j])

Common == {"absent", "waiting", "start", "over"}
Modes(kind) ==
  CASE kind = "interview" -> Common \cup {"elicited"}
    [] kind = "integrate" -> Common \cup {"entered"}
    [] kind = "demo"      -> Common \cup {"superseding", "raising"}
    [] kind = "collect"   -> Common \cup {"taken"}
    [] kind = "triage"    -> Common \cup {"triaged", "redesigning", "rebuilding"}
    [] kind = "choice"    -> Common \cup {"opted"}
    [] kind = "deploy"    -> {"absent", "waiting"}
    [] OTHER              -> Common

\* The jobs of BUILD and REVIEW.
Line == {"decompose", "plan", "integrate", "demo", "collect", "triage", "choice"}

Untouched(c) == Mode(Decompose(c)) = "absent" /\ Mode(Plan(c)) = "absent"
Commanded(c) == cli.at = "insert" /\ cli.job = Decompose(c)

\* Cycles to come are untouched, and those behind are over.
Elsewhere ==
  \A j \in Jobs :
    /\ Kind(j) \in Line \cup {"deploy"} /\ Cycle(j) > cycle => Mode(j) = "absent"
    /\ Kind(j) \in Line /\ Cycle(j) < cycle =>
         \/ Mode(j) \in {"absent", "over"}
         \/ Kind(j) = "triage" /\ Mode(j) \in {"redesigning", "rebuilding"}

\* In the cycle of the row each job of the line is inserted when the one before it
\* is over, and at once.
InOrder(c) ==
  /\ Mode(Decompose(c)) = "absent" \/ Mode(Plan(c)) = "absent"
  /\ "over" \in {Mode(Decompose(c)), Mode(Plan(c))} <=> Mode(Integrate(c)) # "absent"
  /\ Mode(Integrate(c)) = "over" <=> Mode(Demo(c)) # "absent"
  /\ Mode(Demo(c)) = "over" <=> Mode(Collect(c)) # "absent"
  /\ Mode(Triage(c)) # "absent" => Mode(Collect(c)) = "over"
  /\ Mode(Collect(c)) = "over" =>
       Mode(Triage(c)) # "absent" \/ gate[Collect(c)] \in {"question", "cancel"}
  /\ Mode(Triage(c)) = "over" <=> Mode(Choice(c)) # "absent"
  /\ Mode(Triage(c)) \notin {"redesigning", "rebuilding"}
  /\ Mode(Choice(c)) # "absent" => open = {}

\* The phase of the row is the one of the job at work.
InPhase(c) ==
  /\ phase \in {"INTAKE", "DESIGN", "VISUAL_DESIGN", "BUILD", "REVIEW", "DEPLOY", "DONE"}
  /\ phase \in {"INTAKE", "DESIGN", "VISUAL_DESIGN"} => Untouched(c)
  /\ phase = "BUILD" => Mode(Integrate(c)) \notin {"entered", "over"}
  /\ phase = "REVIEW" => /\ Mode(Integrate(c)) \in {"entered", "over"}
                         /\ Mode(Choice(c)) \notin {"opted", "over"}
  /\ phase = "DEPLOY" => \/ Mode(Choice(c)) = "opted"
                         \/ Mode(Choice(c)) = "over" /\ Mode(Deploy(c)) # "absent"
  /\ phase = "DONE" => Mode(Choice(c)) = "over"

\* Whoever has moved the row to a design or to BUILD inserts its first job.
Pending(c) ==
  /\ Commanded(c) => c = cycle /\ phase = "BUILD" /\ Untouched(c)
  /\ Mode(Triage(c)) = "rebuilding" =>
       c + 1 = cycle /\ phase = "BUILD" /\ Untouched(c + 1) /\ ~Commanded(c + 1)
  /\ c = cycle /\ phase = "BUILD" =>
       ~Untouched(c) \/ Commanded(c) \/ (c > 1 /\ Mode(Triage(c - 1)) = "rebuilding")
  /\ c = cycle /\ phase = "VISUAL_DESIGN" =>
       Mode(Inventory(c)) # "absent" \/ (cli.at = "insert" /\ cli.job = Inventory(c))

\* A design goes on to its acceptance.
Designing(c) ==
  /\ \A o \in {"entry", "loop"} :
       /\ Mode(Interview(c, o)) \in {"elicited", "over"} => c \in elicited
       /\ Mode(Interview(c, o)) = "over" => Mode(Synthesize(c)) # "absent"
  /\ Mode(Synthesize(c)) = "over" => c \in spec
  /\ Mode(Inventory(c)) = "over" => c \in inventory
  /\ c \in asked => \E o \in {"entry", "loop"} : Mode(Interview(c, o)) # "absent"

\* What triage has read of the ledger still holds.
Informed == \A w \in Workers : run[w].at = "triaged" => run[w].seen = open

Course ==
  /\ Agreed /\ Informed
  /\ \A j \in Jobs : Mode(j) \in Modes(Kind(j))
  /\ Elsewhere
  /\ \A c \in Cycles : /\ Pending(c) /\ Designing(c)
                       /\ c = cycle => InOrder(c) /\ InPhase(c)

IInv == Basis /\ (faults = 0 => Course)
-----------------------------------------------------------------------------
(* The jobs                                                                *)

\* What the names of the jobs stand for.
LEMMA JobsAre ==
  ASSUME NEW c \in Cycles
  PROVE  /\ \A o \in {"entry", "loop"} :
              /\ Interview(c, o) \in Jobs
              /\ Kind(Interview(c, o)) = "interview" /\ Cycle(Interview(c, o)) = c
         /\ Synthesize(c) \in Jobs /\ Kind(Synthesize(c)) = "synthesize" /\ Cycle(Synthesize(c)) = c
         /\ Inventory(c) \in Jobs /\ Kind(Inventory(c)) = "inventory" /\ Cycle(Inventory(c)) = c
         /\ Decompose(c) \in Jobs /\ Kind(Decompose(c)) = "decompose" /\ Cycle(Decompose(c)) = c
         /\ Plan(c) \in Jobs /\ Kind(Plan(c)) = "plan" /\ Cycle(Plan(c)) = c
         /\ Integrate(c) \in Jobs /\ Kind(Integrate(c)) = "integrate" /\ Cycle(Integrate(c)) = c
         /\ Demo(c) \in Jobs /\ Kind(Demo(c)) = "demo" /\ Cycle(Demo(c)) = c
         /\ Collect(c) \in Jobs /\ Kind(Collect(c)) = "collect" /\ Cycle(Collect(c)) = c
         /\ Triage(c) \in Jobs /\ Kind(Triage(c)) = "triage" /\ Cycle(Triage(c)) = c
         /\ Choice(c) \in Jobs /\ Kind(Choice(c)) = "choice" /\ Cycle(Choice(c)) = c
         /\ Deploy(c) \in Jobs /\ Kind(Deploy(c)) = "deploy" /\ Cycle(Deploy(c)) = c
BY DEF Jobs, Single, Kind, Cycle, Interview, Synthesize, Inventory, Decompose, Plan, Integrate,
       Demo, Collect, Triage, Choice, Deploy

\* A job is known by its kind and its cycle.
LEMMA JobIs ==
  ASSUME NEW j \in Jobs
  PROVE  /\ Kind(j) \in Single \cup {"interview"} /\ Cycle(j) \in Cycles
         /\ Kind(j) = "interview" => \E o \in {"entry", "loop"} : j = Interview(Cycle(j), o)
         /\ Kind(j) = "synthesize" => j = Synthesize(Cycle(j))
         /\ Kind(j) = "inventory" => j = Inventory(Cycle(j))
         /\ Kind(j) = "decompose" => j = Decompose(Cycle(j))
         /\ Kind(j) = "plan" => j = Plan(Cycle(j))
         /\ Kind(j) = "integrate" => j = Integrate(Cycle(j))
         /\ Kind(j) = "demo" => j = Demo(Cycle(j))
         /\ Kind(j) = "collect" => j = Collect(Cycle(j))
         /\ Kind(j) = "triage" => j = Triage(Cycle(j))
         /\ Kind(j) = "choice" => j = Choice(Cycle(j))
         /\ Kind(j) = "deploy" => j = Deploy(Cycle(j))
<1>1. CASE j \in {"interview"} \X Cycles \X {"entry", "loop"}
  BY <1>1 DEF Kind, Cycle, Interview
<1>2. CASE j \in Single \X Cycles
  BY <1>2 DEF Single, Kind, Cycle, Synthesize, Inventory, Decompose, Plan, Integrate,
              Demo, Collect, Triage, Choice, Deploy
<1> QED BY <1>1, <1>2 DEF Jobs

-----------------------------------------------------------------------------
(* Basis: a handler takes a step                                           *)

Outcomes == {"ready", "leased", "awaiting_human", "succeeded", "failed"}
RunRecords == [at : Places, out : Outcomes, seen : SUBSET Findings]
RowStates == Outcomes \cup {"absent"}
Gates == {"none", "open", "answers", "deploy", "local_only"} \cup Replies
Commands == [at : {"idle", "checked", "insert"}, from : Machine!Phases, to : Machine!Phases,
             job : Jobs \cup {NoJob}]

TableTyped ==
  /\ st \in [Jobs -> RowStates]
  /\ holder \in [Jobs -> Workers \cup {NoWorker}]
  /\ doing \in [Workers -> Jobs \cup {NoJob}]

RowTyped == phase \in Machine!Phases /\ cycle \in Cycles

LedgerTyped ==
  /\ elicited \subseteq Cycles /\ asked \subseteq Cycles
  /\ spec \subseteq Cycles /\ inventory \subseteq Cycles
  /\ open \subseteq Findings
  /\ gate \in [Jobs -> Gates]

\* The parts of the type invariant, by name.
LEMMA Typed ==
  TypeOK <=> /\ TableTyped /\ RowTyped /\ LedgerTyped
             /\ cli \in Commands /\ run \in [Workers -> RunRecords] /\ faults \in 0 .. MaxFaults
             /\ \A w \in Workers : run[w].at = "idle" <=> doing[w] = NoJob
             /\ \A j \in Jobs : st[j] = "awaiting_human" => gate[j] # "none"
BY DEF TypeOK, TableTyped, RowTyped, LedgerTyped, RowStates, Outcomes, RunRecords, Gates, Commands

\* The same of the next state.
LEMMA TypedNext ==
  ASSUME TableTyped', RowTyped', LedgerTyped',
         cli' \in Commands, run' \in [Workers -> RunRecords], faults' \in 0 .. MaxFaults,
         \A w \in Workers : run'[w].at = "idle" <=> doing'[w] = NoJob,
         \A j \in Jobs : st'[j] = "awaiting_human" => gate'[j] # "none"
  PROVE  TypeOK'
BY DEF TypeOK, TableTyped, RowTyped, LedgerTyped, RowStates, Outcomes, RunRecords, Gates, Commands

\* Worker w, which executes j, goes on as r.
Goes(w, j, r) ==
  /\ run[w].at # "idle" /\ j = doing[w]
  /\ r \in RunRecords /\ r.at # "idle"
  /\ run' = [run EXCEPT ![w] = r]

\* Rows are added, and no row changes.
Grows ==
  /\ TableTyped' /\ UNCHANGED <<holder, doing>>
  /\ \A j \in Jobs : st'[j] = st[j] \/ (st[j] = "absent" /\ st'[j] = "ready")

\* What is added to the table has its spec.
Due == \A j \in Jobs : Kind(j) \in Downstream /\ st'[j] # st[j] => Cycle(j) \in spec'

\* No step takes back a spec or a gate, or disturbs a design phase.
Kept ==
  /\ spec \subseteq spec'
  /\ \A j \in Jobs : gate[j] # "none" => gate'[j] # "none"
  /\ UNCHANGED project \/ (phase \in {"BUILD", "REVIEW"} /\ phase' # "VISUAL_DESIGN")

\* What w has to show of its next place.
Fits(j, r) ==
  /\ r.at = "settle" /\ r.out = "awaiting_human" => gate'[j] # "none"
  /\ r.at \in {"looped", "carried"} => Kind(j) = "triage" /\ Cycle(j) < MaxCycle
  /\ r.at = "carried" => Cycle(j) + 1 \in spec'

\* A worker in a handler has a job of the table, and its record is typed.
LEMMA AtWork ==
  ASSUME Basis, NEW w \in Workers, run[w].at # "idle"
  PROVE  /\ doing[w] \in Jobs /\ doing[w] # NoJob /\ st[doing[w]] # "absent" /\ Placed(w)
         /\ run[w] \in RunRecords /\ run \in [Workers -> RunRecords]
         /\ Of(w) = Cycle(doing[w]) /\ Of(w) \in Cycles
<1>1. doing[w] \in Jobs /\ doing[w] # NoJob /\ st[doing[w]] # "absent" /\ Placed(w)
  BY DEF Basis, TypeOK, Tabled
<1>2. run[w] \in RunRecords /\ run \in [Workers -> RunRecords]
  BY Typed DEF Basis
<1>3. Cycle(doing[w]) \in Cycles
  BY <1>1, JobIs
<1> QED BY <1>1, <1>2, <1>3 DEF Of

\* What a step of a handler has to show for Basis.
LEMMA BasisStep ==
  ASSUME Basis, NEW w \in Workers, NEW j \in Jobs, NEW r, Goes(w, j, r), Fits(j, r),
         Grows, Due, Kept, RowTyped', LedgerTyped', UNCHANGED cli, faults' \in 0 .. MaxFaults
  PROVE  Basis'
<1>1. /\ TypeOK /\ Tabled /\ Commanding /\ WorkHasSpec /\ run \in [Workers -> RunRecords]
      /\ cli \in Commands
  BY Typed DEF Basis
<1>2. /\ run'[w] = r /\ \A v \in Workers \ {w} : run'[v] = run[v]
      /\ run' \in [Workers -> RunRecords]
  BY <1>1 DEF Goes
<1>3. doing[w] # NoJob /\ doing[w] = j
  BY DEF Goes, Basis, TypeOK
<1>4. TypeOK'
  <2>1. \A v \in Workers : run'[v].at = "idle" <=> doing'[v] = NoJob
    BY <1>1, <1>2, <1>3 DEF Goes, Grows, TypeOK
  <2>2. \A k \in Jobs : st'[k] = "awaiting_human" => gate'[k] # "none"
    BY <1>1 DEF Grows, Kept, TypeOK
  <2> QED BY <1>1, <1>2, <2>1, <2>2, TypedNext DEF Grows
<1>5. Tabled'
  BY <1>1 DEF Tabled, Grows, TypeOK
<1>6. Commanding'
  BY <1>1 DEF Commanding, Kept
<1>7. WorkHasSpec'
  BY <1>1 DEF WorkHasSpec, Due, Kept, Grows
<1>8. ASSUME NEW v \in Workers, doing'[v] # NoJob PROVE Placed(v)'
  <2>1. CASE v = w
    BY <1>2, <1>3, <2>1 DEF Placed, Fits, Grows, Of
  <2>2. CASE v # w
    <3>1. /\ doing'[v] = doing[v] /\ run'[v] = run[v] /\ Placed(v) /\ doing[v] \in Jobs
      BY <1>2, <1>8, <2>2 DEF Grows, Basis, TypeOK
    <3> QED BY <3>1 DEF Placed, Kept, Of
  <2> QED BY <2>1, <2>2
<1> QED BY <1>4, <1>5, <1>6, <1>7, <1>8 DEF Basis

\* Worker w goes on to a place with what it has seen.
Onto(w, place, seen) == run' = [run EXCEPT ![w] = [run[w] EXCEPT !.at = place, !.seen = seen]]

\* A handler that goes to a place with what it has seen.
LEMMA Onward ==
  ASSUME Basis, NEW w \in Workers, run[w].at # "idle", NEW place \in Places \ {"idle"},
         NEW seen \in SUBSET Findings,
         Onto(w, place, seen)
  PROVE  \E j \in Jobs, r \in RunRecords :
           Goes(w, j, r) /\ j = doing[w] /\ r.at = place /\ r.seen = seen
<1> DEFINE r == [run[w] EXCEPT !.at = place, !.seen = seen]
<1>1. run[w] \in RunRecords /\ doing[w] \in Jobs
  BY AtWork
<1>2. r \in RunRecords /\ r.at = place /\ r.seen = seen
  BY <1>1 DEF RunRecords
<1>3. run' = [run EXCEPT ![w] = r]
  BY DEF Onto
<1> HIDE DEF r
<1>4. Goes(w, doing[w], r)
  BY <1>2, <1>3 DEF Goes
<1> QED BY <1>1, <1>2, <1>4

\* A handler that goes on takes along what it has seen.
LEMMA Going ==
  ASSUME Basis, NEW w \in Workers, run[w].at # "idle", NEW place \in Places \ {"idle"},
         Goto(w, place)
  PROVE  \E j \in Jobs, r \in RunRecords :
           Goes(w, j, r) /\ j = doing[w] /\ r.at = place /\ r.seen = run[w].seen
<1> DEFINE r == [run[w] EXCEPT !.at = place]
<1>1. run[w] \in RunRecords /\ run \in [Workers -> RunRecords] /\ doing[w] \in Jobs
  BY AtWork
<1>2. r \in RunRecords /\ r.at = place /\ r.seen = run[w].seen
  BY <1>1 DEF RunRecords
<1>3. run' = [run EXCEPT ![w] = r]
  BY <1>1 DEF Goto
<1> HIDE DEF r
<1>4. Goes(w, doing[w], r)
  BY <1>2, <1>3 DEF Goes
<1> QED BY <1>1, <1>2, <1>4

\* A handler that returns has seen nothing.
LEMMA Returning ==
  ASSUME Basis, NEW w \in Workers, run[w].at # "idle", NEW o \in Outcomes, Return(w, o)
  PROVE  \E j \in Jobs, r \in RunRecords :
           /\ Goes(w, j, r) /\ j = doing[w]
           /\ r.at = "settle" /\ r.out = o /\ r.seen = {}
<1> DEFINE r == [at |-> "settle", out |-> o, seen |-> {}]
<1>1. doing[w] \in Jobs
  BY AtWork
<1>2. r \in RunRecords /\ r.at = "settle" /\ r.out = o /\ r.seen = {}
  BY DEF RunRecords, Places
<1>3. run' = [run EXCEPT ![w] = r]
  BY DEF Return
<1> HIDE DEF r
<1>4. Goes(w, doing[w], r)
  BY <1>2, <1>3 DEF Goes
<1> QED BY <1>1, <1>2, <1>4

\* A step that leaves the table alone adds nothing.
LEMMA SameTable ==
  ASSUME Basis, UNCHANGED table
  PROVE  Grows /\ Due
BY Typed DEF Basis, Grows, Due, TableTyped

\* An insertion adds a row or nothing.
LEMMA Adding ==
  ASSUME Basis, NEW n \in Jobs, Enqueue(n), Kind(n) \in Downstream => Cycle(n) \in spec'
  PROVE  Grows /\ Due
<1>1. TableTyped
  BY Typed DEF Basis
<1>2. CASE Table!Offer(n)
  <2>1. st' = [st EXCEPT ![n] = "ready"] /\ st[n] = "absent" /\ UNCHANGED <<holder, doing>>
    BY <1>2 DEF Table!Offer
  <2>2. TableTyped'
    BY <1>1, <2>1 DEF TableTyped, RowStates, Outcomes
  <2>3. \A j \in Jobs \ {n} : st'[j] = st[j]
    BY <1>1, <2>1 DEF TableTyped
  <2>4. st'[n] = "ready"
    BY <1>1, <2>1 DEF TableTyped
  <2> QED BY <2>1, <2>2, <2>3, <2>4 DEF Grows, Due
<1>3. CASE UNCHANGED table
  BY <1>3, SameTable
<1> QED BY <1>2, <1>3 DEF Enqueue

\* The rest of the state is typed when it does not change.
LEMMA SameRest ==
  ASSUME Basis
  PROVE  /\ UNCHANGED project => RowTyped'
         /\ UNCHANGED <<stores, open, gate>> => LedgerTyped'
         /\ UNCHANGED <<project, stores, gate>> => Kept
         /\ UNCHANGED faults => faults' \in 0 .. MaxFaults
<1>1. RowTyped /\ LedgerTyped /\ faults \in 0 .. MaxFaults
  BY Typed DEF Basis
<1> QED BY <1>1 DEF RowTyped, LedgerTyped, Kept

\* The places a handler can go to.
LEMMA PlacesAre ==
  /\ {"start", "elicited", "entered", "superseding", "raising", "taken", "triaged", "looped",
      "carried", "opted", "settle"} \subseteq Places \ {"idle"}
  /\ {"ready", "failed", "succeeded", "awaiting_human"} \subseteq Outcomes
BY DEF Places, Outcomes

-----------------------------------------------------------------------------
(* Basis: the handlers                                                     *)

\* Reading, raising findings and giving up write nothing but the ledger.
LEMMA BasisReads ==
  ASSUME Basis, NEW w \in Workers,
         \/ ReadStale(w) \/ Scan(w) \/ StopReview(w) \/ TakeVerdict(w) \/ ReadFindings(w)
         \/ Misses(w) \/ Raise(w)
         \/ \E f \in Automated : Supersede(w, f) \/ RaiseAutomated(w, f)
  PROVE  Basis'
<1>1. UNCHANGED <<table, project, stores, gate, cli>> /\ run[w].at # "idle"
  BY DEF ReadStale, Scan, StopReview, TakeVerdict, ReadFindings, Misses, Raise, Supersede,
         RaiseAutomated, At
<1>2. open' \subseteq Findings /\ faults' \in 0 .. MaxFaults
  <2>1. open \subseteq Findings /\ faults \in 0 .. MaxFaults
    BY Typed DEF Basis, LedgerTyped
  <2>2. open' \subseteq Findings
    BY <2>1 DEF ReadStale, Scan, StopReview, TakeVerdict, ReadFindings, Misses, Raise, Supersede,
                RaiseAutomated, Findings
  <2>3. faults' = faults \/ (faults < MaxFaults /\ faults' = faults + 1)
    BY DEF ReadStale, Scan, StopReview, TakeVerdict, ReadFindings, Misses, Raise, Supersede,
           RaiseAutomated, May
  <2> QED BY <2>1, <2>2, <2>3
<1>3. \E j \in Jobs, r \in RunRecords :
        /\ Goes(w, j, r) /\ j = doing[w]
        /\ \/ r.at \in {"superseding", "raising", "taken", "triaged"}
           \/ r.at = "settle" /\ r.out \in {"ready", "failed", "succeeded"}
  <2>1. /\ open \subseteq Findings /\ Automated \subseteq Findings
        /\ run[w] \in RunRecords /\ run \in [Workers -> RunRecords]
    BY <1>1, Typed, AtWork DEF Basis, LedgerTyped, Findings
  <2>2. CASE TakeVerdict(w)
    BY <1>1, <2>2, Going, PlacesAre DEF TakeVerdict
  <2>3. CASE StopReview(w) \/ Misses(w) \/ Raise(w)
    <3>1. PICK o \in {"ready", "failed", "succeeded"} : Return(w, o)
      BY <2>3 DEF StopReview, Misses, Raise, Fail
    <3> QED BY <1>1, <3>1, Returning, PlacesAre
  <2>4. ASSUME NEW place \in {"superseding", "raising", "triaged"}, NEW seen \in SUBSET Findings,
               Onto(w, place, seen)
        PROVE  \E j \in Jobs, r \in RunRecords :
                 Goes(w, j, r) /\ j = doing[w] /\ r.at \in {"superseding", "raising", "triaged"}
    <3>1. place \in Places \ {"idle"}
      BY PlacesAre
    <3>2. run[w].at # "idle"
      BY <1>1
    <3>3. \E j \in Jobs, r \in RunRecords :
            Goes(w, j, r) /\ j = doing[w] /\ r.at = place /\ r.seen = seen
      BY <2>4, <3>1, <3>2, Onward
    <3> QED BY <3>3
  <2>5. CASE ReadStale(w) \/ Scan(w) \/ ReadFindings(w)
    <3>1. \E place \in {"superseding", "raising", "triaged"}, seen \in SUBSET Findings :
            Onto(w, place, seen)
      BY <2>1, <2>5 DEF ReadStale, Scan, ReadFindings, Onto
    <3> QED BY <2>4, <3>1
  <2>6. CASE \E f \in Automated : Supersede(w, f) \/ RaiseAutomated(w, f)
    <3>1. PICK f \in Automated : Supersede(w, f) \/ RaiseAutomated(w, f)
      BY <2>6
    <3>2. /\ run' = [run EXCEPT ![w] = [run[w] EXCEPT !.seen = run[w].seen \ {f}]]
          /\ run[w].at \in {"superseding", "raising"} /\ run[w].seen \ {f} \in SUBSET Findings
      BY <2>1, <3>1 DEF Supersede, RaiseAutomated, At, RunRecords
    <3>3. [run[w] EXCEPT !.seen = run[w].seen \ {f}]
            = [run[w] EXCEPT !.at = run[w].at, !.seen = run[w].seen \ {f}]
      BY <2>1 DEF RunRecords
    <3> QED BY <2>4, <3>2, <3>3 DEF Onto
  <2> QED BY <2>2, <2>3, <2>5, <2>6
<1>4. PICK j \in Jobs, r \in RunRecords :
        /\ Goes(w, j, r) /\ j = doing[w]
        /\ \/ r.at \in {"superseding", "raising", "taken", "triaged"}
           \/ r.at = "settle" /\ r.out \in {"ready", "failed", "succeeded"}
  BY <1>3
<1>5. Fits(j, r)
  BY <1>4 DEF Fits
<1>6. Grows /\ Due /\ RowTyped' /\ Kept
  BY <1>1, SameTable, SameRest
<1>7. LedgerTyped'
  <2>1. LedgerTyped
    BY Typed DEF Basis
  <2> QED BY <1>1, <1>2, <2>1 DEF LedgerTyped
<1> QED BY <1>1, <1>2, <1>4, <1>5, <1>6, <1>7, BasisStep

\* A handler returns behind the job it has inserted.
LEMMA BasisReturns ==
  ASSUME Basis, NEW w \in Workers, run[w].at # "idle", NEW n \in Jobs, Enqueue(n),
         Kind(n) \in Downstream => Cycle(n) \in spec,
         Return(w, "succeeded"), UNCHANGED <<project, stores, open, gate, cli, faults>>
  PROVE  Basis'
<1>1. PICK j \in Jobs, r \in RunRecords :
        Goes(w, j, r) /\ r.at = "settle" /\ r.out = "succeeded"
  BY Returning, PlacesAre
<1>2. Fits(j, r)
  BY <1>1 DEF Fits
<1>3. Grows /\ Due
  BY Adding
<1>4. RowTyped' /\ LedgerTyped' /\ Kept /\ faults' \in 0 .. MaxFaults
  BY SameRest
<1> QED BY <1>1, <1>2, <1>3, <1>4, BasisStep

\* Every job is inserted by a handler of its own cycle, or of the one before it.
LEMMA BasisEnqueues ==
  ASSUME Basis, NEW w \in Workers,
         \/ EnqueueSynthesize(w) \/ FanOut(w) \/ EnqueueDemo(w) \/ EnqueueCollect(w)
         \/ EnqueueTriage(w) \/ EnqueueChoice(w) \/ EnqueueDeploy(w) \/ Redesign(w) \/ Rebuild(w)
  PROVE  Basis'
<1>1. /\ run[w].at # "idle" /\ Return(w, "succeeded")
      /\ UNCHANGED <<project, stores, open, gate, cli, faults>>
  BY DEF EnqueueSynthesize, FanOut, EnqueueDemo, EnqueueCollect, EnqueueTriage, EnqueueChoice,
         EnqueueDeploy, Redesign, Rebuild, At, Decomposing
<1>2. /\ doing[w] \in Jobs /\ st[doing[w]] # "absent" /\ Placed(w)
      /\ Of(w) = Cycle(doing[w]) /\ Of(w) \in Cycles
  BY <1>1, AtWork
<1>3. PICK c \in Cycles : c = Of(w)
  BY <1>2
<1>4. Kind(doing[w]) \in Downstream => c \in spec
  BY <1>2, <1>3 DEF Basis, WorkHasSpec
<1>5. CASE EnqueueSynthesize(w) \/ EnqueueChoice(w) \/ EnqueueDeploy(w)
  <2>1. PICK n \in {Synthesize(c), Choice(c), Deploy(c)} : Enqueue(n)
    BY <1>3, <1>5 DEF EnqueueSynthesize, EnqueueChoice, EnqueueDeploy
  <2>2. n \in Jobs /\ Kind(n) \notin Downstream
    BY JobsAre DEF Downstream
  <2> QED BY <1>1, <2>1, <2>2, BasisReturns
<1>6. CASE FanOut(w)
  <2>1. Enqueue(Integrate(c)) /\ c \in spec
    BY <1>3, <1>6 DEF FanOut
  <2> QED BY <1>1, <2>1, JobsAre, BasisReturns
<1>7. CASE EnqueueDemo(w) \/ EnqueueCollect(w) \/ EnqueueTriage(w)
  <2>1. PICK n \in {Demo(c), Collect(c), Triage(c)} : Enqueue(n)
    BY <1>3, <1>7 DEF EnqueueDemo, EnqueueCollect, EnqueueTriage
  <2>2. Kind(doing[w]) \in Downstream
    BY <1>7 DEF EnqueueDemo, EnqueueCollect, EnqueueTriage, At, Downstream
  <2>3. n \in Jobs /\ Cycle(n) = c
    BY JobsAre
  <2> QED BY <1>1, <1>4, <2>1, <2>2, <2>3, BasisReturns
<1>8. CASE Redesign(w) \/ Rebuild(w)
  <2>1. c < MaxCycle /\ run[w].at \in {"looped", "carried"}
    BY <1>2, <1>3, <1>8 DEF Redesign, Rebuild, At, Placed
  <2>2. PICK d \in Cycles : d = c + 1
    BY <2>1 DEF Cycles
  <2>3. CASE Redesign(w)
    <3>1. Enqueue(Interview(d, "loop"))
      BY <1>3, <2>2, <2>3 DEF Redesign
    <3>2. Interview(d, "loop") \in Jobs /\ Kind(Interview(d, "loop")) \notin Downstream
      BY JobsAre DEF Downstream
    <3> QED BY <1>1, <3>1, <3>2, BasisReturns
  <2>4. CASE Rebuild(w)
    <3>1. Enqueue(Plan(d)) /\ d \in spec
      BY <1>2, <1>3, <2>2, <2>4 DEF Rebuild, At, Placed
    <3>2. Plan(d) \in Jobs /\ Cycle(Plan(d)) = d
      BY JobsAre
    <3> QED BY <1>1, <3>1, <3>2, BasisReturns
  <2> QED BY <1>8, <2>3, <2>4
<1> QED BY <1>5, <1>6, <1>7, <1>8

\* What is asked, elicited and saved is only ever added to.
LEMMA BasisSaves ==
  ASSUME Basis, NEW w \in Workers,
         Ask(w) \/ Elicited(w) \/ SaveSpec(w) \/ SaveInventory(w) \/ CarrySpec(w)
  PROVE  Basis'
<1>1. UNCHANGED <<table, project, open, cli, faults>> /\ run[w].at # "idle"
  BY DEF Ask, Elicited, SaveSpec, SaveInventory, CarrySpec, At
<1>2. /\ doing[w] \in Jobs /\ Placed(w) /\ Of(w) = Cycle(doing[w]) /\ Of(w) \in Cycles
      /\ st[doing[w]] # "absent" /\ LedgerTyped
  BY <1>1, AtWork, Typed DEF Basis
<1>3. PICK c \in Cycles, i \in Jobs : c = Of(w) /\ i = doing[w]
  BY <1>2
<1>4. Grows /\ Due /\ RowTyped' /\ faults' \in 0 .. MaxFaults
  BY <1>1, SameTable, SameRest
<1>5. CASE Ask(w)
  <2>1. /\ gate' = [gate EXCEPT ![i] = "open"] /\ asked' \in {asked, asked \cup {c}}
        /\ Return(w, "awaiting_human") /\ UNCHANGED <<elicited, spec, inventory>>
    BY <1>3, <1>5 DEF Ask
  <2>2. PICK r \in RunRecords :
          Goes(w, i, r) /\ r.at = "settle" /\ r.out = "awaiting_human"
    BY <1>1, <1>3, <2>1, Returning, PlacesAre
  <2>3. gate'[i] = "open" /\ \A j \in Jobs \ {i} : gate'[j] = gate[j]
    BY <1>2, <2>1 DEF LedgerTyped
  <2>4. Fits(i, r) /\ Kept
    BY <1>1, <2>1, <2>2, <2>3 DEF Fits, Kept
  <2>5. LedgerTyped'
    BY <1>1, <1>2, <2>1 DEF LedgerTyped, Gates
  <2> QED BY <1>1, <1>4, <2>2, <2>4, <2>5, BasisStep
<1>6. CASE Elicited(w) \/ SaveSpec(w) \/ SaveInventory(w) \/ CarrySpec(w)
  <2>1. UNCHANGED <<asked, gate>>
    BY <1>6 DEF Elicited, SaveSpec, SaveInventory, CarrySpec
  <2>2. CASE Elicited(w)
    <3>1. /\ elicited' = elicited \cup {c} /\ Goto(w, "elicited")
          /\ UNCHANGED <<spec, inventory>>
      BY <1>3, <2>2 DEF Elicited
    <3>2. PICK r \in RunRecords : Goes(w, i, r) /\ r.at = "elicited"
      BY <1>1, <1>3, <3>1, Going, PlacesAre
    <3>3. Fits(i, r) /\ Kept /\ LedgerTyped'
      BY <1>1, <1>2, <2>1, <3>1, <3>2 DEF Fits, Kept, LedgerTyped
    <3> QED BY <1>1, <1>4, <3>2, <3>3, BasisStep
  <2>3. CASE SaveSpec(w) \/ SaveInventory(w)
    <3>1. /\ Return(w, "succeeded") /\ UNCHANGED elicited
          /\ spec' \in {spec, spec \cup {c}} /\ inventory' \in {inventory, inventory \cup {c}}
      BY <1>3, <2>3 DEF SaveSpec, SaveInventory
    <3>2. PICK r \in RunRecords : Goes(w, i, r) /\ r.at = "settle" /\ r.out = "succeeded"
      BY <1>1, <1>3, <3>1, Returning, PlacesAre
    <3>3. Fits(i, r) /\ Kept /\ LedgerTyped'
      BY <1>1, <1>2, <2>1, <3>1, <3>2 DEF Fits, Kept, LedgerTyped
    <3> QED BY <1>1, <1>4, <3>2, <3>3, BasisStep
  <2>4. CASE CarrySpec(w)
    <3>1. /\ Kind(i) = "triage" /\ c < MaxCycle /\ c \in spec
      BY <1>2, <1>3, <2>4 DEF CarrySpec, At, Placed, Basis, WorkHasSpec, Downstream
    <3>2. PICK d \in Cycles : d = c + 1
      BY <3>1 DEF Cycles
    <3>3. spec' = spec \cup {d} /\ Goto(w, "carried") /\ UNCHANGED <<elicited, inventory>>
      BY <1>3, <2>4, <3>1, <3>2 DEF CarrySpec
    <3>4. PICK r \in RunRecords : Goes(w, i, r) /\ r.at = "carried"
      BY <1>1, <1>3, <3>3, Going, PlacesAre
    <3>5. Fits(i, r) /\ Kept /\ LedgerTyped'
      BY <1>1, <1>2, <1>3, <2>1, <3>1, <3>2, <3>3, <3>4 DEF Fits, Kept, LedgerTyped
    <3> QED BY <1>1, <1>4, <3>4, <3>5, BasisStep
  <2> QED BY <1>6, <2>2, <2>3, <2>4
<1> QED BY <1>5, <1>6

\* The row is moved on from BUILD or REVIEW only, and never to a visual design.
LEMMA BasisMoves ==
  ASSUME Basis, NEW w \in Workers,
         EnterReview(w) \/ LoopBack(w) \/ Decline(w) \/ OptIn(w)
  PROVE  Basis'
<1>1. UNCHANGED <<table, stores, open, gate, cli, faults>> /\ run[w].at # "idle"
  BY DEF EnterReview, LoopBack, Decline, OptIn, At
<1>2. /\ doing[w] \in Jobs /\ Of(w) = Cycle(doing[w]) /\ Of(w) \in Cycles /\ RowTyped
  BY <1>1, AtWork, Typed DEF Basis
<1>3. PICK c \in Cycles, i \in Jobs : c = Of(w) /\ i = doing[w] /\ Cycle(i) = c
  BY <1>2
<1>4. LoopBack(w) => c < MaxCycle /\ Kind(i) = "triage"
  BY <1>3 DEF LoopBack, At
<1>5. /\ \/ UNCHANGED project
         \/ /\ phase \in {"BUILD", "REVIEW"}
            /\ phase' \in {"DESIGN", "BUILD", "REVIEW", "DONE", "DEPLOY"}
      /\ UNCHANGED cycle \/ (LoopBack(w) /\ cycle' = c + 1)
  BY <1>3 DEF EnterReview, LoopBack, Decline, OptIn, Transition, Target
<1>6. RowTyped' /\ Kept
  <2>1. {"DESIGN", "BUILD", "REVIEW", "DONE", "DEPLOY"} \subseteq Machine!Phases
    BY DEF Machine!Phases, Machine!Edges
  <2>2. cycle' \in Cycles
    BY <1>2, <1>4, <1>5 DEF RowTyped, Cycles
  <2>3. phase' \in Machine!Phases
    BY <1>2, <1>5, <2>1 DEF RowTyped
  <2> QED BY <1>1, <1>5, <2>2, <2>3 DEF RowTyped, Kept
<1>7. Grows /\ Due /\ LedgerTyped' /\ faults' \in 0 .. MaxFaults
  BY <1>1, SameTable, SameRest
<1>8. PICK r \in RunRecords :
        /\ Goes(w, i, r)
        /\ \/ r.at \in {"entered", "opted"} \/ (r.at = "looped" /\ LoopBack(w))
           \/ r.at = "settle" /\ r.out = "succeeded"
  <2>1. CASE EnterReview(w)
    BY <1>1, <1>3, <2>1, Going, PlacesAre DEF EnterReview
  <2>2. CASE LoopBack(w)
    BY <1>1, <1>3, <2>2, Going, PlacesAre DEF LoopBack
  <2>3. CASE OptIn(w)
    BY <1>1, <1>3, <2>3, Going, PlacesAre DEF OptIn
  <2>4. CASE Decline(w)
    BY <1>1, <1>3, <2>4, Returning, PlacesAre DEF Decline
  <2> QED BY <2>1, <2>2, <2>3, <2>4
<1>9. Fits(i, r)
  BY <1>3, <1>4, <1>8 DEF Fits
<1> QED BY <1>1, <1>6, <1>7, <1>8, <1>9, BasisStep

-----------------------------------------------------------------------------
(* Basis: the table and the command line                                   *)

\* What a step that leaves the project alone has to show for Basis.
LEMMA BasisTable ==
  ASSUME Basis, TableTyped', UNCHANGED <<project, stores, open, cli>>,
         gate' \in [Jobs -> Gates], run' \in [Workers -> RunRecords], faults' \in 0 .. MaxFaults,
         \A w \in Workers : run'[w].at = "idle" <=> doing'[w] = NoJob,
         \A j \in Jobs : /\ st'[j] = "absent" <=> st[j] = "absent"
                         /\ holder'[j] # NoWorker <=> st'[j] = "leased"
                         /\ gate[j] # "none" => gate'[j] # "none"
                         /\ st'[j] = "awaiting_human" => gate'[j] # "none",
         \A w \in Workers : doing'[w] # NoJob =>
           \/ doing'[w] = doing[w] /\ run'[w] = run[w]
           \/ st[doing'[w]] # "absent" /\ run'[w].at = "start"
  PROVE  Basis'
<1>1. TypeOK /\ Tabled /\ Commanding /\ WorkHasSpec /\ RowTyped /\ LedgerTyped /\ cli \in Commands
  BY Typed DEF Basis
<1>2. RowTyped' /\ LedgerTyped' /\ cli' \in Commands
  BY <1>1 DEF RowTyped, LedgerTyped
<1>3. TypeOK'
  BY <1>2, TypedNext
<1>4. Tabled'
  BY <1>1 DEF Tabled, TableTyped
<1>5. Commanding' /\ WorkHasSpec'
  BY <1>1 DEF Commanding, WorkHasSpec
<1>6. ASSUME NEW w \in Workers, doing'[w] # NoJob PROVE Placed(w)'
  <2>1. doing'[w] \in Jobs
    BY <1>6 DEF TableTyped
  <2>2. CASE doing'[w] = doing[w] /\ run'[w] = run[w]
    <3>1. Placed(w)
      BY <1>6, <2>2 DEF Basis
    <3> QED BY <2>1, <2>2, <3>1 DEF Placed, Of
  <2>3. CASE run'[w].at = "start"
    BY <2>3 DEF Placed
  <2> QED BY <1>6, <2>2, <2>3
<1> QED BY <1>3, <1>4, <1>5, <1>6 DEF Basis

\* Rows are claimed, reported, given up, taken back and resumed.
LEMMA BasisRows ==
  ASSUME Basis,
         \/ \E w \in Workers : Settle(w) \/ Crash(w) \/ \E j \in Jobs : Claim(w, j)
         \/ \E j \in Jobs : Answer(j) \/ Reap(j) \/ LoseLease(j)
  PROVE  Basis'
<1>1. /\ TypeOK /\ Tabled /\ TableTyped /\ LedgerTyped /\ run \in [Workers -> RunRecords]
      /\ faults \in 0 .. MaxFaults
  BY Typed DEF Basis
<1>2. Idle \in RunRecords /\ [Idle EXCEPT !.at = "start"] \in RunRecords
  BY DEF Idle, RunRecords, Places, Outcomes
<1>3. faults' = faults \/ (faults < MaxFaults /\ faults' = faults + 1) => faults' \in 0 .. MaxFaults
  BY <1>1
<1>4. ASSUME NEW w \in Workers, NEW j \in Jobs, Claim(w, j) PROVE Basis'
  <2> DEFINE r == [Idle EXCEPT !.at = "start"]
  <2>1. /\ doing[w] = NoJob /\ st[j] = "ready"
        /\ st' = [st EXCEPT ![j] = "leased"] /\ holder' = [holder EXCEPT ![j] = w]
        /\ doing' = [doing EXCEPT ![w] = j] /\ run' = [run EXCEPT ![w] = r]
        /\ UNCHANGED <<project, stores, open, gate, cli, faults>>
    BY <1>4 DEF Claim, Table!Grant
  <2>2. r \in RunRecords /\ r.at = "start" /\ j # NoJob /\ w # NoWorker
    BY <1>2 DEF Idle
  <2> HIDE DEF r
  <2>3. TableTyped' /\ run' \in [Workers -> RunRecords] /\ gate' \in [Jobs -> Gates]
    BY <1>1, <2>1, <2>2 DEF TableTyped, RowStates, Outcomes, LedgerTyped
  <2>4. /\ run'[w] = r /\ doing'[w] = j /\ st'[j] = "leased" /\ holder'[j] = w
        /\ \A v \in Workers \ {w} : run'[v] = run[v] /\ doing'[v] = doing[v]
        /\ \A k \in Jobs \ {j} : st'[k] = st[k] /\ holder'[k] = holder[k]
    BY <1>1, <2>1 DEF TableTyped
  <2>5. \A k \in Jobs : /\ st'[k] = "absent" <=> st[k] = "absent"
                        /\ holder'[k] # NoWorker <=> st'[k] = "leased"
                        /\ st'[k] = "awaiting_human" => gate'[k] # "none"
    BY <1>1, <2>1, <2>2, <2>4 DEF TypeOK, Tabled
  <2>6. \A v \in Workers :
          /\ run'[v].at = "idle" <=> doing'[v] = NoJob
          /\ doing'[v] # NoJob => \/ doing'[v] = doing[v] /\ run'[v] = run[v]
                                  \/ st[doing'[v]] # "absent" /\ run'[v].at = "start"
    BY <1>1, <2>1, <2>2, <2>4 DEF TypeOK
  <2> QED BY <1>1, <2>1, <2>3, <2>5, <2>6, BasisTable
<1>5. ASSUME NEW w \in Workers, Settle(w) \/ Crash(w) PROVE Basis'
  <2>1. /\ run' = [run EXCEPT ![w] = Idle] /\ doing' = [doing EXCEPT ![w] = NoJob]
        /\ UNCHANGED <<project, stores, open, gate, cli>> /\ doing[w] # NoJob
        /\ faults' \in 0 .. MaxFaults
    <3>1. CASE Settle(w)
      <4>1. doing[w] # NoJob
        BY <1>1, <3>1 DEF Settle, TypeOK
      <4> QED BY <1>1, <3>1, <4>1 DEF Settle, Table!Report, Table!Forget
    <3>2. CASE Crash(w)
      BY <1>3, <3>2 DEF Crash, Table!Forget, May
    <3> QED BY <1>5, <3>1, <3>2
  <2>2. PICK j \in Jobs : j = doing[w]
    BY <1>1, <2>1 DEF TypeOK
  <2>3. \/ UNCHANGED <<st, holder>>
        \/ /\ st' = [st EXCEPT ![j] = run[w].out] /\ holder' = [holder EXCEPT ![j] = NoWorker]
           /\ run[w].out \in {"ready", "awaiting_human", "succeeded", "failed"}
           /\ run[w].at = "settle"
    BY <1>1, <1>5, <2>2 DEF Settle, Crash, Table!Report, Table!Forget, TableTyped
  <2>4. st[j] # "absent" /\ Placed(w)
    BY <2>1, <2>2 DEF Basis, Tabled
  <2>5. TableTyped' /\ run' \in [Workers -> RunRecords] /\ gate' \in [Jobs -> Gates]
    BY <1>1, <1>2, <2>1, <2>3 DEF TableTyped, RowStates, Outcomes, LedgerTyped
  <2>6. \A k \in Jobs : /\ st'[k] = "absent" <=> st[k] = "absent"
                        /\ holder'[k] # NoWorker <=> st'[k] = "leased"
                        /\ st'[k] = "awaiting_human" => gate'[k] # "none"
    <3> TAKE k \in Jobs
    <3>1. CASE k # j \/ UNCHANGED <<st, holder>>
      <4>1. st'[k] = st[k] /\ holder'[k] = holder[k]
        BY <1>1, <2>3, <3>1 DEF TableTyped
      <4> QED BY <1>1, <2>1, <4>1 DEF TypeOK, Tabled
    <3>2. CASE k = j /\ ~UNCHANGED <<st, holder>>
      <4>1. st'[j] = run[w].out /\ holder'[j] = NoWorker
        BY <1>1, <2>3, <3>2 DEF TableTyped
      <4>2. run[w].out = "awaiting_human" => gate[j] # "none"
        BY <2>2, <2>3, <2>4, <3>2 DEF Placed
      <4> QED BY <2>1, <2>3, <2>4, <3>2, <4>1, <4>2
    <3> QED BY <3>1, <3>2
  <2>7. \A v \in Workers :
          /\ run'[v].at = "idle" <=> doing'[v] = NoJob
          /\ doing'[v] # NoJob => doing'[v] = doing[v] /\ run'[v] = run[v]
    <3>1. Idle.at = "idle"
      BY DEF Idle
    <3>2. /\ run'[w] = Idle /\ doing'[w] = NoJob
          /\ \A v \in Workers \ {w} : run'[v] = run[v] /\ doing'[v] = doing[v]
      BY <1>1, <2>1 DEF TableTyped
    <3> QED BY <1>1, <3>1, <3>2 DEF TypeOK
  <2> QED BY <2>1, <2>5, <2>6, <2>7, BasisTable
<1>6. ASSUME NEW j \in Jobs, Answer(j) PROVE Basis'
  <2>1. /\ st[j] = "awaiting_human" /\ st' = [st EXCEPT ![j] = "ready"]
        /\ UNCHANGED <<holder, doing, project, stores, open, cli, run, faults>>
        /\ \E reply \in Gates \ {"none"} : gate' = [gate EXCEPT ![j] = reply]
    BY <1>6 DEF Answer, Table!Resume, RepliesTo, Gates
  <2>2. TableTyped' /\ gate' \in [Jobs -> Gates]
    BY <1>1, <2>1 DEF TableTyped, RowStates, Outcomes, LedgerTyped
  <2>3. \A k \in Jobs : /\ st'[k] = "absent" <=> st[k] = "absent"
                        /\ holder'[k] # NoWorker <=> st'[k] = "leased"
                        /\ gate[k] # "none" => gate'[k] # "none"
                        /\ st'[k] = "awaiting_human" => gate'[k] # "none"
    BY <1>1, <2>1 DEF TableTyped, LedgerTyped, TypeOK, Tabled
  <2> QED BY <1>1, <2>1, <2>2, <2>3, BasisTable DEF TypeOK
<1>7. ASSUME NEW j \in Jobs, Reap(j) \/ LoseLease(j) PROVE Basis'
  <2>1. /\ st[j] = "leased"
        /\ st' = [k \in Jobs |-> IF k \in {j} THEN "ready" ELSE st[k]]
        /\ holder' = [k \in Jobs |-> IF k \in {j} THEN NoWorker ELSE holder[k]]
        /\ UNCHANGED <<doing, project, stores, open, gate, cli, run>>
        /\ faults' \in 0 .. MaxFaults
    BY <1>1, <1>3, <1>7 DEF Reap, LoseLease, Table!Revoke, May
  <2>2. TableTyped' /\ gate' \in [Jobs -> Gates]
    BY <1>1, <2>1 DEF TableTyped, RowStates, Outcomes, LedgerTyped
  <2>3. \A k \in Jobs : /\ st'[k] = "absent" <=> st[k] = "absent"
                        /\ holder'[k] # NoWorker <=> st'[k] = "leased"
                        /\ st'[k] = "awaiting_human" => gate'[k] # "none"
    BY <1>1, <2>1 DEF TypeOK, Tabled
  <2> QED BY <1>1, <2>1, <2>2, <2>3, BasisTable DEF TypeOK
<1> QED BY <1>4, <1>5, <1>6, <1>7

\* A command checks, moves the row and inserts, or dies in between.
LEMMA BasisCommands ==
  ASSUME Basis, Kickoff \/ Accept \/ Command \/ CommandCrash
  PROVE  Basis'
<1>1. /\ TypeOK /\ Tabled /\ Commanding /\ TableTyped /\ RowTyped /\ LedgerTyped
      /\ run \in [Workers -> RunRecords] /\ faults \in 0 .. MaxFaults /\ cli \in Commands
  BY Typed DEF Basis
<1>2. UNCHANGED <<cycle, stores, open, gate, run>> /\ faults' \in 0 .. MaxFaults
  <2>1. faults' = faults \/ (faults < MaxFaults /\ faults' = faults + 1)
    BY DEF Kickoff, Accept, Command, CommandCrash, AcceptDesign, SettleVisual, CommandMove,
           CommandInsert, May
  <2>2. UNCHANGED <<cycle, stores, open, gate, run>>
    BY DEF Kickoff, Accept, Command, CommandCrash, AcceptDesign, SettleVisual, CommandMove,
           CommandInsert
  <2> QED BY <1>1, <2>1, <2>2
<1>3. PICK c \in Cycles : c = cycle
  BY <1>1 DEF RowTyped
<1>4. {"INTAKE", "DESIGN", "VISUAL_DESIGN", "BUILD"} \subseteq Machine!Phases
  BY DEF Machine!Phases, Machine!Edges
<1>5. phase' \in Machine!Phases /\ cli' \in Commands /\ Commanding'
  <2>1. CASE Kickoff
    <3>1. /\ cli' = [at |-> "insert", from |-> "INTAKE", to |-> "DESIGN",
                     job |-> Interview(c, "entry")]
          /\ phase' = "DESIGN"
      BY <1>3, <2>1 DEF Kickoff, Busy, Transition
    <3>2. Interview(c, "entry") \in Jobs /\ Kind(Interview(c, "entry")) = "interview"
      BY JobsAre
    <3> QED BY <1>4, <3>1, <3>2 DEF Commands, Commanding
  <2>2. CASE Accept
    <3>1. /\ \E from \in {"DESIGN", "VISUAL_DESIGN"}, to \in {"BUILD", "VISUAL_DESIGN"} :
               /\ cli' = [at |-> "checked", from |-> from, to |-> to, job |-> NoJob]
               /\ phase = from /\ (from = "DESIGN" \/ to = "BUILD")
          /\ cycle \in spec /\ UNCHANGED phase
      BY <1>1, <2>2 DEF Accept, AcceptDesign, SettleVisual, Busy, Commanding
    <3> QED BY <1>1, <1>2, <1>4, <3>1 DEF Commands, Commanding, RowTyped
  <2>3. CASE CommandMove
    <3>1. /\ cli' = [at |-> "insert", from |-> cli.from, to |-> cli.to,
                     job |-> IF cli.to = "BUILD" THEN Decompose(c) ELSE Inventory(c)]
          /\ phase' = cli.to /\ cli.at = "checked" /\ c \in spec
      BY <1>1, <1>3, <2>3 DEF CommandMove, Busy, Transition, Commanding
    <3>2. /\ {Decompose(c), Inventory(c)} \subseteq Jobs /\ Kind(Decompose(c)) = "decompose"
          /\ Kind(Inventory(c)) = "inventory" /\ Cycle(Decompose(c)) = c
      BY JobsAre
    <3>3. cli.from \in Machine!Phases /\ cli.to \in Machine!Phases
      BY <1>1 DEF Commands
    <3> QED BY <1>2, <1>3, <3>1, <3>2, <3>3 DEF Commands, Commanding
  <2>4. CASE CommandInsert \/ CommandCrash
    <3>1. cli' = NoCommand /\ UNCHANGED phase
      BY <2>4 DEF CommandInsert, CommandCrash
    <3> QED BY <1>1, <1>2, <1>4, <3>1 DEF NoCommand, Commands, Commanding, RowTyped
  <2> QED BY <2>1, <2>2, <2>3, <2>4 DEF Command
<1>6. Grows /\ Due
  <2>1. CASE CommandInsert
    <3>1. PICK n \in Jobs : n = cli.job /\ Enqueue(n)
      BY <1>1, <2>1 DEF CommandInsert, Commanding
    <3>2. Kind(n) \in Downstream => Cycle(n) \in spec'
      BY <1>1, <1>2, <2>1, <3>1 DEF CommandInsert, Commanding, Downstream
    <3> QED BY <3>1, <3>2, Adding
  <2>2. CASE ~CommandInsert
    BY <2>2, SameTable DEF Kickoff, Accept, Command, CommandCrash, AcceptDesign, SettleVisual,
                           CommandMove
  <2> QED BY <2>1, <2>2
<1>7. TypeOK'
  <2>1. RowTyped' /\ LedgerTyped' /\ run' \in [Workers -> RunRecords]
    BY <1>1, <1>2, <1>5 DEF RowTyped, LedgerTyped
  <2>2. \A w \in Workers : run'[w].at = "idle" <=> doing'[w] = NoJob
    BY <1>1, <1>2, <1>6 DEF TypeOK, Grows
  <2>3. \A j \in Jobs : st'[j] = "awaiting_human" => gate'[j] # "none"
    BY <1>1, <1>2, <1>6 DEF TypeOK, Grows
  <2> QED BY <1>2, <1>5, <1>6, <2>1, <2>2, <2>3, TypedNext DEF Grows
<1>8. Tabled' /\ WorkHasSpec'
  BY <1>1, <1>2, <1>6 DEF Tabled, WorkHasSpec, Grows, Due, TypeOK, Basis
<1>9. ASSUME NEW w \in Workers, doing'[w] # NoJob PROVE Placed(w)'
  <2>1. doing'[w] = doing[w] /\ Placed(w) /\ doing[w] \in Jobs
    BY <1>1, <1>6, <1>9 DEF Grows, Basis, TypeOK
  <2> QED BY <1>2, <2>1 DEF Placed, Of
<1> QED BY <1>5, <1>7, <1>8, <1>9 DEF Basis

\* No step breaks Basis.
LEMMA BasisNext ==
  ASSUME Basis, [Next]_vars
  PROVE  Basis'
<1>1. ASSUME NEW w \in Workers, Handle(w) \/ Raise(w) \/ Crash(w) PROVE Basis'
  BY <1>1, BasisReads, BasisEnqueues, BasisSaves, BasisMoves, BasisRows DEF Handle
<1>2. CASE UNCHANGED vars
  <2>1. UNCHANGED <<st, holder, doing, phase, cycle, elicited, asked, spec, inventory, open, gate,
                    cli, run, faults>>
    BY <1>2 DEF vars
  <2> QED BY <2>1 DEF Basis, TypeOK, Tabled, Placed, Commanding, WorkHasSpec, Of
<1> QED BY <1>1, <1>2, BasisRows, BasisCommands DEF Next

-----------------------------------------------------------------------------
(* Modes                                                                   *)

\* A step that changes how far one job is, or adds another behind it.
Moved(j, m) == Mode(j)' = m /\ \A k \in Jobs \ {j} : Mode(k)' = Mode(k)
Added(j, m, n) ==
  /\ Mode(j)' = m
  /\ Mode(n)' = IF Mode(n) = "absent" THEN "waiting" ELSE Mode(n)
  /\ \A k \in Jobs \ {j, n} : Mode(k)' = Mode(k)

\* A job has no mode before it has a row.
LEMMA AbsentIs ==
  ASSUME Basis, Agreed, NEW j \in Jobs
  PROVE  Mode(j) = "absent" <=> st[j] = "absent"
<1>1. /\ st[j] \in RowStates /\ holder[j] \in Workers \cup {NoWorker}
      /\ run \in [Workers -> RunRecords]
  BY Typed DEF Basis, TableTyped
<1>2. CASE st[j] = "leased"
  <2>1. holder[j] \in Workers
    BY <1>1, <1>2 DEF Basis, Tabled
  <2>2. run[holder[j]].at \in Places /\ run[holder[j]].out \in Outcomes
    BY <1>1, <2>1 DEF RunRecords
  <2> QED BY <1>2, <2>2 DEF Mode, Doing, Result, Places, Outcomes
<1>3. CASE st[j] # "leased"
  BY <1>1, <1>3 DEF Mode, Result, RowStates, Outcomes
<1> QED BY <1>2, <1>3

\* The job of a worker is as far as the worker's place.
LEMMA ModeOf ==
  ASSUME Basis, Agreed, NEW w \in Workers, run[w].at # "idle"
  PROVE  Mode(doing[w]) = Doing(run[w]) /\ st[doing[w]] = "leased" /\ holder[doing[w]] = w
<1>1. doing[w] \in Jobs /\ doing[w] # NoJob
  BY AtWork
<1>2. holder[doing[w]] = w
  BY <1>1 DEF Agreed
<1>3. st[doing[w]] = "leased"
  BY <1>1, <1>2 DEF Basis, Tabled
<1> QED BY <1>2, <1>3 DEF Mode

\* A handler that goes on moves its own job.
LEMMA StepModes ==
  ASSUME Basis, Agreed, NEW w \in Workers, NEW j \in Jobs, NEW r, Goes(w, j, r), UNCHANGED table
  PROVE  Agreed' /\ Moved(j, Doing(r)) /\ Mode(j) = Doing(run[w])
<1>1. /\ run' \in [Workers -> RunRecords] /\ run'[w] = r
      /\ \A v \in Workers \ {w} : run'[v] = run[v]
  BY Typed DEF Basis, Goes
<1>2. Mode(j) = Doing(run[w]) /\ st[j] = "leased" /\ holder[j] = w
  BY ModeOf DEF Goes
<1>3. Mode(j)' = Doing(r)
  BY <1>1, <1>2 DEF Mode, Doing
<1>4. ASSUME NEW k \in Jobs \ {j} PROVE Mode(k)' = Mode(k)
  <2>1. CASE st[k] = "leased"
    <3>1. holder[k] # w
      BY <2>1 DEF Agreed, Goes
    <3>2. holder[k] \in Workers
      BY <2>1, Typed DEF Basis, Tabled, TableTyped
    <3>3. run'[holder[k]] = run[holder[k]]
      BY <1>1, <3>1, <3>2
    <3> QED BY <2>1, <3>3 DEF Mode, Doing
  <2>2. CASE st[k] # "leased"
    BY <2>2 DEF Mode
  <2> QED BY <2>1, <2>2
<1>5. Agreed'
  BY DEF Agreed
<1> QED BY <1>2, <1>3, <1>4, <1>5 DEF Moved

\* A handler that inserts a job moves both.
LEMMA AddModes ==
  ASSUME Basis, Agreed, NEW w \in Workers, NEW j \in Jobs, NEW r, Goes(w, j, r),
         NEW n \in Jobs, n # j, Enqueue(n)
  PROVE  Agreed' /\ Added(j, Doing(r), n) /\ Mode(j) = Doing(run[w])
<1>1. CASE UNCHANGED table
  <2>1. Agreed' /\ Moved(j, Doing(r)) /\ Mode(j) = Doing(run[w])
    BY <1>1, StepModes
  <2>2. CASE Mode(n) # "absent"
    BY <2>1, <2>2 DEF Added, Moved
  <2>3. CASE Mode(n) = "absent"
    <3>1. st[n] = "absent"
      BY <2>3, AbsentIs
    <3>2. UNCHANGED st /\ ~(st[n] # "absent" /\ UNCHANGED table)
      BY <1>1, <3>1
    <3>3. Table!Offer(n)
      BY <3>2 DEF Enqueue
    <3>4. st'[n] = "ready"
      BY <3>3, Typed DEF Table!Offer, Basis, TableTyped
    <3> QED BY <3>1, <3>2, <3>4
  <2> QED BY <2>2, <2>3
<1>2. CASE Table!Offer(n)
  <2>1. /\ st[n] = "absent" /\ st'[n] = "ready" /\ UNCHANGED <<holder, doing>>
        /\ \A k \in Jobs \ {n} : st'[k] = st[k]
    BY <1>2, Typed DEF Table!Offer, Basis, TableTyped
  <2>2. /\ run' \in [Workers -> RunRecords] /\ run'[w] = r
        /\ \A v \in Workers \ {w} : run'[v] = run[v]
    BY Typed DEF Basis, Goes
  <2>3. Mode(j) = Doing(run[w]) /\ st[j] = "leased" /\ holder[j] = w
    BY ModeOf DEF Goes
  <2>4. Mode(j)' = Doing(r)
    BY <2>1, <2>2, <2>3 DEF Mode, Doing
  <2>5. Mode(n) = "absent" /\ Mode(n)' = "waiting"
    BY <2>1, AbsentIs DEF Mode, Result
  <2>6. ASSUME NEW k \in Jobs \ {j, n} PROVE Mode(k)' = Mode(k)
    <3>1. CASE st[k] = "leased"
      <4>1. holder[k] # w
        BY <3>1 DEF Agreed, Goes
      <4>2. holder[k] \in Workers
        BY <3>1, Typed DEF Basis, Tabled, TableTyped
      <4>3. run'[holder[k]] = run[holder[k]]
        BY <2>2, <4>1, <4>2
      <4> QED BY <2>1, <3>1, <4>3 DEF Mode, Doing
    <3>2. CASE st[k] # "leased"
      BY <2>1, <3>2 DEF Mode, Result
    <3> QED BY <3>1, <3>2
  <2>7. Agreed'
    BY <2>1 DEF Agreed
  <2> QED BY <2>3, <2>4, <2>5, <2>6, <2>7 DEF Added
<1> QED BY <1>1, <1>2 DEF Enqueue

\* A claim starts a job; a report and an answer change nothing that was not decided.
LEMMA RowModes ==
  ASSUME Basis, Agreed, faults' = 0
  PROVE  /\ \A w \in Workers, j \in Jobs : Claim(w, j) =>
              Agreed' /\ Mode(j) = "waiting" /\ Moved(j, "start") /\ Kind(j) # "deploy"
         /\ \A w \in Workers : Settle(w) => Agreed' /\ \A k \in Jobs : Mode(k)' = Mode(k)
         /\ \A j \in Jobs : Answer(j) =>
              Agreed' /\ Mode(j) = "waiting" /\ \A k \in Jobs : Mode(k)' = Mode(k)
         /\ \A j \in Jobs : ~Reap(j) /\ ~LoseLease(j)
         /\ \A w \in Workers : ~Crash(w) /\ ~Raise(w)
<1>1. TypeOK /\ Tabled /\ TableTyped /\ run \in [Workers -> RunRecords] /\ faults \in Nat
  <2>1. /\ TypeOK /\ Tabled /\ TableTyped /\ run \in [Workers -> RunRecords]
        /\ faults \in 0 .. MaxFaults
    BY Typed DEF Basis
  <2> QED BY <2>1
<1>2. ASSUME NEW w \in Workers, NEW j \in Jobs, Claim(w, j)
      PROVE  Agreed' /\ Mode(j) = "waiting" /\ Moved(j, "start") /\ Kind(j) # "deploy"
  <2> DEFINE r == [Idle EXCEPT !.at = "start"]
  <2>1. /\ doing[w] = NoJob /\ st[j] = "ready"
        /\ st' = [st EXCEPT ![j] = "leased"] /\ holder' = [holder EXCEPT ![j] = w]
        /\ doing' = [doing EXCEPT ![w] = j] /\ run' = [run EXCEPT ![w] = r]
        /\ Kind(j) # "deploy"
    BY <1>2 DEF Claim, Table!Grant
  <2>2. r.at = "start"
    BY DEF Idle
  <2> HIDE DEF r
  <2>3. /\ run'[w] = r /\ doing'[w] = j /\ st'[j] = "leased" /\ holder'[j] = w
        /\ \A v \in Workers \ {w} : run'[v] = run[v] /\ doing'[v] = doing[v]
        /\ \A k \in Jobs \ {j} : st'[k] = st[k] /\ holder'[k] = holder[k]
    BY <1>1, <2>1 DEF TableTyped
  <2>4. Mode(j) = "waiting" /\ Mode(j)' = "start"
    BY <2>1, <2>2, <2>3 DEF Mode, Doing, Result
  <2>5. ASSUME NEW k \in Jobs \ {j} PROVE Mode(k)' = Mode(k)
    <3>1. CASE st[k] = "leased"
      <4>1. holder[k] \in Workers \ {w}
        BY <1>1, <2>1, <3>1 DEF Agreed, Tabled, TableTyped
      <4> QED BY <2>3, <3>1, <4>1 DEF Mode, Doing
    <3>2. CASE st[k] # "leased"
      BY <2>3, <3>2 DEF Mode, Result
    <3> QED BY <3>1, <3>2
  <2>6. Agreed'
    <3>1. ASSUME NEW k \in Jobs, st'[k] = "leased" PROVE doing'[holder'[k]] = k
      <4>1. CASE k # j
        <5>1. holder[k] \in Workers \ {w}
          BY <1>1, <2>1, <2>3, <3>1, <4>1 DEF Agreed, Tabled, TableTyped
        <5> QED BY <2>3, <3>1, <4>1, <5>1 DEF Agreed
      <4> QED BY <2>3, <4>1
    <3>2. ASSUME NEW v \in Workers, doing'[v] # NoJob PROVE holder'[doing'[v]] = v
      <4>1. CASE v # w
        <5>1. doing'[v] = doing[v] /\ doing[v] \in Jobs /\ holder[doing[v]] = v
          BY <1>1, <2>3, <3>2, <4>1 DEF Agreed, TableTyped
        <5>2. doing[v] # j
          BY <1>1, <2>1, <5>1 DEF Tabled
        <5> QED BY <2>3, <5>1, <5>2
      <4> QED BY <2>3, <4>1
    <3> QED BY <3>1, <3>2 DEF Agreed
  <2> QED BY <2>1, <2>4, <2>5, <2>6 DEF Moved
<1>3. ASSUME NEW w \in Workers, Settle(w)
      PROVE  Agreed' /\ \A k \in Jobs : Mode(k)' = Mode(k)
  <2>1. run[w].at = "settle" /\ run' = [run EXCEPT ![w] = Idle]
    BY <1>3 DEF Settle
  <2>2. PICK j \in Jobs : j = doing[w]
    BY <2>1, AtWork
  <2>3. Mode(j) = Doing(run[w]) /\ st[j] = "leased" /\ holder[j] = w /\ doing[w] # NoJob
    BY <2>1, <2>2, ModeOf, AtWork
  <2>4. /\ st' = [st EXCEPT ![j] = run[w].out] /\ holder' = [holder EXCEPT ![j] = NoWorker]
        /\ doing' = [doing EXCEPT ![w] = NoJob]
        /\ run[w].out \in {"ready", "awaiting_human", "succeeded", "failed"}
    BY <1>1, <1>3, <2>2, <2>3 DEF Settle, Table!Report, TableTyped
  <2>5. /\ st'[j] = run[w].out /\ doing'[w] = NoJob
        /\ \A v \in Workers \ {w} : run'[v] = run[v] /\ doing'[v] = doing[v]
        /\ \A k \in Jobs \ {j} : st'[k] = st[k] /\ holder'[k] = holder[k]
    BY <1>1, <2>1, <2>4 DEF TableTyped
  <2>6. Mode(j)' = Mode(j)
    BY <2>1, <2>3, <2>4, <2>5 DEF Mode, Doing, Result
  <2>7. ASSUME NEW k \in Jobs \ {j}, st[k] = "leased" PROVE holder[k] \in Workers \ {w}
    BY <1>1, <2>2, <2>7 DEF Agreed, Tabled, TableTyped
  <2>8. ASSUME NEW k \in Jobs \ {j} PROVE Mode(k)' = Mode(k)
    <3>1. CASE st[k] = "leased"
      BY <2>5, <2>7, <3>1 DEF Mode, Doing
    <3>2. CASE st[k] # "leased"
      BY <2>5, <3>2 DEF Mode, Result
    <3> QED BY <3>1, <3>2
  <2>9. Agreed'
    <3>1. ASSUME NEW k \in Jobs, st'[k] = "leased" PROVE doing'[holder'[k]] = k
      <4>1. k # j
        BY <2>4, <2>5, <3>1
      <4> QED BY <2>5, <2>7, <3>1, <4>1 DEF Agreed
    <3>2. ASSUME NEW v \in Workers, doing'[v] # NoJob PROVE holder'[doing'[v]] = v
      <4>1. v # w /\ doing'[v] = doing[v]
        BY <2>5, <3>2
      <4>2. doing[v] \in Jobs /\ holder[doing[v]] = v
        BY <1>1, <3>2, <4>1 DEF Agreed, TableTyped
      <4> QED BY <2>3, <2>5, <4>1, <4>2
    <3> QED BY <3>1, <3>2 DEF Agreed
  <2> QED BY <2>6, <2>8, <2>9
<1>4. ASSUME NEW j \in Jobs, Answer(j)
      PROVE  Agreed' /\ Mode(j) = "waiting" /\ \A k \in Jobs : Mode(k)' = Mode(k)
  <2>1. /\ st[j] = "awaiting_human" /\ st'[j] = "ready" /\ UNCHANGED <<holder, doing, run>>
        /\ \A k \in Jobs \ {j} : st'[k] = st[k]
    BY <1>1, <1>4 DEF Answer, Table!Resume, TableTyped
  <2>2. Mode(j) = "waiting" /\ Mode(j)' = "waiting"
    BY <2>1 DEF Mode, Result
  <2>3. \A k \in Jobs \ {j} : Mode(k)' = Mode(k)
    BY <2>1 DEF Mode, Doing, Result
  <2>4. Agreed'
    BY <2>1 DEF Agreed
  <2> QED BY <2>2, <2>3, <2>4
<1>5. \A j \in Jobs : ~Reap(j) /\ ~LoseLease(j)
  BY <1>1 DEF Reap, LoseLease, May, Agreed
<1>6. \A w \in Workers : ~Crash(w) /\ ~Raise(w)
  BY <1>1 DEF Crash, Raise, May
<1> QED BY <1>2, <1>3, <1>4, <1>5, <1>6

-----------------------------------------------------------------------------
(* Course: steps within a job                                              *)

\* The modes that nothing else of the course depends on.
Plain == {"waiting", "start", "superseding", "raising", "taken", "triaged"}
Firm == {"absent", "over", "elicited", "entered", "redesigning", "rebuilding", "opted"}

\* The modes of a job, and what the course says of its cycle.
LEMMA ModesAre ==
  ASSUME NEW kind
  PROVE  Modes(kind) \subseteq Plain \cup Firm
BY DEF Modes, Common, Plain, Firm

\* The course as it stands for one cycle.
LEMMA CourseAt ==
  ASSUME Basis, Course, NEW c \in Cycles
  PROVE  /\ Pending(c) /\ Designing(c)
         /\ c = cycle => InOrder(c) /\ InPhase(c)
         /\ \A j \in Jobs : Mode(j) \in Modes(Kind(j))
BY DEF Course

\* A job at work moves from one plain mode to another, and nothing else depends on it.
LEMMA Quiet ==
  ASSUME Basis, Course, Agreed', Informed',
         \A k \in Jobs : \/ Mode(k)' = Mode(k)
                         \/ Mode(k) \in Plain /\ Mode(k)' \in Plain \cap Modes(Kind(k)),
         UNCHANGED <<project, cli, elicited, inventory>>, spec \subseteq spec',
         \A k \in Jobs : Mode(k) \notin Plain => gate'[k] = gate[k],
         \A c \in asked' \ asked :
           \E o \in {"entry", "loop"} : Mode(Interview(c, o)) # "absent",
         \A c \in Cycles : c = cycle /\ Mode(Choice(c)) # "absent" => open' = open
  PROVE  Course'
<1>1. \A k \in Jobs, x \in Firm : Mode(k)' = x <=> Mode(k) = x
  BY DEF Plain, Firm
<1>2. \A k \in Jobs : Mode(k)' \in Modes(Kind(k))
  BY DEF Course
<1>3. Elsewhere'
  BY <1>1 DEF Course, Elsewhere, Firm
<1>4. ASSUME NEW c \in Cycles PROVE Untouched(c)' <=> Untouched(c)
  BY <1>1, JobsAre DEF Untouched, Firm
<1>5. ASSUME NEW c \in Cycles PROVE Commanded(c)' <=> Commanded(c)
  BY DEF Commanded
<1>6. ASSUME NEW c \in Cycles PROVE Pending(c)'
  <2>1. Pending(c) /\ (Mode(Triage(c))' = "rebuilding" <=> Mode(Triage(c)) = "rebuilding")
        /\ (Mode(Inventory(c))' = "absent" <=> Mode(Inventory(c)) = "absent")
    BY <1>1, JobsAre, CourseAt DEF Firm
  <2>2. Commanded(c)' => c = cycle' /\ phase' = "BUILD" /\ Untouched(c)'
    BY <1>4, <1>5, <2>1 DEF Pending
  <2>3. Mode(Triage(c))' = "rebuilding" =>
          c + 1 = cycle' /\ phase' = "BUILD" /\ Untouched(c + 1)' /\ ~Commanded(c + 1)'
    <3>1. SUFFICES ASSUME Mode(Triage(c)) = "rebuilding"
                   PROVE  c + 1 = cycle' /\ phase' = "BUILD" /\ Untouched(c + 1)'
                          /\ ~Commanded(c + 1)'
      BY <2>1
    <3>2. c + 1 = cycle /\ phase = "BUILD" /\ Untouched(c + 1) /\ ~Commanded(c + 1)
      BY <2>1, <3>1 DEF Pending
    <3>3. c + 1 \in Cycles
      BY <3>2, Typed DEF Basis, RowTyped
    <3> QED BY <1>4, <1>5, <3>2, <3>3
  <2>4. c = cycle' /\ phase' = "BUILD" =>
          ~Untouched(c)' \/ Commanded(c)' \/ (c > 1 /\ Mode(Triage(c - 1))' = "rebuilding")
    <3>1. c > 1 => c - 1 \in Cycles
      BY DEF Cycles
    <3>2. c > 1 => (Mode(Triage(c - 1))' = "rebuilding" <=> Mode(Triage(c - 1)) = "rebuilding")
      BY <1>1, <3>1, JobsAre DEF Firm
    <3> QED BY <1>4, <1>5, <2>1, <3>2 DEF Pending
  <2>5. c = cycle' /\ phase' = "VISUAL_DESIGN" =>
          Mode(Inventory(c))' # "absent" \/ (cli'.at = "insert" /\ cli'.job = Inventory(c))
    BY <2>1 DEF Pending
  <2> QED BY <2>2, <2>3, <2>4, <2>5 DEF Pending
<1>7. ASSUME NEW c \in Cycles PROVE Designing(c)'
  <2>1. /\ Designing(c)
        /\ \A o \in {"entry", "loop"}, x \in Firm :
             Mode(Interview(c, o))' = x <=> Mode(Interview(c, o)) = x
        /\ \A x \in Firm : /\ Mode(Synthesize(c))' = x <=> Mode(Synthesize(c)) = x
                           /\ Mode(Inventory(c))' = x <=> Mode(Inventory(c)) = x
    BY <1>1, JobsAre, CourseAt
  <2> QED BY <2>1 DEF Designing, Firm
<1>8. ASSUME NEW c \in Cycles, c = cycle' PROVE InOrder(c)' /\ InPhase(c)'
  <2>1. InOrder(c) /\ InPhase(c)
    BY <1>8, CourseAt
  <2>2. \A x \in Firm :
          /\ Mode(Decompose(c))' = x <=> Mode(Decompose(c)) = x
          /\ Mode(Plan(c))' = x <=> Mode(Plan(c)) = x
          /\ Mode(Integrate(c))' = x <=> Mode(Integrate(c)) = x
          /\ Mode(Demo(c))' = x <=> Mode(Demo(c)) = x
          /\ Mode(Collect(c))' = x <=> Mode(Collect(c)) = x
          /\ Mode(Triage(c))' = x <=> Mode(Triage(c)) = x
          /\ Mode(Choice(c))' = x <=> Mode(Choice(c)) = x
          /\ Mode(Deploy(c))' = x <=> Mode(Deploy(c)) = x
    BY <1>1, JobsAre
  <2>3. Mode(Collect(c)) = "over" => gate'[Collect(c)] = gate[Collect(c)]
    BY JobsAre DEF Plain
  <2>4. Mode(Choice(c)) # "absent" => open' = open
    BY <1>8
  <2>5. InOrder(c)'
    BY <2>1, <2>2, <2>3, <2>4 DEF InOrder, Firm
  <2>6. InPhase(c)'
    BY <1>4, <2>1, <2>2 DEF InPhase, Firm
  <2> QED BY <2>5, <2>6
<1> QED BY <1>2, <1>3, <1>6, <1>7, <1>8 DEF Course

\* Once a job of the line is there, the cycle has begun and nobody is about to begin it.
LEMMA Begun ==
  ASSUME Basis, Course, NEW c \in Cycles, c = cycle, NEW j \in Jobs,
         Kind(j) \in Line, Cycle(j) = c, Mode(j) # "absent"
  PROVE  /\ ~Untouched(c) /\ phase \notin {"INTAKE", "DESIGN", "VISUAL_DESIGN"}
         /\ \A d \in Cycles : ~Commanded(d) /\ Mode(Triage(d)) # "rebuilding"
<1>1. InOrder(c) /\ InPhase(c)
  BY CourseAt
<1>2. j \in {Decompose(c), Plan(c), Integrate(c), Demo(c), Collect(c), Triage(c), Choice(c)}
  BY JobIs DEF Line
<1>3. ~Untouched(c)
  BY <1>1, <1>2 DEF InOrder, Untouched
<1>4. ASSUME NEW d \in Cycles PROVE ~Commanded(d) /\ Mode(Triage(d)) # "rebuilding"
  BY <1>3, CourseAt DEF Pending
<1> QED BY <1>1, <1>3, <1>4 DEF InPhase

\* A job that has work to do is in the cycle of the row.
LEMMA AtCycle ==
  ASSUME Basis, Course, NEW j \in Jobs, Kind(j) \in Line,
         Mode(j) \notin {"absent", "over", "redesigning", "rebuilding"}
  PROVE  Cycle(j) = cycle
<1>1. Cycle(j) \in Nat /\ cycle \in Nat
  BY JobIs, Typed DEF Basis, RowTyped, Cycles
<1>2. ~(Cycle(j) > cycle) /\ ~(Cycle(j) < cycle)
  BY DEF Course, Elsewhere
<1> QED BY <1>1, <1>2

\* What a step of the line has to show: its order and its phase.
LEMMA LineStep ==
  ASSUME Basis, Course, NEW c \in Cycles, c = cycle, NEW j \in Jobs,
         Kind(j) \in Line, Cycle(j) = c, Mode(j) # "absent",
         UNCHANGED <<cycle, stores, cli>>, phase' # "VISUAL_DESIGN",
         Agreed', Informed',
         \A k \in Jobs : Mode(k)' # Mode(k) =>
           /\ Kind(k) \in Line \cup {"deploy"} /\ Cycle(k) = c
           /\ Mode(k)' \in Modes(Kind(k)) \ {"absent", "redesigning", "rebuilding"},
         InOrder(c)', InPhase(c)'
  PROVE  Course'
<1>1. \A k \in Jobs : Mode(k)' \in Modes(Kind(k))
  BY DEF Course
<1>2. c \in Nat /\ \A k \in Jobs : Cycle(k) \in Nat
  BY JobIs DEF Cycles
<1>3. Elsewhere'
  BY <1>2 DEF Course, Elsewhere
<1>4. /\ ~Untouched(c)
      /\ \A d \in Cycles : ~Commanded(d) /\ Mode(Triage(d)) # "rebuilding"
  BY Begun
<1>5. ~Untouched(c)'
  <2>1. Decompose(c) \in Jobs /\ Plan(c) \in Jobs
    BY JobsAre
  <2>2. Mode(Decompose(c))' = "absent" => Mode(Decompose(c)) = "absent"
    BY <2>1
  <2>3. Mode(Plan(c))' = "absent" => Mode(Plan(c)) = "absent"
    BY <2>1
  <2> QED BY <1>4, <2>2, <2>3 DEF Untouched
<1>6. ASSUME NEW d \in Cycles PROVE Pending(d)'
  <2>1. ~Commanded(d)'
    BY <1>4 DEF Commanded
  <2>2. Mode(Triage(d))' # "rebuilding"
    BY <1>4, JobsAre
  <2> QED BY <1>5, <2>1, <2>2 DEF Pending
<1>7. ASSUME NEW d \in Cycles PROVE Designing(d)'
  <2>1. /\ \A o \in {"entry", "loop"} : Mode(Interview(d, o))' = Mode(Interview(d, o))
        /\ Mode(Synthesize(d))' = Mode(Synthesize(d)) /\ Mode(Inventory(d))' = Mode(Inventory(d))
    BY JobsAre DEF Line
  <2>2. Designing(d)
    BY CourseAt
  <2> QED BY <2>1, <2>2 DEF Designing
<1> QED BY <1>1, <1>3, <1>6, <1>7 DEF Course

\* Nobody has read the ledger for triage while something else of its cycle is at work.
LEMMA NobodyTriages ==
  ASSUME Basis, Course, NEW j \in Jobs, Kind(j) \in Line \ {"triage"},
         Mode(j) \notin {"absent", "over"}
  PROVE  \A v \in Workers : run[v].at # "triaged"
<1> SUFFICES ASSUME NEW v \in Workers, run[v].at = "triaged" PROVE FALSE
  OBVIOUS
<1>1. PICK t \in Jobs : t = doing[v]
  BY AtWork
<1>2. Mode(t) = "triaged"
  BY <1>1, ModeOf DEF Course, Doing
<1>3. Kind(t) = "triage"
  <2>1. Mode(t) \in Modes(Kind(t))
    BY DEF Course
  <2> QED BY <1>2, <2>1 DEF Modes, Common
<1>4. Cycle(t) = cycle /\ t = Triage(Cycle(t)) /\ Cycle(t) \in Cycles
  BY <1>2, <1>3, AtCycle, JobIs DEF Line
<1>5. PICK c \in Cycles : c = cycle /\ t = Triage(c)
  BY <1>4
<1>6. InOrder(c)
  BY <1>5, CourseAt
<1>7. Mode(j) \notin {"redesigning", "rebuilding"}
  <2>1. Mode(j) \in Modes(Kind(j))
    BY DEF Course
  <2> QED BY <2>1 DEF Modes, Common, Line
<1>8. Cycle(j) = c
  BY <1>5, <1>7, AtCycle DEF Line
<1>9. j \in {Decompose(c), Plan(c), Integrate(c), Demo(c), Collect(c), Choice(c)}
  BY <1>8, JobIs DEF Line
<1> QED BY <1>2, <1>5, <1>6, <1>9 DEF InOrder

\* Reading for triage is the only way to be informed anew.
LEMMA InformedKeeps ==
  ASSUME Basis, Informed, NEW w \in Workers, NEW j, NEW r, Goes(w, j, r), r.at # "triaged",
         open' = open \/ \A v \in Workers : run[v].at # "triaged"
  PROVE  Informed'
<1>1. run'[w] = r /\ \A v \in Workers \ {w} : run'[v] = run[v]
  BY Typed DEF Basis, Goes
<1> QED BY <1>1 DEF Informed

-----------------------------------------------------------------------------
(* Course: the line of BUILD and REVIEW                                    *)

\* Where a worker is tells the mode of its job, and a job of the line its cycle.
LEMMA AtPlace ==
  ASSUME Basis, Course, NEW w \in Workers, NEW kind, NEW place \in Places \ {"idle"},
         At(w, kind, place)
  PROVE  \E j \in Jobs, c \in Cycles :
           /\ j = doing[w] /\ c = Of(w) /\ Cycle(j) = c /\ Kind(j) = kind
           /\ run[w].at = place /\ Mode(j) = Doing(run[w])
           /\ place \notin {"settle", "looped", "carried"} => Mode(j) = place
           /\ kind \in Line /\ place \in Plain \cup {"entered", "opted"} => c = cycle
<1>1. run[w].at = place /\ Kind(doing[w]) = kind
  BY DEF At
<1>2. PICK j \in Jobs, c \in Cycles : j = doing[w] /\ c = Of(w) /\ Cycle(j) = c
  BY <1>1, AtWork
<1>3. Mode(j) = Doing(run[w])
  BY <1>1, <1>2, ModeOf DEF Course
<1>4. place \notin {"settle", "looped", "carried"} => Mode(j) = place
  BY <1>1, <1>3 DEF Doing
<1>5. kind \in Line /\ place \in Plain \cup {"entered", "opted"} => c = cycle
  BY <1>1, <1>2, <1>4, AtCycle DEF Plain
<1> QED BY <1>1, <1>2, <1>3, <1>4, <1>5

\* A handler of the line that returns success, behind the job it inserts.
LEMMA LineReturns ==
  ASSUME Basis, Course, NEW w \in Workers, run[w].at # "idle", NEW j \in Jobs, j = doing[w],
         NEW c \in Cycles, Kind(j) \in Line, Cycle(j) = c, c = cycle, Mode(j) # "absent",
         NEW n \in Jobs, n # j, Kind(n) \in Line \cup {"deploy"}, Cycle(n) = c, Enqueue(n),
         Return(w, "succeeded"), UNCHANGED <<project, stores, open, gate, cli>>
  PROVE  /\ Added(j, "over", n)
         /\ InOrder(c)' /\ InPhase(c)' => Course'
<1>1. PICK r \in RunRecords : Goes(w, j, r) /\ r.at = "settle" /\ r.out = "succeeded"
  BY Returning, PlacesAre
<1>2. Agreed' /\ Added(j, "over", n)
  <2>1. Doing(r) = "over"
    BY <1>1 DEF Doing, Result
  <2>2. Agreed' /\ Added(j, Doing(r), n)
    BY <1>1, AddModes DEF Course
  <2> QED BY <2>1, <2>2
<1>3. Informed'
  BY <1>1, InformedKeeps DEF Course
<1>4. \A k \in Jobs : Mode(k)' # Mode(k) =>
        /\ Kind(k) \in Line \cup {"deploy"} /\ Cycle(k) = c
        /\ Mode(k)' \in Modes(Kind(k)) \ {"absent", "redesigning", "rebuilding"}
  BY <1>2 DEF Added, Modes, Common, Line
<1>5. phase' # "VISUAL_DESIGN"
  BY Begun
<1> QED BY <1>2, <1>3, <1>4, <1>5, LineStep

\* A handler of the line that moves its own job, and perhaps the phase.
LEMMA LineGoes ==
  ASSUME Basis, Course, NEW w \in Workers, NEW j \in Jobs, NEW r \in RunRecords, Goes(w, j, r),
         NEW c \in Cycles, Kind(j) \in Line, Cycle(j) = c, c = cycle, Mode(j) # "absent",
         r.at # "triaged",
         Doing(r) \in Modes(Kind(j)) \ {"absent", "redesigning", "rebuilding"},
         UNCHANGED <<table, cycle, stores, open, gate, cli>>, phase' # "VISUAL_DESIGN"
  PROVE  /\ Moved(j, Doing(r))
         /\ InOrder(c)' /\ InPhase(c)' => Course'
<1>1. Agreed' /\ Moved(j, Doing(r))
  BY StepModes DEF Course
<1>2. Informed'
  BY InformedKeeps DEF Course
<1>3. \A k \in Jobs : Mode(k)' # Mode(k) =>
        /\ Kind(k) \in Line \cup {"deploy"} /\ Cycle(k) = c
        /\ Mode(k)' \in Modes(Kind(k)) \ {"absent", "redesigning", "rebuilding"}
  BY <1>1 DEF Moved
<1> QED BY <1>1, <1>2, <1>3, LineStep

\* Each job of the line is over as the next is inserted.
LEMMA CourseReturns ==
  ASSUME Basis, Course, NEW w \in Workers,
         \/ FanOut(w) \/ EnqueueDemo(w) \/ EnqueueCollect(w) \/ EnqueueTriage(w)
         \/ EnqueueChoice(w) \/ EnqueueDeploy(w)
  PROVE  Course'
<1>1. /\ run[w].at # "idle" /\ Return(w, "succeeded")
      /\ UNCHANGED <<project, stores, open, gate, cli>>
  BY DEF FanOut, EnqueueDemo, EnqueueCollect, EnqueueTriage, EnqueueChoice, EnqueueDeploy,
         At, Decomposing
<1>2. {"start", "entered", "raising", "taken", "triaged", "opted"} \subseteq
        (Places \ {"idle"}) \cap (Plain \cup {"entered", "opted"})
  BY DEF Places, Plain
<1>3. CASE FanOut(w)
  <2>1. PICK kind \in {"decompose", "plan"} : At(w, kind, "start")
    BY <1>3 DEF FanOut, Decomposing
  <2>2. PICK j \in Jobs, c \in Cycles :
          /\ j = doing[w] /\ c = Of(w) /\ Cycle(j) = c /\ Kind(j) = kind
          /\ Mode(j) = "start" /\ c = cycle
    BY <1>2, <2>1, AtPlace DEF Line
  <2>3. Enqueue(Integrate(c)) /\ Kind(Integrate(c)) = "integrate" /\ Cycle(Integrate(c)) = c
        /\ Integrate(c) \in Jobs
    BY <1>3, <2>2, JobsAre DEF FanOut
  <2>4. /\ Added(j, "over", Integrate(c))
        /\ InOrder(c)' /\ InPhase(c)' => Course'
    BY <1>1, <2>2, <2>3, LineReturns DEF Line
  <2>5. InOrder(c) /\ InPhase(c)
    BY <2>2, CourseAt
  <2>6. j \in {Decompose(c), Plan(c)}
    BY <2>2, JobIs
  <2>7. InOrder(c)'
    BY <1>1, <2>2, <2>4, <2>5, <2>6, JobsAre DEF InOrder, Added
  <2>8. InPhase(c)'
    BY <1>1, <2>2, <2>4, <2>5, <2>6, JobsAre DEF InOrder, InPhase, Untouched, Added
  <2> QED BY <2>4, <2>7, <2>8
<1>4. CASE EnqueueDemo(w)
  <2>1. PICK j \in Jobs, c \in Cycles :
          /\ j = doing[w] /\ c = Of(w) /\ Cycle(j) = c /\ Kind(j) = "integrate"
          /\ Mode(j) = "entered" /\ c = cycle /\ j = Integrate(c)
    BY <1>2, <1>4, AtPlace, JobIs DEF Line, EnqueueDemo
  <2>2. /\ Added(j, "over", Demo(c))
        /\ InOrder(c)' /\ InPhase(c)' => Course'
    BY <1>1, <1>4, <2>1, LineReturns, JobsAre DEF Line, EnqueueDemo
  <2>3. InOrder(c) /\ InPhase(c)
    BY <2>1, CourseAt
  <2>4. InOrder(c)'
    BY <1>1, <2>1, <2>2, <2>3, JobsAre DEF InOrder, Added
  <2>5. InPhase(c)'
    BY <1>1, <2>1, <2>2, <2>3, JobsAre DEF InOrder, InPhase, Untouched, Added
  <2> QED BY <2>2, <2>4, <2>5
<1>5. CASE EnqueueCollect(w)
  <2>1. PICK j \in Jobs, c \in Cycles :
          /\ j = doing[w] /\ c = Of(w) /\ Cycle(j) = c /\ Kind(j) = "demo"
          /\ Mode(j) = "raising" /\ c = cycle /\ j = Demo(c)
    BY <1>2, <1>5, AtPlace, JobIs DEF Line, EnqueueCollect
  <2>2. /\ Added(j, "over", Collect(c))
        /\ InOrder(c)' /\ InPhase(c)' => Course'
    BY <1>1, <1>5, <2>1, LineReturns, JobsAre DEF Line, EnqueueCollect
  <2>3. InOrder(c) /\ InPhase(c)
    BY <2>1, CourseAt
  <2>4. InOrder(c)'
    BY <1>1, <2>1, <2>2, <2>3, JobsAre DEF InOrder, Added
  <2>5. InPhase(c)'
    BY <1>1, <2>1, <2>2, <2>3, JobsAre DEF InOrder, InPhase, Untouched, Added
  <2> QED BY <2>2, <2>4, <2>5
<1>6. CASE EnqueueTriage(w)
  <2>1. PICK j \in Jobs, c \in Cycles :
          /\ j = doing[w] /\ c = Of(w) /\ Cycle(j) = c /\ Kind(j) = "collect"
          /\ Mode(j) = "taken" /\ c = cycle /\ j = Collect(c)
    BY <1>2, <1>6, AtPlace, JobIs DEF Line, EnqueueTriage
  <2>2. /\ Added(j, "over", Triage(c))
        /\ InOrder(c)' /\ InPhase(c)' => Course'
    BY <1>1, <1>6, <2>1, LineReturns, JobsAre DEF Line, EnqueueTriage
  <2>3. InOrder(c) /\ InPhase(c)
    BY <2>1, CourseAt
  <2>4. InOrder(c)'
    BY <1>1, <2>1, <2>2, <2>3, JobsAre DEF InOrder, Added
  <2>5. InPhase(c)'
    BY <1>1, <2>1, <2>2, <2>3, JobsAre DEF InOrder, InPhase, Untouched, Added
  <2> QED BY <2>2, <2>4, <2>5
<1>7. CASE EnqueueChoice(w)
  <2>1. PICK j \in Jobs, c \in Cycles :
          /\ j = doing[w] /\ c = Of(w) /\ Cycle(j) = c /\ Kind(j) = "triage"
          /\ Mode(j) = "triaged" /\ c = cycle /\ j = Triage(c) /\ run[w].at = "triaged"
    BY <1>2, <1>7, AtPlace, JobIs DEF Line, EnqueueChoice
  <2>2. /\ Added(j, "over", Choice(c))
        /\ InOrder(c)' /\ InPhase(c)' => Course'
    BY <1>1, <1>7, <2>1, LineReturns, JobsAre DEF Line, EnqueueChoice
  <2>3. InOrder(c) /\ InPhase(c)
    BY <2>1, CourseAt
  <2>4. open = {}
    BY <1>7, <2>1 DEF Course, Informed, EnqueueChoice
  <2>5. InOrder(c)'
    BY <1>1, <2>1, <2>2, <2>3, <2>4, JobsAre DEF InOrder, Added
  <2>6. InPhase(c)'
    BY <1>1, <2>1, <2>2, <2>3, JobsAre DEF InOrder, InPhase, Untouched, Added
  <2> QED BY <2>2, <2>5, <2>6
<1>8. CASE EnqueueDeploy(w)
  <2>1. PICK j \in Jobs, c \in Cycles :
          /\ j = doing[w] /\ c = Of(w) /\ Cycle(j) = c /\ Kind(j) = "choice"
          /\ Mode(j) = "opted" /\ c = cycle /\ j = Choice(c)
    BY <1>2, <1>8, AtPlace, JobIs DEF Line, EnqueueDeploy
  <2>2. /\ Added(j, "over", Deploy(c))
        /\ InOrder(c)' /\ InPhase(c)' => Course'
    BY <1>1, <1>8, <2>1, LineReturns, JobsAre DEF Line, EnqueueDeploy
  <2>3. InOrder(c) /\ InPhase(c)
    BY <2>1, CourseAt
  <2>4. InOrder(c)'
    BY <1>1, <2>1, <2>2, <2>3, JobsAre DEF InOrder, Added
  <2>5. InPhase(c)'
    BY <1>1, <2>1, <2>2, <2>3, JobsAre DEF InOrder, InPhase, Untouched, Added
  <2> QED BY <2>2, <2>4, <2>5
<1> QED BY <1>3, <1>4, <1>5, <1>6, <1>7, <1>8

\* The row moves with the job that is at work.
LEMMA CourseMoves ==
  ASSUME Basis, Course, NEW w \in Workers,
         EnterReview(w) \/ StopReview(w) \/ Decline(w) \/ OptIn(w)
  PROVE  Course'
<1>1. /\ run[w].at # "idle" /\ UNCHANGED <<table, cycle, stores, open, gate, cli>>
      /\ phase' # "VISUAL_DESIGN" \/ UNCHANGED phase
  BY DEF EnterReview, StopReview, Decline, OptIn, Transition, At
<1>2. "start" \in (Places \ {"idle"}) \cap Plain
  BY DEF Places, Plain
<1>3. CASE EnterReview(w)
  <2>1. PICK j \in Jobs, c \in Cycles :
          /\ j = doing[w] /\ c = Of(w) /\ Cycle(j) = c /\ Kind(j) = "integrate"
          /\ Mode(j) = "start" /\ c = cycle /\ j = Integrate(c)
    BY <1>2, <1>3, AtPlace, JobIs DEF Line, EnterReview
  <2>2. InOrder(c) /\ InPhase(c) /\ phase \notin {"INTAKE", "DESIGN", "VISUAL_DESIGN"}
    BY <2>1, CourseAt, Begun DEF Line
  <2>3. phase = "BUILD" /\ phase' = "REVIEW" /\ Goto(w, "entered")
    BY <1>3, <2>1, <2>2 DEF InOrder, InPhase, EnterReview, Transition
  <2>4. PICK i \in Jobs, r \in RunRecords : Goes(w, i, r) /\ i = doing[w] /\ r.at = "entered"
    BY <1>1, <2>3, Going, PlacesAre
  <2>5. Doing(r) = "entered" /\ Goes(w, j, r)
    BY <2>1, <2>4 DEF Doing
  <2>6. /\ Moved(j, "entered")
        /\ InOrder(c)' /\ InPhase(c)' => Course'
    <3>1. "entered" \in Modes(Kind(j)) \ {"absent", "redesigning", "rebuilding"}
      BY <2>1 DEF Modes
    <3>2. Mode(j) # "absent" /\ Kind(j) \in Line /\ phase' # "VISUAL_DESIGN" /\ r.at # "triaged"
      BY <2>1, <2>3, <2>4 DEF Line
    <3> QED BY <1>1, <2>1, <2>5, <3>1, <3>2, LineGoes
  <2>7. InOrder(c)'
    BY <1>1, <2>1, <2>2, <2>6, JobsAre DEF InOrder, Moved
  <2>8. InPhase(c)'
    BY <1>1, <2>1, <2>2, <2>3, <2>6, JobsAre DEF InOrder, InPhase, Untouched, Moved
  <2> QED BY <2>6, <2>7, <2>8
<1>4. CASE StopReview(w)
  <2>1. PICK j \in Jobs, c \in Cycles :
          /\ j = doing[w] /\ c = Of(w) /\ Cycle(j) = c /\ Kind(j) = "collect"
          /\ Mode(j) = "start" /\ c = cycle /\ j = Collect(c)
    BY <1>2, <1>4, AtPlace, JobIs DEF Line, StopReview
  <2>2. InOrder(c) /\ InPhase(c) /\ phase \notin {"INTAKE", "DESIGN", "VISUAL_DESIGN"}
    BY <2>1, CourseAt, Begun DEF Line
  <2>3. UNCHANGED phase /\ Return(w, "succeeded") /\ gate[j] \in {"question", "cancel"}
    BY <1>4, <2>1 DEF StopReview
  <2>4. PICK i \in Jobs, r \in RunRecords :
          Goes(w, i, r) /\ i = doing[w] /\ r.at = "settle" /\ r.out = "succeeded"
    BY <1>1, <2>3, Returning, PlacesAre
  <2>5. Doing(r) = "over" /\ Goes(w, j, r)
    BY <2>1, <2>4 DEF Doing, Result
  <2>6. /\ Moved(j, "over")
        /\ InOrder(c)' /\ InPhase(c)' => Course'
    <3>1. "over" \in Modes(Kind(j)) \ {"absent", "redesigning", "rebuilding"}
      BY <2>1 DEF Modes, Common
    <3>2. Mode(j) # "absent" /\ Kind(j) \in Line /\ phase' # "VISUAL_DESIGN" /\ r.at # "triaged"
      BY <2>1, <2>2, <2>3, <2>4 DEF Line
    <3> QED BY <1>1, <2>1, <2>5, <3>1, <3>2, LineGoes
  <2>7. InOrder(c)'
    BY <1>1, <2>1, <2>2, <2>3, <2>6, JobsAre DEF InOrder, Moved
  <2>8. InPhase(c)'
    BY <1>1, <2>1, <2>2, <2>3, <2>6, JobsAre DEF InOrder, InPhase, Untouched, Moved
  <2> QED BY <2>6, <2>7, <2>8
<1>5. CASE Decline(w) \/ OptIn(w)
  <2>1. run[w].at = "start" /\ At(w, "choice", "start") /\ phase = "REVIEW"
    BY <1>5 DEF Decline, OptIn, At, Transition
  <2>2. PICK j \in Jobs, c \in Cycles :
          /\ j = doing[w] /\ c = Of(w) /\ Cycle(j) = c /\ Kind(j) = "choice"
          /\ Mode(j) = "start" /\ c = cycle /\ j = Choice(c)
    BY <1>2, <2>1, AtPlace, JobIs DEF Line
  <2>3. InOrder(c) /\ InPhase(c)
    BY <2>2, CourseAt
  <2>4. PICK r \in RunRecords :
          /\ Goes(w, j, r) /\ r.at # "triaged"
          /\ \/ Doing(r) = "over" /\ phase' = "DONE"
             \/ Doing(r) = "opted" /\ phase' = "DEPLOY"
    <3>1. CASE Decline(w)
      <4>1. PICK i \in Jobs, r \in RunRecords :
              Goes(w, i, r) /\ i = doing[w] /\ r.at = "settle" /\ r.out = "succeeded"
        BY <1>1, <3>1, Returning, PlacesAre DEF Decline
      <4> QED BY <2>2, <3>1, <4>1 DEF Decline, Transition, Doing, Result
    <3>2. CASE OptIn(w)
      <4>1. PICK i \in Jobs, r \in RunRecords : Goes(w, i, r) /\ i = doing[w] /\ r.at = "opted"
        BY <1>1, <3>2, Going, PlacesAre DEF OptIn
      <4> QED BY <2>2, <3>2, <4>1 DEF OptIn, Transition, Doing
    <3> QED BY <1>5, <3>1, <3>2
  <2>5. /\ Moved(j, Doing(r))
        /\ InOrder(c)' /\ InPhase(c)' => Course'
    <3>1. Doing(r) \in Modes(Kind(j)) \ {"absent", "redesigning", "rebuilding"}
      BY <2>2, <2>4 DEF Modes, Common
    <3>2. Mode(j) # "absent" /\ Kind(j) \in Line /\ phase' # "VISUAL_DESIGN"
      BY <2>2, <2>4 DEF Line
    <3> QED BY <1>1, <2>2, <2>4, <3>1, <3>2, LineGoes
  <2>6. InOrder(c)'
    BY <1>1, <2>2, <2>3, <2>4, <2>5, JobsAre DEF InOrder, Moved
  <2>7. InPhase(c)'
    BY <1>1, <2>1, <2>2, <2>3, <2>4, <2>5, JobsAre DEF InOrder, InPhase, Untouched, Moved
  <2> QED BY <2>5, <2>6, <2>7
<1> QED BY <1>3, <1>4, <1>5

\* The loop-back leaves a finished cycle behind and begins the next.
LEMMA CourseLoops ==
  ASSUME Basis, Course, NEW w \in Workers, LoopBack(w)
  PROVE  /\ Course'
         /\ cycle' = cycle + 1
<1>1. /\ At(w, "triage", "triaged") /\ run[w].at # "idle" /\ Of(w) < MaxCycle
      /\ phase = "REVIEW" /\ phase' = Target(w) /\ cycle' = Of(w) + 1 /\ Goto(w, "looped")
      /\ UNCHANGED <<table, stores, open, gate, cli>>
  BY DEF LoopBack, At, Transition
<1>2. "triaged" \in (Places \ {"idle"}) \cap Plain
  BY DEF Places, Plain
<1>3. PICK j \in Jobs, c \in Cycles :
        /\ j = doing[w] /\ c = Of(w) /\ Cycle(j) = c /\ Kind(j) = "triage"
        /\ Mode(j) = "triaged" /\ c = cycle /\ j = Triage(c)
  BY <1>1, <1>2, AtPlace, JobIs DEF Line
<1>4. PICK d \in Cycles : d = c + 1 /\ d \in Nat /\ c \in Nat
  BY <1>1, <1>3 DEF Cycles
<1>5. PICK i \in Jobs, r \in RunRecords :
        Goes(w, i, r) /\ i = doing[w] /\ r.at = "looped" /\ r.seen = run[w].seen
  BY <1>1, Going, PlacesAre
<1>6. PICK m \in {"redesigning", "rebuilding"} :
        /\ m = Doing(r) /\ Goes(w, j, r)
        /\ phase' = IF m = "rebuilding" THEN "BUILD" ELSE "DESIGN"
  BY <1>1, <1>3, <1>5 DEF Doing, Target
<1>7. Agreed' /\ Moved(j, m)
  BY <1>1, <1>6, StepModes DEF Course
<1>8. Informed'
  BY <1>1, <1>5, InformedKeeps DEF Course
<1>9. InOrder(c) /\ InPhase(c)
  BY <1>3, CourseAt
<1>10. \A k \in Jobs : Mode(k)' \in Modes(Kind(k))
  BY <1>3, <1>6, <1>7 DEF Course, Moved, Modes
<1>11. \A k \in Jobs :
         Kind(k) \in Line \ {"triage"} /\ Cycle(k) = c => Mode(k) \in {"absent", "over"}
  <2> SUFFICES ASSUME NEW k \in Jobs, Kind(k) \in Line \ {"triage"}, Cycle(k) = c
               PROVE  Mode(k) \in {"absent", "over"}
    OBVIOUS
  <2>1. k \in {Decompose(c), Plan(c), Integrate(c), Demo(c), Collect(c), Choice(c)}
    BY JobIs DEF Line
  <2> QED BY <1>3, <1>9, <2>1 DEF InOrder
<1>12. \A k \in Jobs : Cycle(k) \in Nat
  BY JobIs DEF Cycles
<1>13. Elsewhere'
  <2> SUFFICES ASSUME NEW k \in Jobs
               PROVE  /\ Kind(k) \in Line \cup {"deploy"} /\ Cycle(k) > d => Mode(k)' = "absent"
                      /\ Kind(k) \in Line /\ Cycle(k) < d =>
                           \/ Mode(k)' \in {"absent", "over"}
                           \/ Kind(k) = "triage" /\ Mode(k)' \in {"redesigning", "rebuilding"}
    BY <1>1, <1>3, <1>4 DEF Elsewhere
  <2>1. CASE k = j
    BY <1>3, <1>4, <1>6, <1>7, <2>1 DEF Moved
  <2>2. CASE k # j
    <3>1. Mode(k)' = Mode(k)
      BY <1>7, <2>2 DEF Moved
    <3>2. CASE Cycle(k) > d
      <4>1. Cycle(k) > cycle
        BY <1>3, <1>4, <1>12, <3>2
      <4>2. ~(Cycle(k) < d)
        BY <1>4, <1>12, <3>2
      <4> QED BY <3>1, <4>1, <4>2 DEF Course, Elsewhere
    <3>3. CASE Cycle(k) < d /\ Cycle(k) # c
      <4>1. Cycle(k) < cycle /\ ~(Cycle(k) > d)
        BY <1>3, <1>4, <1>12, <3>3
      <4> QED BY <3>1, <4>1 DEF Course, Elsewhere
    <3>4. CASE Cycle(k) = c
      <4>1. ~(Cycle(k) > d)
        BY <1>4, <3>4
      <4>2. Kind(k) # "triage"
        BY <1>3, <2>2, <3>4, JobIs
      <4> QED BY <1>11, <3>1, <3>4, <4>1, <4>2
    <3>5. CASE Cycle(k) = d
      BY <1>4, <3>5
    <3> QED BY <1>4, <1>12, <3>2, <3>3, <3>4, <3>5
  <2> QED BY <2>1, <2>2
<1>14. \A e \in Jobs :
         Kind(e) \in Line \cup {"deploy"} /\ Cycle(e) = d => Mode(e)' = "absent"
  BY <1>3, <1>4, <1>7 DEF Course, Elsewhere, Moved
<1>15. /\ Mode(Decompose(d))' = "absent" /\ Mode(Plan(d))' = "absent"
       /\ Mode(Integrate(d))' = "absent" /\ Mode(Demo(d))' = "absent"
       /\ Mode(Collect(d))' = "absent" /\ Mode(Triage(d))' = "absent"
       /\ Mode(Choice(d))' = "absent"
  BY <1>14, JobsAre DEF Line
<1>16. \A e \in Cycles : ~Commanded(e)' /\ (Mode(Triage(e))' = "rebuilding" => e = c)
  <2> TAKE e \in Cycles
  <2>1. ~Commanded(e) /\ Mode(Triage(e)) # "rebuilding"
    BY <1>1, CourseAt DEF Pending
  <2>2. ~Commanded(e)'
    BY <1>1, <2>1 DEF Commanded
  <2>3. e # c => Mode(Triage(e))' = Mode(Triage(e))
    BY <1>3, <1>7, JobsAre DEF Moved
  <2> QED BY <2>1, <2>2, <2>3
<1>17. ASSUME NEW e \in Cycles PROVE Pending(e)'
  <2>1. phase' = "BUILD" \/ Mode(Triage(c))' # "rebuilding"
    BY <1>3, <1>6, <1>7 DEF Moved
  <2>2. phase' = "BUILD" => Mode(Triage(c))' = "rebuilding"
    BY <1>3, <1>6, <1>7 DEF Moved
  <2>3. /\ Untouched(d)' /\ cycle' = d /\ d > 1 /\ d - 1 = c
        /\ ~Commanded(d)' /\ phase' # "VISUAL_DESIGN"
    BY <1>1, <1>3, <1>4, <1>6, <1>15, <1>16 DEF Untouched, Cycles
  <2> QED BY <1>4, <1>16, <2>1, <2>2, <2>3 DEF Pending
<1>18. ASSUME NEW e \in Cycles PROVE Designing(e)'
  <2>1. /\ \A o \in {"entry", "loop"} : Mode(Interview(e, o))' = Mode(Interview(e, o))
        /\ Mode(Synthesize(e))' = Mode(Synthesize(e)) /\ Mode(Inventory(e))' = Mode(Inventory(e))
    BY <1>3, <1>7, JobsAre DEF Moved
  <2>2. Designing(e)
    BY CourseAt
  <2> QED BY <1>1, <2>1, <2>2 DEF Designing
<1>19. InOrder(d)' /\ InPhase(d)'
  BY <1>6, <1>15 DEF InOrder, InPhase, Untouched
<1>20. cycle' = d
  BY <1>1, <1>3, <1>4
<1>21. Course'
  BY <1>7, <1>8, <1>10, <1>13, <1>17, <1>18, <1>19, <1>20 DEF Course
<1> QED BY <1>3, <1>4, <1>20, <1>21

-----------------------------------------------------------------------------
(* Course: steps that nothing else depends on                              *)

\* While a job before it is at work, the choice of its cycle is not there.
LEMMA BeforeChoice ==
  ASSUME Basis, Course, NEW j \in Jobs, Kind(j) \in {"demo", "collect"}, Mode(j) \in Plain,
         NEW c \in Cycles, c = cycle
  PROVE  Mode(Choice(c)) = "absent"
<1>1. Cycle(j) = c
  BY AtCycle DEF Line, Plain
<1>2. j \in {Demo(c), Collect(c)} /\ InOrder(c)
  BY <1>1, JobIs, CourseAt
<1> QED BY <1>2 DEF InOrder, Plain

\* A claim, a report and an answer.
LEMMA CourseRows ==
  ASSUME Basis, Course, faults' = 0,
         \/ \E w \in Workers : Settle(w) \/ \E j \in Jobs : Claim(w, j)
         \/ \E j \in Jobs : Answer(j)
  PROVE  Course'
<1>1. UNCHANGED <<project, stores, open, cli>>
  BY DEF Settle, Claim, Answer
<1>2. ASSUME NEW w \in Workers, NEW j \in Jobs, Claim(w, j) PROVE Course'
  <2>1. Agreed' /\ Mode(j) = "waiting" /\ Moved(j, "start") /\ Kind(j) # "deploy"
    BY <1>2, RowModes DEF Course
  <2>2. "start" \in Plain \cap Modes(Kind(j)) /\ "waiting" \in Plain
    BY <2>1, JobIs DEF Plain, Modes, Common, Single
  <2>3. \A k \in Jobs : \/ Mode(k)' = Mode(k)
                        \/ Mode(k) \in Plain /\ Mode(k)' \in Plain \cap Modes(Kind(k))
    BY <2>1, <2>2 DEF Moved
  <2>4. Informed'
    <3>1. run' = [run EXCEPT ![w] = [Idle EXCEPT !.at = "start"]] /\ open' = open
      BY <1>2 DEF Claim
    <3>2. [Idle EXCEPT !.at = "start"].at = "start"
      BY DEF Idle
    <3>3. run'[w].at = "start" /\ \A v \in Workers \ {w} : run'[v] = run[v]
      BY <3>1, <3>2, Typed DEF Basis
    <3> QED BY <3>1, <3>3 DEF Course, Informed
  <2>5. gate' = gate
    BY <1>2 DEF Claim
  <2> QED BY <1>1, <2>1, <2>3, <2>4, <2>5, Quiet
<1>3. ASSUME NEW w \in Workers, Settle(w) PROVE Course'
  <2>1. Agreed' /\ \A k \in Jobs : Mode(k)' = Mode(k)
    BY <1>3, RowModes DEF Course
  <2>2. Informed'
    <3>1. run' = [run EXCEPT ![w] = Idle] /\ open' = open
      BY <1>3 DEF Settle
    <3>2. run'[w].at = "idle" /\ \A v \in Workers \ {w} : run'[v] = run[v]
      BY <3>1, Typed DEF Basis, Idle
    <3> QED BY <3>1, <3>2 DEF Course, Informed
  <2>3. gate' = gate
    BY <1>3 DEF Settle
  <2> QED BY <1>1, <2>1, <2>2, <2>3, Quiet
<1>4. ASSUME NEW j \in Jobs, Answer(j) PROVE Course'
  <2>1. Agreed' /\ Mode(j) = "waiting" /\ \A k \in Jobs : Mode(k)' = Mode(k)
    BY <1>4, RowModes DEF Course
  <2>2. Informed'
    BY <1>4 DEF Course, Informed, Answer
  <2>3. \A k \in Jobs : Mode(k) \notin Plain => gate'[k] = gate[k]
    <3>1. PICK reply : gate' = [gate EXCEPT ![j] = reply]
      BY <1>4 DEF Answer
    <3>2. \A k \in Jobs \ {j} : gate'[k] = gate[k]
      BY <3>1, Typed DEF Basis, LedgerTyped
    <3> QED BY <2>1, <3>2 DEF Plain
  <2> QED BY <1>1, <2>1, <2>2, <2>3, Quiet
<1> QED BY <1>2, <1>3, <1>4

\* A job of the line that moves from plain to plain and writes the ledger of findings.
LEMMA QuietStep ==
  ASSUME Basis, Course, NEW w \in Workers, NEW j \in Jobs, NEW r \in RunRecords, Goes(w, j, r),
         Mode(j) \in Plain, Doing(r) \in Plain \cap Modes(Kind(j)), r.at # "triaged",
         UNCHANGED <<table, project, stores, gate, cli>>,
         open' = open \/ Kind(j) \in {"demo", "collect"}
  PROVE  Course'
<1>1. Agreed' /\ Moved(j, Doing(r))
  BY StepModes DEF Course
<1>2. \A k \in Jobs : \/ Mode(k)' = Mode(k)
                      \/ Mode(k) \in Plain /\ Mode(k)' \in Plain \cap Modes(Kind(k))
  BY <1>1 DEF Moved
<1>3. open' = open \/ \A v \in Workers : run[v].at # "triaged"
  BY NobodyTriages DEF Line, Plain
<1>4. Informed'
  BY <1>3, InformedKeeps DEF Course
<1>5. \A c \in Cycles : c = cycle /\ Mode(Choice(c)) # "absent" => open' = open
  BY BeforeChoice
<1> QED BY <1>1, <1>2, <1>4, <1>5, Quiet

\* The demo reads and raises findings, and collect takes the verdict.
LEMMA CourseScans ==
  ASSUME Basis, Course, NEW w \in Workers,
         \/ ReadStale(w) \/ Scan(w) \/ TakeVerdict(w)
         \/ \E f \in Automated : Supersede(w, f) \/ RaiseAutomated(w, f)
  PROVE  Course'
<1>1. UNCHANGED <<table, project, stores, gate, cli>> /\ run[w].at # "idle"
  BY DEF ReadStale, Scan, TakeVerdict, Supersede, RaiseAutomated, At
<1>2. {"start", "superseding", "raising"} \subseteq (Places \ {"idle"}) \cap Plain
  BY DEF Places, Plain
<1>3. /\ open \subseteq Findings /\ Automated \subseteq Findings
      /\ run[w] \in RunRecords /\ run \in [Workers -> RunRecords]
  BY <1>1, Typed, AtWork DEF Basis, LedgerTyped, Findings
<1>4. CASE TakeVerdict(w)
  <2>1. PICK j \in Jobs : j = doing[w] /\ Kind(j) = "collect" /\ Mode(j) = "start"
    BY <1>2, <1>4, AtPlace DEF TakeVerdict
  <2>2. PICK i \in Jobs, r \in RunRecords : Goes(w, i, r) /\ i = doing[w] /\ r.at = "taken"
    BY <1>1, <1>4, Going, PlacesAre DEF TakeVerdict
  <2>3. Doing(r) \in Plain \cap Modes(Kind(j)) /\ r.at # "triaged" /\ Mode(j) \in Plain
    BY <2>1, <2>2 DEF Doing, Plain, Modes
  <2> QED BY <1>1, <2>1, <2>2, <2>3, QuietStep
<1>5. ASSUME NEW place \in {"superseding", "raising"}, NEW seen \in SUBSET Findings,
             Onto(w, place, seen), NEW from \in {"start", "superseding", "raising"},
             At(w, "demo", from)
      PROVE  Course'
  <2>1. PICK j \in Jobs : j = doing[w] /\ Kind(j) = "demo" /\ Mode(j) = from
    BY <1>2, <1>5, AtPlace
  <2>2. place \in Places \ {"idle"}
    BY PlacesAre
  <2>3. PICK i \in Jobs, r \in RunRecords : Goes(w, i, r) /\ i = doing[w] /\ r.at = place
    BY <1>1, <1>5, <2>2, Onward
  <2>4. Doing(r) \in Plain \cap Modes(Kind(j)) /\ r.at # "triaged" /\ Mode(j) \in Plain
    BY <2>1, <2>3 DEF Doing, Plain, Modes
  <2> QED BY <1>1, <2>1, <2>3, <2>4, QuietStep
<1>6. CASE ReadStale(w) \/ Scan(w)
  <2>1. \E place \in {"superseding", "raising"}, seen \in SUBSET Findings : Onto(w, place, seen)
    BY <1>3, <1>6 DEF ReadStale, Scan, Onto
  <2>2. \E from \in {"start", "superseding", "raising"} : At(w, "demo", from)
    BY <1>6 DEF ReadStale, Scan
  <2> QED BY <1>5, <2>1, <2>2
<1>7. CASE \E f \in Automated : Supersede(w, f) \/ RaiseAutomated(w, f)
  <2>1. PICK f \in Automated : Supersede(w, f) \/ RaiseAutomated(w, f)
    BY <1>7
  <2>2. /\ run' = [run EXCEPT ![w] = [run[w] EXCEPT !.seen = run[w].seen \ {f}]]
        /\ run[w].at \in {"superseding", "raising"} /\ run[w].seen \ {f} \in SUBSET Findings
        /\ At(w, "demo", run[w].at)
    BY <1>3, <2>1 DEF Supersede, RaiseAutomated, At, RunRecords
  <2>3. PICK place \in {"superseding", "raising"}, seen \in SUBSET Findings :
          place = run[w].at /\ seen = run[w].seen \ {f}
    BY <2>2
  <2>4. [run[w] EXCEPT !.seen = seen] = [run[w] EXCEPT !.at = place, !.seen = seen]
    BY <1>3, <2>3 DEF RunRecords
  <2>5. Onto(w, place, seen) /\ At(w, "demo", place)
    BY <2>2, <2>3, <2>4 DEF Onto
  <2> QED BY <1>5, <2>5
<1> QED BY <1>4, <1>6, <1>7

\* Triage reads what is open, which nobody changes until it has acted.
LEMMA CourseReads ==
  ASSUME Basis, Course, NEW w \in Workers, ReadFindings(w)
  PROVE  Course'
<1>1. /\ At(w, "triage", "start") /\ run[w].at # "idle"
      /\ Onto(w, "triaged", open)
      /\ UNCHANGED <<table, project, stores, open, gate, cli>>
  BY DEF ReadFindings, At, Onto
<1>2. "start" \in (Places \ {"idle"}) \cap Plain
  BY DEF Places, Plain
<1>3. PICK j \in Jobs : j = doing[w] /\ Kind(j) = "triage" /\ Mode(j) = "start"
  BY <1>1, <1>2, AtPlace
<1>4. PICK seen \in SUBSET Findings : seen = open
  BY Typed DEF Basis, LedgerTyped
<1>5. PICK i \in Jobs, r \in RunRecords :
        Goes(w, i, r) /\ i = doing[w] /\ r.at = "triaged" /\ r.seen = seen
  BY <1>1, <1>4, Onward, PlacesAre
<1>6. Agreed' /\ Moved(j, "triaged")
  BY <1>1, <1>3, <1>5, StepModes DEF Course, Doing
<1>7. \A k \in Jobs : \/ Mode(k)' = Mode(k)
                      \/ Mode(k) \in Plain /\ Mode(k)' \in Plain \cap Modes(Kind(k))
  BY <1>3, <1>6 DEF Moved, Plain, Modes
<1>8. Informed'
  <2>1. run'[w] = r /\ \A v \in Workers \ {w} : run'[v] = run[v]
    BY <1>5, Typed DEF Basis, Goes
  <2> QED BY <1>1, <1>4, <1>5, <2>1 DEF Course, Informed
<1> QED BY <1>1, <1>6, <1>7, <1>8, Quiet

\* As long as nothing goes wrong neither compare-and-set of a review misses.
LEMMA NobodyMisses ==
  ASSUME Basis, Course, NEW w \in Workers
  PROVE  ~Misses(w)
<1> SUFFICES ASSUME Misses(w) PROVE FALSE
  OBVIOUS
<1>1. {"start", "triaged"} \subseteq (Places \ {"idle"}) \cap Plain
  BY DEF Places, Plain
<1>2. \E kind \in {"triage", "choice"}, place \in {"triaged", "start"} :
        At(w, kind, place) /\ (kind = "triage" <=> place = "triaged")
  BY DEF Misses
<1>3. PICK j \in Jobs, c \in Cycles :
        /\ c = cycle /\ Cycle(j) = c
        /\ \/ Kind(j) = "triage" /\ Mode(j) = "triaged"
           \/ Kind(j) = "choice" /\ Mode(j) = "start"
  BY <1>1, <1>2, AtPlace DEF Line
<1>4. /\ InOrder(c) /\ InPhase(c) /\ j \in {Triage(c), Choice(c)}
      /\ phase \notin {"INTAKE", "DESIGN", "VISUAL_DESIGN"}
  BY <1>3, CourseAt, JobIs, Begun DEF Line
<1>5. phase = "REVIEW"
  BY <1>3, <1>4, JobsAre DEF InOrder, InPhase
<1> QED BY <1>5 DEF Misses

-----------------------------------------------------------------------------
(* Course: design                                                          *)

\* A command inserts a job of a design.
InsertsDesign ==
  /\ cli' = NoCommand
  /\ \A c \in Cycles : ~Commanded(c)
  /\ \A c \in Cycles : cli.job = Inventory(c) => Mode(Inventory(c))' # "absent"

\* What a step of a design has to show: that the design goes on to its acceptance.
LEMMA DesignStep ==
  ASSUME Basis, Course, Agreed', Informed',
         UNCHANGED <<project, open, gate>>,
         UNCHANGED cli \/ InsertsDesign,
         \A k \in Jobs : Mode(k)' # Mode(k) =>
           /\ Kind(k) \in {"interview", "synthesize", "inventory"}
           /\ Mode(k)' \in Modes(Kind(k)) \ {"absent"},
         \A c \in Cycles : Designing(c)'
  PROVE  Course'
<1>1. \A k \in Jobs : Mode(k)' \in Modes(Kind(k))
  BY DEF Course
<1>2. \A k \in Jobs : Kind(k) \in Line \cup {"deploy"} => Mode(k)' = Mode(k)
  BY DEF Line
<1>3. Elsewhere'
  BY <1>2 DEF Course, Elsewhere
<1>4. ASSUME NEW c \in Cycles
      PROVE  /\ Mode(Decompose(c))' = Mode(Decompose(c)) /\ Mode(Plan(c))' = Mode(Plan(c))
             /\ Mode(Integrate(c))' = Mode(Integrate(c)) /\ Mode(Demo(c))' = Mode(Demo(c))
             /\ Mode(Collect(c))' = Mode(Collect(c)) /\ Mode(Triage(c))' = Mode(Triage(c))
             /\ Mode(Choice(c))' = Mode(Choice(c)) /\ Mode(Deploy(c))' = Mode(Deploy(c))
  BY <1>2, JobsAre DEF Line
<1>5. ASSUME NEW c \in Cycles PROVE /\ Untouched(c)' <=> Untouched(c)
                                    /\ Commanded(c)' <=> Commanded(c)
  BY <1>4 DEF Untouched, Commanded, InsertsDesign, NoCommand
<1>6. ASSUME NEW c \in Cycles PROVE Pending(c)'
  <2>1. Pending(c) /\ (c > 1 => c - 1 \in Cycles)
    BY CourseAt DEF Cycles
  <2>2. Mode(Triage(c)) = "rebuilding" => c + 1 \in Cycles
    BY <2>1, Typed DEF Pending, Basis, RowTyped
  <2>3. Mode(Inventory(c)) # "absent" => Mode(Inventory(c))' # "absent"
    BY JobsAre
  <2> QED BY <1>4, <1>5, <2>1, <2>2, <2>3 DEF Pending, InsertsDesign
<1>7. ASSUME NEW c \in Cycles, c = cycle' PROVE InOrder(c)' /\ InPhase(c)'
  <2>1. InOrder(c) /\ InPhase(c)
    BY <1>7, CourseAt
  <2> QED BY <1>4, <1>5, <2>1 DEF InOrder, InPhase
<1> QED BY <1>1, <1>3, <1>6, <1>7 DEF Course

\* An interview elicits, and inserts the synthesis behind it.
LEMMA CourseElicits ==
  ASSUME Basis, Course, NEW w \in Workers, Elicited(w) \/ EnqueueSynthesize(w)
  PROVE  Course'
<1>1. run[w].at # "idle" /\ UNCHANGED <<project, asked, spec, inventory, open, gate, cli>>
  BY DEF Elicited, EnqueueSynthesize, At
<1>2. {"start", "elicited"} \subseteq Places \ {"idle"}
  BY DEF Places
<1>3. CASE Elicited(w)
  <2>1. PICK j \in Jobs, c \in Cycles :
          j = doing[w] /\ c = Of(w) /\ Cycle(j) = c /\ Kind(j) = "interview"
    BY <1>2, <1>3, AtPlace DEF Elicited
  <2>2. PICK i \in Jobs, r \in RunRecords : Goes(w, i, r) /\ i = doing[w] /\ r.at = "elicited"
    BY <1>1, <1>3, Going, PlacesAre DEF Elicited
  <2>3. Agreed' /\ Moved(j, "elicited")
    BY <1>3, <2>1, <2>2, StepModes DEF Course, Elicited, Doing
  <2>4. Informed'
    BY <1>1, <2>2, InformedKeeps DEF Course
  <2>5. elicited' = elicited \cup {c}
    BY <1>3, <2>1 DEF Elicited
  <2>6. ASSUME NEW d \in Cycles PROVE Designing(d)'
    <3>1. Designing(d)
      BY CourseAt
    <3>2. /\ Mode(Synthesize(d))' = Mode(Synthesize(d)) /\ Mode(Inventory(d))' = Mode(Inventory(d))
          /\ \A o \in {"entry", "loop"} :
               \/ Mode(Interview(d, o))' = Mode(Interview(d, o))
               \/ Mode(Interview(d, o))' = "elicited" /\ d = c
      BY <2>1, <2>3, JobsAre DEF Moved
    <3> QED BY <1>1, <2>5, <3>1, <3>2 DEF Designing
  <2>7. \A k \in Jobs : Mode(k)' # Mode(k) =>
          /\ Kind(k) \in {"interview", "synthesize", "inventory"}
          /\ Mode(k)' \in Modes(Kind(k)) \ {"absent"}
    BY <2>1, <2>3 DEF Moved, Modes
  <2> QED BY <1>1, <2>3, <2>4, <2>6, <2>7, DesignStep
<1>4. CASE EnqueueSynthesize(w)
  <2>1. PICK j \in Jobs, c \in Cycles :
          /\ j = doing[w] /\ c = Of(w) /\ Cycle(j) = c /\ Kind(j) = "interview"
          /\ Mode(j) = "elicited"
    BY <1>2, <1>4, AtPlace DEF EnqueueSynthesize
  <2>2. PICK r \in RunRecords : Goes(w, j, r) /\ r.at = "settle" /\ r.out = "succeeded"
    BY <1>1, <1>4, <2>1, Returning, PlacesAre DEF EnqueueSynthesize
  <2>3. Agreed' /\ Added(j, "over", Synthesize(c))
    <3>1. Synthesize(c) \in Jobs /\ Synthesize(c) # j /\ Enqueue(Synthesize(c))
      BY <1>4, <2>1, JobsAre DEF EnqueueSynthesize
    <3> QED BY <2>2, <3>1, AddModes DEF Course, Doing, Result
  <2>4. Informed'
    BY <1>1, <2>2, InformedKeeps DEF Course
  <2>5. UNCHANGED elicited
    BY <1>4 DEF EnqueueSynthesize
  <2>6. ASSUME NEW d \in Cycles PROVE Designing(d)'
    <3>1. Designing(d) /\ Designing(c) /\ \E o \in {"entry", "loop"} : j = Interview(c, o)
      BY <2>1, CourseAt, JobIs
    <3>2. /\ Mode(Inventory(d))' = Mode(Inventory(d))
          /\ \A o \in {"entry", "loop"} :
               \/ Mode(Interview(d, o))' = Mode(Interview(d, o))
               \/ Mode(Interview(d, o))' = "over" /\ d = c
          /\ Mode(Synthesize(d)) # "absent" => Mode(Synthesize(d))' # "absent"
          /\ Mode(Synthesize(d))' = "over" => Mode(Synthesize(d)) = "over"
          /\ Mode(Synthesize(c))' # "absent"
      BY <2>1, <2>3, JobsAre DEF Added
    <3>3. c \in elicited
      BY <2>1, <3>1 DEF Designing
    <3> QED BY <1>1, <2>5, <3>1, <3>2, <3>3 DEF Designing
  <2>7. \A k \in Jobs : Mode(k)' # Mode(k) =>
          /\ Kind(k) \in {"interview", "synthesize", "inventory"}
          /\ Mode(k)' \in Modes(Kind(k)) \ {"absent"}
    BY <2>1, <2>3, JobsAre DEF Added, Modes, Common
  <2> QED BY <1>1, <2>3, <2>4, <2>6, <2>7, DesignStep
<1> QED BY <1>3, <1>4

\* The spec and the inventory are saved before their jobs are over.
LEMMA CourseSaves ==
  ASSUME Basis, Course, NEW w \in Workers, SaveSpec(w) \/ SaveInventory(w)
  PROVE  Course'
<1>1. /\ run[w].at # "idle" /\ Return(w, "succeeded")
      /\ UNCHANGED <<table, project, elicited, asked, open, gate, cli>>
  BY DEF SaveSpec, SaveInventory, At
<1>2. "start" \in Places \ {"idle"}
  BY DEF Places
<1>3. PICK kind \in {"synthesize", "inventory"} :
        At(w, kind, "start") /\ (kind = "synthesize" <=> SaveSpec(w))
  BY DEF SaveSpec, SaveInventory, At
<1>4. PICK j \in Jobs, c \in Cycles :
        j = doing[w] /\ c = Of(w) /\ Cycle(j) = c /\ Kind(j) = kind /\ Mode(j) = "start"
  BY <1>2, <1>3, AtPlace
<1>5. PICK r \in RunRecords : Goes(w, j, r) /\ r.at = "settle" /\ r.out = "succeeded"
  BY <1>1, <1>4, Returning, PlacesAre
<1>6. Agreed' /\ Moved(j, "over")
  BY <1>1, <1>5, StepModes DEF Course, Doing, Result
<1>7. Informed'
  BY <1>1, <1>5, InformedKeeps DEF Course
<1>8. /\ spec \subseteq spec' /\ inventory \subseteq inventory'
      /\ kind = "synthesize" => c \in spec'
      /\ kind = "inventory" => c \in inventory'
  BY <1>3, <1>4 DEF SaveSpec, SaveInventory
<1>9. ASSUME NEW d \in Cycles PROVE Designing(d)'
  <2>1. Designing(d)
    BY CourseAt
  <2>2. /\ \A o \in {"entry", "loop"} : Mode(Interview(d, o))' = Mode(Interview(d, o))
        /\ Mode(Synthesize(d))' # "absent" \/ Mode(Synthesize(d)) = "absent"
        /\ Mode(Synthesize(d))' = Mode(Synthesize(d)) \/ (kind = "synthesize" /\ d = c)
        /\ Mode(Inventory(d))' = Mode(Inventory(d)) \/ (kind = "inventory" /\ d = c)
    BY <1>4, <1>6, JobsAre DEF Moved
  <2> QED BY <1>1, <1>8, <2>1, <2>2 DEF Designing
<1>10. \A k \in Jobs : Mode(k)' # Mode(k) =>
         /\ Kind(k) \in {"interview", "synthesize", "inventory"}
         /\ Mode(k)' \in Modes(Kind(k)) \ {"absent"}
  BY <1>4, <1>6 DEF Moved, Modes, Common
<1> QED BY <1>1, <1>6, <1>7, <1>9, <1>10, DesignStep

\* A handler that asks parks, and its question is on record.
LEMMA CourseAsks ==
  ASSUME Basis, Course, NEW w \in Workers, Ask(w)
  PROVE  Course'
<1>1. /\ run[w].at = "start" /\ Return(w, "awaiting_human") /\ doing[w] # NoJob
      /\ Kind(doing[w]) \in {"interview", "collect", "choice"}
      /\ UNCHANGED <<table, project, elicited, spec, inventory, open, cli>>
  BY AtWork DEF Ask, Asks
<1>2. "start" \in Places \ {"idle"}
  BY DEF Places
<1>3. PICK kind \in {"interview", "collect", "choice"} : kind = Kind(doing[w])
  BY <1>1
<1>4. PICK j \in Jobs, c \in Cycles :
        j = doing[w] /\ c = Of(w) /\ Cycle(j) = c /\ Kind(j) = kind /\ Mode(j) = "start"
  BY <1>1, <1>2, <1>3, AtPlace DEF At
<1>5. PICK r \in RunRecords : Goes(w, j, r) /\ r.at = "settle" /\ r.out = "awaiting_human"
  BY <1>1, <1>4, Returning, PlacesAre
<1>6. Agreed' /\ Moved(j, "waiting")
  BY <1>1, <1>5, StepModes DEF Course, Doing, Result
<1>7. Informed'
  BY <1>1, <1>5, InformedKeeps DEF Course
<1>8. \A k \in Jobs : \/ Mode(k)' = Mode(k)
                      \/ Mode(k) \in Plain /\ Mode(k)' \in Plain \cap Modes(Kind(k))
  BY <1>4, <1>6 DEF Moved, Plain, Modes, Common
<1>9. \A k \in Jobs : Mode(k) \notin Plain => gate'[k] = gate[k]
  <2>1. gate' = [gate EXCEPT ![j] = "open"]
    BY <1>4 DEF Ask
  <2>2. \A k \in Jobs \ {j} : gate'[k] = gate[k]
    BY <2>1, Typed DEF Basis, LedgerTyped
  <2> QED BY <1>4, <2>2 DEF Plain
<1>10. \A d \in asked' \ asked : \E o \in {"entry", "loop"} : Mode(Interview(d, o)) # "absent"
  <2>1. asked' = asked \/ (asked' = asked \cup {c} /\ kind = "interview")
    BY <1>3, <1>4 DEF Ask
  <2>2. kind = "interview" => \E o \in {"entry", "loop"} : j = Interview(c, o)
    BY <1>4, JobIs
  <2> QED BY <1>4, <2>1, <2>2
<1> QED BY <1>1, <1>6, <1>7, <1>8, <1>9, <1>10, Quiet

-----------------------------------------------------------------------------
(* Course: the next cycle begins                                           *)

\* Behind a loop-back, the triage is of an earlier cycle.
LEMMA LoopedIs ==
  ASSUME Basis, Course, NEW w \in Workers, NEW place \in {"looped", "carried"},
         At(w, "triage", place)
  PROVE  \E j \in Jobs, c \in Cycles, d \in Cycles :
           /\ j = doing[w] /\ c = Of(w) /\ Cycle(j) = c /\ Kind(j) = "triage" /\ j = Triage(c)
           /\ d = c + 1 /\ c < cycle
           /\ Mode(j) = Doing(run[w]) /\ Mode(j) \in {"redesigning", "rebuilding"}
           /\ place = "looped" => (Mode(j) = "rebuilding" <=> Target(w) = "BUILD")
           /\ place = "carried" => Mode(j) = "rebuilding"
<1>1. place \in Places \ {"idle"}
  BY DEF Places
<1>2. PICK j \in Jobs, c \in Cycles :
        /\ j = doing[w] /\ c = Of(w) /\ Cycle(j) = c /\ Kind(j) = "triage" /\ j = Triage(c)
        /\ run[w].at = place /\ Mode(j) = Doing(run[w])
  BY <1>1, AtPlace, JobIs
<1>3. c < MaxCycle
  BY <1>2, AtWork DEF Placed, At, Places
<1>4. PICK d \in Cycles : d = c + 1
  BY <1>3 DEF Cycles
<1>5. /\ Mode(j) \in {"redesigning", "rebuilding"}
      /\ place = "looped" => (Mode(j) = "rebuilding" <=> Target(w) = "BUILD")
      /\ place = "carried" => Mode(j) = "rebuilding"
  BY <1>2 DEF Doing, Target
<1>6. c < cycle
  <2>1. ~(c > cycle)
    BY <1>2, <1>5 DEF Course, Elsewhere, Line
  <2>2. c # cycle
    BY <1>2, <1>5, CourseAt DEF InOrder
  <2>3. c \in Nat /\ cycle \in Nat
    BY Typed DEF Basis, RowTyped, Cycles
  <2> QED BY <2>1, <2>2, <2>3
<1> QED BY <1>2, <1>4, <1>5, <1>6

\* The first job of a cycle is inserted where nothing of it was.
LEMMA BeginsBuild ==
  ASSUME Basis, Course, NEW d \in Cycles, d = cycle, phase = "BUILD", Untouched(d),
         NEW n \in {Decompose(d), Plan(d)}, UNCHANGED <<project, stores, open, gate>>,
         Agreed', Informed', Mode(n)' = "waiting",
         \A k \in Jobs \ {n} :
           \/ Mode(k)' = Mode(k)
           \/ Kind(k) = "triage" /\ Mode(k) = "rebuilding" /\ Mode(k)' = "over",
         \A e \in Cycles : ~Commanded(e)' /\ Mode(Triage(e))' # "rebuilding"
  PROVE  Course'
<1>1. n \in Jobs /\ Kind(n) \in {"decompose", "plan"} /\ Cycle(n) = d
  BY JobsAre
<1>2. \A k \in Jobs : Mode(k)' \in Modes(Kind(k))
  BY <1>1 DEF Course, Modes, Common
<1>3. Elsewhere'
  <2>1. d \in Nat /\ \A k \in Jobs : Cycle(k) \in Nat
    BY JobIs DEF Cycles
  <2> SUFFICES ASSUME NEW k \in Jobs
               PROVE  /\ Kind(k) \in Line \cup {"deploy"} /\ Cycle(k) > d => Mode(k)' = "absent"
                      /\ Kind(k) \in Line /\ Cycle(k) < d =>
                           \/ Mode(k)' \in {"absent", "over"}
                           \/ Kind(k) = "triage" /\ Mode(k)' \in {"redesigning", "rebuilding"}
    BY DEF Elsewhere
  <2>2. CASE k = n
    BY <1>1, <2>1, <2>2
  <2>3. CASE k # n /\ Mode(k)' = Mode(k)
    BY <2>3 DEF Course, Elsewhere
  <2>4. CASE Kind(k) = "triage" /\ Mode(k) = "rebuilding" /\ Mode(k)' = "over"
    BY <2>4 DEF Course, Elsewhere, Line
  <2> QED BY <2>2, <2>3, <2>4
<1>4. ~Untouched(d)'
  BY DEF Untouched
<1>5. ASSUME NEW e \in Cycles PROVE Pending(e)'
  BY <1>4, <1>5 DEF Pending
<1>6. ASSUME NEW e \in Cycles PROVE Designing(e)'
  <2>1. /\ \A o \in {"entry", "loop"} : Mode(Interview(e, o))' = Mode(Interview(e, o))
        /\ Mode(Synthesize(e))' = Mode(Synthesize(e)) /\ Mode(Inventory(e))' = Mode(Inventory(e))
    BY <1>1, JobsAre
  <2>2. Designing(e)
    BY CourseAt
  <2> QED BY <2>1, <2>2 DEF Designing
<1>7. InOrder(d) /\ InPhase(d)
  BY CourseAt
<1>8. /\ Mode(Integrate(d))' = Mode(Integrate(d)) /\ Mode(Demo(d))' = Mode(Demo(d))
      /\ Mode(Collect(d))' = Mode(Collect(d)) /\ Mode(Choice(d))' = Mode(Choice(d))
      /\ Mode(Deploy(d))' = Mode(Deploy(d))
      /\ Mode(Decompose(d))' = Mode(Decompose(d)) \/ n = Decompose(d)
      /\ Mode(Plan(d))' = Mode(Plan(d)) \/ n = Plan(d)
  BY <1>1, JobsAre
<1>9. Mode(Triage(d))' = Mode(Triage(d))
  BY <1>1, <1>7, JobsAre DEF InOrder
<1>10. InOrder(d)'
  BY <1>1, <1>7, <1>8, <1>9, JobsAre DEF InOrder, Untouched
<1>11. InPhase(d)'
  BY <1>7, <1>8, <1>9 DEF InPhase
<1> QED BY <1>2, <1>3, <1>5, <1>6, <1>10, <1>11 DEF Course

\* The fast loop-back carries the spec, then begins to build.
LEMMA CourseRebuilds ==
  ASSUME Basis, Course, NEW w \in Workers, CarrySpec(w) \/ Rebuild(w)
  PROVE  Course'
<1>1. CASE CarrySpec(w)
  <2>1. /\ At(w, "triage", "looped") /\ run[w].at # "idle" /\ Target(w) = "BUILD"
        /\ Goto(w, "carried") /\ spec \subseteq spec'
        /\ UNCHANGED <<table, project, elicited, asked, inventory, open, gate, cli>>
    BY <1>1 DEF CarrySpec, At
  <2>2. PICK j \in Jobs : j = doing[w] /\ Mode(j) = "rebuilding"
    BY <2>1, LoopedIs
  <2>3. PICK r \in RunRecords : Goes(w, j, r) /\ r.at = "carried"
    BY <2>1, <2>2, Going, PlacesAre
  <2>4. Agreed' /\ Moved(j, "rebuilding")
    BY <2>1, <2>3, StepModes DEF Course, Doing
  <2>5. Informed'
    BY <2>1, <2>3, InformedKeeps DEF Course
  <2>6. \A k \in Jobs : Mode(k)' = Mode(k)
    BY <2>2, <2>4 DEF Moved
  <2> QED BY <2>1, <2>4, <2>5, <2>6, Quiet
<1>2. CASE Rebuild(w)
  <2>1. /\ At(w, "triage", "carried") /\ run[w].at # "idle" /\ Return(w, "succeeded")
        /\ Enqueue(Plan(Of(w) + 1)) /\ UNCHANGED <<project, stores, open, gate, cli>>
    BY <1>2 DEF Rebuild, At
  <2>2. PICK j \in Jobs, c \in Cycles, d \in Cycles :
          /\ j = doing[w] /\ c = Of(w) /\ Kind(j) = "triage" /\ j = Triage(c)
          /\ d = c + 1 /\ Mode(j) = "rebuilding"
    BY <2>1, LoopedIs
  <2>3. d = cycle /\ phase = "BUILD" /\ Untouched(d) /\ ~Commanded(d)
    BY <2>2, CourseAt DEF Pending
  <2>4. PICK r \in RunRecords : Goes(w, j, r) /\ r.at = "settle" /\ r.out = "succeeded"
    <3>1. run[w].at # "idle" /\ Return(w, "succeeded") /\ "succeeded" \in Outcomes
      BY <2>1, PlacesAre
    <3>2. PICK i \in Jobs, r \in RunRecords :
            Goes(w, i, r) /\ i = doing[w] /\ r.at = "settle" /\ r.out = "succeeded"
      BY <3>1, Returning
    <3>3. i = j
      BY <2>2, <3>2
    <3> QED BY <3>2, <3>3
  <2>5. Agreed' /\ Added(j, "over", Plan(d))
    <3>1. Plan(d) \in Jobs /\ Plan(d) # j /\ Enqueue(Plan(d))
      BY <2>1, <2>2, JobsAre
    <3> QED BY <2>4, <3>1, AddModes DEF Course, Doing, Result
  <2>6. Informed'
    BY <2>1, <2>4, InformedKeeps DEF Course
  <2>7. ASSUME NEW e \in Cycles PROVE ~Commanded(e)' /\ Mode(Triage(e))' # "rebuilding"
    <3>1. ~Commanded(e)
      BY <2>3, CourseAt DEF Pending
    <3>2. Mode(Triage(e)) = "rebuilding" => e = c
      BY <2>2, <2>3, CourseAt DEF Pending, Cycles
    <3>3. e # c => Mode(Triage(e))' = Mode(Triage(e))
      BY <2>2, <2>5, JobsAre DEF Added
    <3>4. Mode(Triage(c))' = "over"
      BY <2>2, <2>5 DEF Added
    <3> QED BY <2>1, <3>1, <3>2, <3>3, <3>4 DEF Commanded
  <2>8. Mode(Plan(d))' = "waiting"
    BY <2>3, <2>5 DEF Added, Untouched
  <2>9. \A k \in Jobs \ {Plan(d)} :
          \/ Mode(k)' = Mode(k)
          \/ Kind(k) = "triage" /\ Mode(k) = "rebuilding" /\ Mode(k)' = "over"
    BY <2>2, <2>5 DEF Added
  <2> QED BY <2>1, <2>3, <2>5, <2>6, <2>7, <2>8, <2>9, BeginsBuild
<1> QED BY <1>1, <1>2

\* The slow loop-back inserts the interview of the cycle it has begun.
LEMMA CourseRedesigns ==
  ASSUME Basis, Course, NEW w \in Workers, Redesign(w)
  PROVE  Course'
<1>1. /\ At(w, "triage", "looped") /\ run[w].at # "idle" /\ Target(w) = "DESIGN"
      /\ Return(w, "succeeded") /\ Enqueue(Interview(Of(w) + 1, "loop"))
      /\ UNCHANGED <<project, stores, open, gate, cli>>
  BY DEF Redesign, At
<1>2. PICK j \in Jobs, c \in Cycles, d \in Cycles :
        /\ j = doing[w] /\ c = Of(w) /\ Cycle(j) = c /\ Kind(j) = "triage" /\ j = Triage(c)
        /\ d = c + 1 /\ c < cycle /\ Mode(j) = "redesigning"
  BY <1>1, LoopedIs
<1> DEFINE n == Interview(d, "loop")
<1>3. n \in Jobs /\ Kind(n) = "interview" /\ n # j /\ Enqueue(n)
  BY <1>1, <1>2, JobsAre
<1> HIDE DEF n
<1>4. PICK r \in RunRecords : Goes(w, j, r) /\ r.at = "settle" /\ r.out = "succeeded"
  <2>1. run[w].at # "idle" /\ Return(w, "succeeded") /\ "succeeded" \in Outcomes
    BY <1>1, PlacesAre
  <2>2. PICK i \in Jobs, r \in RunRecords :
          Goes(w, i, r) /\ i = doing[w] /\ r.at = "settle" /\ r.out = "succeeded"
    BY <2>1, Returning
  <2>3. i = j
    BY <1>2, <2>2
  <2> QED BY <2>2, <2>3
<1>5. Agreed' /\ Added(j, "over", n)
  BY <1>3, <1>4, AddModes DEF Course, Doing, Result
<1>6. Informed'
  BY <1>1, <1>4, InformedKeeps DEF Course
<1>7. \A k \in Jobs : Mode(k)' \in Modes(Kind(k))
  BY <1>2, <1>3, <1>5 DEF Course, Added, Modes, Common
<1>8. Elsewhere'
  <2>1. c \in Nat /\ cycle \in Nat
    BY Typed DEF Basis, RowTyped, Cycles
  <2> SUFFICES ASSUME NEW k \in Jobs
               PROVE  /\ Kind(k) \in Line \cup {"deploy"} /\ Cycle(k) > cycle => Mode(k)' = "absent"
                      /\ Kind(k) \in Line /\ Cycle(k) < cycle =>
                           \/ Mode(k)' \in {"absent", "over"}
                           \/ Kind(k) = "triage" /\ Mode(k)' \in {"redesigning", "rebuilding"}
    BY <1>1 DEF Elsewhere
  <2>2. CASE k = j
    BY <1>2, <1>5, <2>1, <2>2 DEF Added
  <2>3. CASE k = n
    BY <1>3, <2>3 DEF Line
  <2>4. CASE k \notin {j, n}
    BY <1>5, <2>4 DEF Added, Course, Elsewhere
  <2> QED BY <2>2, <2>3, <2>4
<1>9. ASSUME NEW e \in Cycles
      PROVE  /\ Mode(Decompose(e))' = Mode(Decompose(e)) /\ Mode(Plan(e))' = Mode(Plan(e))
             /\ Mode(Integrate(e))' = Mode(Integrate(e)) /\ Mode(Demo(e))' = Mode(Demo(e))
             /\ Mode(Collect(e))' = Mode(Collect(e)) /\ Mode(Choice(e))' = Mode(Choice(e))
             /\ Mode(Deploy(e))' = Mode(Deploy(e)) /\ Mode(Inventory(e))' = Mode(Inventory(e))
             /\ Mode(Synthesize(e))' = Mode(Synthesize(e))
             /\ e # c => Mode(Triage(e))' = Mode(Triage(e))
  BY <1>2, <1>3, <1>5, JobsAre DEF Added
<1>10. Mode(Triage(c))' = "over"
  BY <1>2, <1>5 DEF Added
<1>11. ASSUME NEW e \in Cycles PROVE Untouched(e)' = Untouched(e) /\ Commanded(e)' = Commanded(e)
  BY <1>1, <1>9 DEF Untouched, Commanded
<1>12. ASSUME NEW e \in Cycles
       PROVE  Mode(Triage(e))' = "rebuilding" <=> Mode(Triage(e)) = "rebuilding"
  BY <1>2, <1>9, <1>10
<1>13. ASSUME NEW e \in Cycles PROVE Pending(e)'
  <2>1. Pending(e) /\ (e > 1 => e - 1 \in Cycles)
    BY CourseAt DEF Cycles
  <2>2. Mode(Triage(e)) = "rebuilding" => e + 1 \in Cycles
    BY <2>1, Typed DEF Pending, Basis, RowTyped
  <2> QED BY <1>1, <1>9, <1>11, <1>12, <2>1, <2>2 DEF Pending
<1>14. ASSUME NEW e \in Cycles PROVE Designing(e)'
  <2>1. Designing(e)
    BY CourseAt
  <2>2. \A o \in {"entry", "loop"} :
          \/ Mode(Interview(e, o))' = Mode(Interview(e, o))
          \/ Mode(Interview(e, o)) = "absent" /\ Mode(Interview(e, o))' = "waiting"
    BY <1>2, <1>5, JobsAre DEF Added
  <2> QED BY <1>1, <1>9, <2>1, <2>2 DEF Designing
<1>15. ASSUME NEW e \in Cycles, e = cycle' PROVE InOrder(e)' /\ InPhase(e)'
  <2>1. InOrder(e) /\ InPhase(e) /\ e # c
    BY <1>1, <1>2, <1>15, CourseAt, Typed DEF Basis, RowTyped, Cycles
  <2> QED BY <1>1, <1>9, <1>11, <2>1 DEF InOrder, InPhase
<1> QED BY <1>5, <1>6, <1>7, <1>8, <1>13, <1>14, <1>15 DEF Course

-----------------------------------------------------------------------------
(* Course: the command line                                                *)

\* A command inserts a job that is not there yet.
LEMMA InsertModes ==
  ASSUME Basis, Agreed, NEW n \in Jobs, Enqueue(n), UNCHANGED run
  PROVE  /\ Agreed'
         /\ Mode(n)' = IF Mode(n) = "absent" THEN "waiting" ELSE Mode(n)
         /\ \A k \in Jobs \ {n} : Mode(k)' = Mode(k)
<1>1. CASE Table!Offer(n)
  <2>1. /\ st[n] = "absent" /\ st'[n] = "ready" /\ UNCHANGED <<holder, doing>>
        /\ \A k \in Jobs \ {n} : st'[k] = st[k]
    BY <1>1, Typed DEF Table!Offer, Basis, TableTyped
  <2>2. Mode(n) = "absent" /\ Mode(n)' = "waiting"
    BY <2>1, AbsentIs DEF Mode, Result
  <2>3. \A k \in Jobs \ {n} : Mode(k)' = Mode(k)
    BY <2>1 DEF Mode, Doing, Result
  <2>4. Agreed'
    BY <2>1 DEF Agreed
  <2> QED BY <2>2, <2>3, <2>4
<1>2. CASE st[n] # "absent" /\ UNCHANGED table
  <2>1. Mode(n) # "absent"
    BY <1>2, AbsentIs
  <2>2. \A k \in Jobs : Mode(k)' = Mode(k)
    BY <1>2 DEF Mode, Doing, Result
  <2>3. Agreed'
    BY <1>2 DEF Agreed
  <2> QED BY <2>1, <2>2, <2>3
<1> QED BY <1>1, <1>2 DEF Enqueue

\* A command that leaves the jobs alone has to show what is pending, and the phase.
LEMMA CommandStep ==
  ASSUME Basis, Course, UNCHANGED <<table, cycle, stores, open, gate, run>>,
         \A c \in Cycles : Pending(c)',
         \A c \in Cycles : c = cycle => InPhase(c)'
  PROVE  Course'
<1>1. \A k \in Jobs : Mode(k)' = Mode(k)
  BY DEF Mode, Doing, Result
<1>2. Agreed' /\ Informed'
  BY DEF Course, Agreed, Informed
<1>3. Elsewhere' /\ \A k \in Jobs : Mode(k)' \in Modes(Kind(k))
  BY <1>1 DEF Course, Elsewhere
<1>4. ASSUME NEW c \in Cycles PROVE Designing(c)'
  <2>1. Designing(c)
    BY CourseAt
  <2> QED BY <1>1, <2>1, JobsAre DEF Designing
<1>5. ASSUME NEW c \in Cycles, c = cycle' PROVE InOrder(c)'
  <2>1. InOrder(c)
    BY <1>5, CourseAt
  <2> QED BY <1>1, <2>1, JobsAre DEF InOrder
<1> QED BY <1>2, <1>3, <1>4, <1>5 DEF Course

\* The kickoff, an acceptance and its move.
LEMMA CourseDecides ==
  ASSUME Basis, Course, Kickoff \/ Accept \/ CommandMove
  PROVE  Course'
<1>1. UNCHANGED <<table, cycle, stores, open, gate, run>>
  BY DEF Kickoff, Accept, AcceptDesign, SettleVisual, CommandMove
<1>2. PICK c \in Cycles : c = cycle
  BY Typed DEF Basis, RowTyped
<1>3. InOrder(c) /\ InPhase(c) /\ \A e \in Cycles : Pending(e)
  BY <1>2, CourseAt
<1>4. \A k \in Jobs : Mode(k)' = Mode(k)
  BY <1>1 DEF Mode, Doing, Result
<1>5. phase \in {"INTAKE", "DESIGN", "VISUAL_DESIGN"}
  BY DEF Kickoff, Accept, AcceptDesign, SettleVisual, CommandMove, Transition, Basis, Commanding
<1>6. Untouched(c) /\ Mode(Integrate(c)) = "absent" /\ Untouched(c)'
      /\ Mode(Integrate(c))' = "absent"
  BY <1>3, <1>4, <1>5, JobsAre DEF InPhase, InOrder, Untouched
<1>7. \A e \in Cycles : Mode(Triage(e))' # "rebuilding"
  BY <1>3, <1>4, <1>5, JobsAre DEF Pending
<1>8. \/ /\ phase' \in {"DESIGN", "VISUAL_DESIGN"} /\ \A e \in Cycles : ~Commanded(e)'
         /\ phase' = "VISUAL_DESIGN" =>
              Mode(Inventory(c))' # "absent" \/ (cli'.at = "insert" /\ cli'.job = Inventory(c))
      \/ phase' = "BUILD" /\ Commanded(c)' /\ \A e \in Cycles : Commanded(e)' => e = c
  <2>1. CASE Kickoff
    <3>1. /\ phase' = "DESIGN"
          /\ cli' = [at |-> "insert", from |-> "INTAKE", to |-> "DESIGN",
                     job |-> Interview(c, "entry")]
      BY <1>2, <2>1 DEF Kickoff, Busy, Transition
    <3>2. \A e \in Cycles : Interview(c, "entry") # Decompose(e)
      BY JobsAre
    <3> QED BY <3>1, <3>2 DEF Commanded
  <2>2. CASE Accept
    <3>1. /\ phase \in {"DESIGN", "VISUAL_DESIGN"} /\ UNCHANGED phase /\ cli.at = "idle"
          /\ cli'.at = "checked"
      BY <2>2 DEF Accept, AcceptDesign, SettleVisual, Busy
    <3>2. phase = "VISUAL_DESIGN" => Mode(Inventory(c)) # "absent"
      BY <1>2, <1>3, <3>1 DEF Pending
    <3> QED BY <1>4, <3>1, <3>2, JobsAre DEF Commanded
  <2>3. CASE CommandMove
    <3>1. /\ phase' = cli.to /\ cli.to \in {"BUILD", "VISUAL_DESIGN"}
          /\ cli' = [at |-> "insert", from |-> cli.from, to |-> cli.to,
                     job |-> IF cli.to = "BUILD" THEN Decompose(c) ELSE Inventory(c)]
      BY <1>2, <2>3 DEF CommandMove, Busy, Transition, Basis, Commanding
    <3>2. \A e \in Cycles : Inventory(c) # Decompose(e) /\ (Decompose(e) = Decompose(c) => e = c)
      BY JobsAre
    <3> QED BY <3>1, <3>2 DEF Commanded
  <2> QED BY <2>1, <2>2, <2>3
<1>9. ASSUME NEW e \in Cycles PROVE Pending(e)'
  <2>1. cycle' = c
    BY <1>1, <1>2
  <2> QED BY <1>6, <1>7, <1>8, <2>1 DEF Pending
<1>10. InPhase(c)'
  BY <1>6, <1>8 DEF InPhase
<1> QED BY <1>1, <1>2, <1>9, <1>10, CommandStep

\* A command inserts the first job of a design, of a visual design or of BUILD.
LEMMA CourseInserts ==
  ASSUME Basis, Course, CommandInsert
  PROVE  Course'
<1>1. /\ cli.at = "insert" /\ Enqueue(cli.job) /\ cli' = NoCommand
      /\ UNCHANGED <<project, stores, open, gate, run>>
  BY DEF CommandInsert
<1>2. PICK n \in Jobs : n = cli.job /\ Kind(n) \in {"interview", "inventory", "decompose"}
  BY <1>1 DEF Basis, Commanding
<1>3. /\ Agreed' /\ Mode(n)' = IF Mode(n) = "absent" THEN "waiting" ELSE Mode(n)
      /\ \A k \in Jobs \ {n} : Mode(k)' = Mode(k)
  <2>1. Enqueue(n) /\ UNCHANGED run /\ Agreed
    BY <1>1, <1>2 DEF Course
  <2> QED BY <2>1, InsertModes
<1>4. Informed'
  BY <1>1 DEF Course, Informed
<1>5. \A e \in Cycles : ~Commanded(e)'
  BY <1>1 DEF Commanded, NoCommand
<1>6. CASE Kind(n) = "decompose"
  <2>1. PICK d \in Cycles : n = Decompose(d)
    BY <1>2, <1>6, JobIs
  <2>2. d = cycle /\ phase = "BUILD" /\ Untouched(d) /\ Commanded(d)
    BY <1>1, <1>2, <2>1, CourseAt DEF Pending, Commanded
  <2>3. Mode(n)' = "waiting"
    BY <1>3, <2>1, <2>2 DEF Untouched
  <2>4. \A e \in Cycles : Mode(Triage(e))' # "rebuilding"
    <3> TAKE e \in Cycles
    <3>1. Mode(Triage(e)) # "rebuilding"
      BY <2>2, CourseAt DEF Pending
    <3>2. Mode(Triage(e))' = Mode(Triage(e))
      BY <1>3, <2>1, JobsAre
    <3> QED BY <3>1, <3>2
  <2> QED BY <1>1, <1>3, <1>4, <1>5, <2>1, <2>2, <2>3, <2>4, BeginsBuild
<1>7. CASE Kind(n) \in {"interview", "inventory"}
  <2>1. InsertsDesign
    <3>1. \A e \in Cycles : ~Commanded(e)
      BY <1>2, <1>7, JobsAre DEF Commanded
    <3>2. Mode(n)' # "absent"
      BY <1>3
    <3> QED BY <1>1, <1>2, <3>1, <3>2 DEF InsertsDesign
  <2>2. ASSUME NEW k \in Jobs, Mode(k)' # Mode(k)
        PROVE  /\ Kind(k) \in {"interview", "synthesize", "inventory"}
               /\ Mode(k)' \in Modes(Kind(k)) \ {"absent"}
    <3>1. k = n /\ Mode(k)' = "waiting"
      BY <1>3, <2>2
    <3> QED BY <1>7, <3>1 DEF Modes, Common
  <2>3. ASSUME NEW e \in Cycles PROVE Designing(e)'
    <3>1. Designing(e)
      BY CourseAt
    <3>2. /\ \A o \in {"entry", "loop"} :
               \/ Mode(Interview(e, o))' = Mode(Interview(e, o))
               \/ Mode(Interview(e, o))' = "waiting"
          /\ Mode(Synthesize(e))' = Mode(Synthesize(e))
          /\ Mode(Inventory(e))' = Mode(Inventory(e)) \/ Mode(Inventory(e))' = "waiting"
      BY <1>3, <1>7, JobsAre
    <3> QED BY <1>1, <3>1, <3>2 DEF Designing
  <2> QED BY <1>1, <1>3, <1>4, <2>1, <2>2, <2>3, DesignStep
<1> QED BY <1>2, <1>6, <1>7

\* No step breaks the course as long as nothing goes wrong.
LEMMA CourseNext ==
  ASSUME Basis, Course, [Next]_vars, faults' = 0
  PROVE  Course'
<1>1. faults \in Nat
  <2>1. faults \in 0 .. MaxFaults
    BY Typed DEF Basis
  <2> QED BY <2>1
<1>2. CASE UNCHANGED vars
  <2>1. UNCHANGED <<st, holder, doing, phase, cycle, elicited, asked, spec, inventory, open, gate,
                    cli, run, faults>>
    BY <1>2 DEF vars
  <2>2. \A k \in Jobs : Mode(k)' = Mode(k)
    BY <2>1 DEF Mode, Doing, Result
  <2>3. Agreed' /\ Informed'
    BY <2>1 DEF Course, Agreed, Informed
  <2> QED BY <2>1, <2>2, <2>3, Quiet
<1>3. CASE Kickoff \/ Accept \/ Command
  BY <1>3, CourseDecides, CourseInserts DEF Command
<1>4. ~CommandCrash
  BY <1>1 DEF CommandCrash, May
<1>5. ASSUME NEW w \in Workers, Handle(w) PROVE Course'
  BY <1>5, NobodyMisses, CourseAsks, CourseRows, CourseElicits, CourseSaves, CourseReturns,
     CourseMoves, CourseScans, CourseReads, CourseLoops, CourseRebuilds, CourseRedesigns DEF Handle
<1>6. Agreed
  BY DEF Course
<1>7. \A w \in Workers : ~Raise(w) /\ ~Crash(w)
  BY <1>6, RowModes
<1>8. \A j \in Jobs : ~Reap(j) /\ ~LoseLease(j)
  BY <1>6, RowModes
<1> QED BY <1>2, <1>3, <1>4, <1>5, <1>7, <1>8, CourseRows DEF Next

-----------------------------------------------------------------------------
(* The invariant                                                           *)

\* A new project.
LEMMA BasisInit ==
  ASSUME Init
  PROVE  Basis
<1>1. /\ st = [j \in Jobs |-> "absent"] /\ holder = [j \in Jobs |-> NoWorker]
      /\ doing = [w \in Workers |-> NoJob]
      /\ gate = [j \in Jobs |-> "none"] /\ run = [w \in Workers |-> Idle] /\ cli = NoCommand
      /\ phase = "INTAKE" /\ cycle = 1 /\ open = {} /\ faults = 0
      /\ elicited = {} /\ asked = {} /\ spec = {} /\ inventory = {}
  BY DEF Init, Table!Init
<1>2. Idle \in RunRecords /\ Idle.at = "idle" /\ NoCommand \in Commands /\ NoCommand.at = "idle"
  BY DEF Idle, NoCommand, RunRecords, Commands, Places, Outcomes, Machine!Phases, Machine!Edges
<1>3. "INTAKE" \in Machine!Phases /\ 1 \in Cycles /\ 0 \in 0 .. MaxFaults
  BY DEF Machine!Phases, Machine!Edges, Cycles
<1>4. TypeOK
  <2>1. TableTyped
    BY <1>1 DEF TableTyped, RowStates
  <2>2. LedgerTyped /\ RowTyped /\ run \in [Workers -> RunRecords]
    BY <1>1, <1>2, <1>3 DEF LedgerTyped, RowTyped, Gates
  <2>3. \A w \in Workers : run[w].at = "idle" <=> doing[w] = NoJob
    BY <1>1, <1>2
  <2>4. \A j \in Jobs : st[j] = "awaiting_human" => gate[j] # "none"
    BY <1>1
  <2>5. cli \in Commands /\ faults \in 0 .. MaxFaults
    BY <1>1, <1>2, <1>3
  <2> QED BY <2>1, <2>2, <2>3, <2>4, <2>5, Typed
<1>5. Tabled /\ WorkHasSpec /\ \A w \in Workers : doing[w] = NoJob
  BY <1>1 DEF Tabled, WorkHasSpec
<1>6. Commanding
  BY <1>1, <1>2 DEF Commanding
<1> QED BY <1>4, <1>5, <1>6 DEF Basis

\* No job of a new project has a mode.
LEMMA CourseInit ==
  ASSUME Init
  PROVE  Course
<1>1. /\ st = [j \in Jobs |-> "absent"] /\ doing = [w \in Workers |-> NoJob]
      /\ run = [w \in Workers |-> Idle] /\ cli.at = "idle"
      /\ phase = "INTAKE" /\ cycle = 1 /\ open = {} /\ asked = {}
  BY DEF Init, Table!Init, NoCommand
<1>2. \A j \in Jobs : Mode(j) = "absent"
  BY <1>1 DEF Mode, Result
<1>3. Agreed
  BY <1>1 DEF Agreed
<1>4. Informed
  BY <1>1 DEF Informed, Idle
<1>5. \A j \in Jobs : Mode(j) \in Modes(Kind(j))
  BY <1>2 DEF Modes, Common
<1>6. Elsewhere
  BY <1>2 DEF Elsewhere
<1>7. ASSUME NEW c \in Cycles PROVE Pending(c) /\ Designing(c) /\ InOrder(c) /\ InPhase(c)
  <2>1. /\ \A o \in {"entry", "loop"} : Mode(Interview(c, o)) = "absent"
        /\ Mode(Synthesize(c)) = "absent" /\ Mode(Inventory(c)) = "absent"
        /\ Mode(Decompose(c)) = "absent" /\ Mode(Plan(c)) = "absent"
        /\ Mode(Integrate(c)) = "absent" /\ Mode(Demo(c)) = "absent"
        /\ Mode(Collect(c)) = "absent" /\ Mode(Triage(c)) = "absent"
        /\ Mode(Choice(c)) = "absent"
    BY <1>2, JobsAre
  <2>2. Pending(c)
    BY <1>1, <2>1 DEF Pending, Commanded
  <2>3. Designing(c)
    BY <1>1, <2>1 DEF Designing
  <2>4. InOrder(c) /\ InPhase(c)
    BY <1>1, <2>1 DEF InOrder, InPhase, Untouched
  <2> QED BY <2>2, <2>3, <2>4
<1> QED BY <1>3, <1>4, <1>5, <1>6, <1>7 DEF Course

\* The number of faults never falls.
LEMMA FaultsAdd ==
  ASSUME Basis, [Next]_vars
  PROVE  faults \in Nat /\ (faults' = faults \/ faults' = faults + 1)
<1>1. faults \in 0 .. MaxFaults
  BY Typed DEF Basis
<1>2. ASSUME NEW w \in Workers, Handle(w) PROVE faults' = faults
  BY <1>2 DEF Handle, Ask, Settle, Elicited, EnqueueSynthesize, SaveSpec, SaveInventory, FanOut,
     EnterReview, EnqueueDemo, ReadStale, Scan, EnqueueCollect, Supersede, RaiseAutomated,
     StopReview, TakeVerdict, EnqueueTriage, ReadFindings, EnqueueChoice, LoopBack, Misses,
     Redesign, CarrySpec, Rebuild, Decline, OptIn, EnqueueDeploy
<1>3. Kickoff \/ Accept \/ Command \/ UNCHANGED vars => faults' = faults
  BY DEF vars, Kickoff, Accept, AcceptDesign, SettleVisual, Command, CommandMove, CommandInsert
<1>4. ASSUME NEW w \in Workers, Raise(w) \/ Crash(w) PROVE faults' = faults + 1
  BY <1>4 DEF Raise, Crash, May
<1>5. ASSUME NEW j \in Jobs, Answer(j) \/ Reap(j) \/ LoseLease(j) \/ \E w \in Workers : Claim(w, j)
      PROVE  faults' = faults \/ faults' = faults + 1
  BY <1>5 DEF Answer, Reap, LoseLease, Claim, May
<1>6. CommandCrash => faults' = faults + 1
  BY DEF CommandCrash, May
<1> QED BY <1>1, <1>2, <1>3, <1>4, <1>5, <1>6 DEF Next

\* The invariant, whatever goes wrong and as long as nothing does.
THEOREM Invariance == Spec => []IInv
<1>1. Init => IInv
  BY BasisInit, CourseInit DEF IInv
<1>2. IInv /\ [Next]_vars => IInv'
  <2> SUFFICES ASSUME IInv, [Next]_vars PROVE IInv'
    OBVIOUS
  <2>1. Basis /\ (faults = 0 => Course)
    BY DEF IInv
  <2>2. Basis'
    BY <2>1, BasisNext
  <2>3. ASSUME faults' = 0 PROVE Course'
    <3>1. faults = 0
      BY <2>1, <2>3, FaultsAdd
    <3> QED BY <2>1, <2>3, <3>1, CourseNext
  <2> QED BY <2>2, <2>3 DEF IInv
<1> QED BY <1>1, <1>2, PTL DEF Spec

-----------------------------------------------------------------------------
(* What follows                                                            *)

\* Every variable keeps its type, and whoever waits for a human has asked, in any
\* run with any number of workers, cycles and faults.
THEOREM TypeCorrect == Spec => []TypeOK
<1>1. IInv => TypeOK
  BY DEF IInv, Basis
<1> QED BY <1>1, Invariance, PTL

\* Whatever crashes, is run twice or loses its lease, no job from decomposition to
\* triage is in the table before the spec of its own cycle is in the store.
THEOREM WorkIsSpecified == Spec => []WorkHasSpec
<1>1. IInv => WorkHasSpec
  BY DEF IInv, Basis
<1> QED BY <1>1, Invariance, PTL

\* A project on its course is past its review only when no finding is open.
LEMMA CleanOnCourse ==
  ASSUME Basis, Course, phase \in {"DONE", "DEPLOY"}
  PROVE  open = {}
<1>1. PICK c \in Cycles : c = cycle
  BY Typed DEF Basis, RowTyped
<1>2. InOrder(c) /\ InPhase(c)
  BY <1>1, CourseAt
<1> QED BY <1>2 DEF InOrder, InPhase

\* As long as every job runs once, a project reaches DONE or DEPLOY with no finding open.
THEOREM DoneClean == Spec => []DoneIsClean
<1>1. IInv => DoneIsClean
  <2> SUFFICES ASSUME IInv, phase \in {"DONE", "DEPLOY"}, ~(faults > 0) PROVE open = {}
    BY DEF DoneIsClean
  <2>1. Basis /\ faults \in 0 .. MaxFaults
    BY Typed DEF IInv, Basis
  <2>2. faults = 0
    BY <2>1
  <2> QED BY <2>1, <2>2, CleanOnCourse DEF IInv
<1> QED BY <1>1, Invariance, PTL

\* While no job is open, no worker at work and no command under way, each job is
\* absent or over.
LEMMA StillModes ==
  ASSUME Basis, Course, \A j \in Jobs : ~Unsettled(j), NEW j \in Jobs
  PROVE  Mode(j) \in {"absent", "over"} /\ (Kind(j) = "deploy" => Mode(j) = "absent")
<1>1. st[j] \in {"absent", "succeeded", "failed"}
  BY Typed DEF Basis, TableTyped, RowStates, Outcomes, Unsettled
<1>2. Mode(j) \in {"absent", "over", "failed"}
  BY <1>1 DEF Mode, Result
<1>3. Mode(j) \in Modes(Kind(j))
  BY DEF Course
<1>4. Kind(j) \in Single \cup {"interview"}
  BY JobIs
<1> QED BY <1>2, <1>3, <1>4 DEF Modes, Common, Single

\* A project on its course always has somebody to carry it on.
LEMMA OnCourse ==
  ASSUME Basis, Course
  PROVE  NotStranded
<1> SUFFICES ASSUME phase # "DONE", \A j \in Jobs : ~Unsettled(j), cli.at = "idle",
                    ~CommandDue, ~ReviewStopped
             PROVE  FALSE
  BY DEF NotStranded
<1>1. PICK c \in Cycles : c = cycle
  BY Typed DEF Basis, RowTyped
<1>2. /\ InOrder(c) /\ InPhase(c) /\ Pending(c) /\ Designing(c) /\ ~Commanded(c)
      /\ \A e \in Cycles : Mode(Triage(e)) # "rebuilding"
  BY <1>1, CourseAt, StillModes, JobsAre DEF Commanded
<1>3. /\ Mode(Synthesize(c)) \in {"absent", "over"} /\ Mode(Inventory(c)) \in {"absent", "over"}
      /\ Mode(Decompose(c)) \in {"absent", "over"} /\ Mode(Plan(c)) \in {"absent", "over"}
      /\ Mode(Integrate(c)) \in {"absent", "over"} /\ Mode(Demo(c)) \in {"absent", "over"}
      /\ Mode(Collect(c)) \in {"absent", "over"} /\ Mode(Triage(c)) \in {"absent", "over"}
      /\ Mode(Choice(c)) \in {"absent", "over"} /\ Mode(Deploy(c)) = "absent"
  BY StillModes, JobsAre
<1>4. CASE phase = "DESIGN"
  <2>1. Interview(c, "entry") \in Jobs /\ st[Interview(c, "entry")] # "absent"
    BY <1>1, <1>4, JobsAre DEF CommandDue
  <2>2. Mode(Interview(c, "entry")) = "over"
    BY <2>1, StillModes, AbsentIs DEF Course
  <2>3. c \in spec
    BY <1>2, <1>3, <2>2 DEF Designing
  <2>4. asked \subseteq elicited
    <3> SUFFICES ASSUME NEW e \in asked PROVE e \in elicited
      OBVIOUS
    <3>1. e \in Cycles
      BY Typed DEF Basis, LedgerTyped
    <3>2. PICK o \in {"entry", "loop"} : Mode(Interview(e, o)) # "absent"
      BY <3>1, CourseAt DEF Designing
    <3>3. Mode(Interview(e, o)) = "over"
      BY <3>1, <3>2, StillModes, JobsAre
    <3> QED BY <3>1, <3>3, CourseAt DEF Designing
  <2> QED BY <1>1, <1>4, <2>3, <2>4 DEF CommandDue
<1>5. CASE phase = "VISUAL_DESIGN"
  <2>1. c \in inventory
    BY <1>1, <1>2, <1>3, <1>5 DEF Pending, Designing
  <2> QED BY <1>1, <1>5, <2>1 DEF CommandDue
<1>6. CASE phase = "BUILD"
  <2>1. c > 1 => c - 1 \in Cycles
    BY DEF Cycles
  <2>2. ~Untouched(c)
    BY <1>1, <1>2, <1>6, <2>1 DEF Pending
  <2> QED BY <1>2, <1>3, <1>6, <2>2 DEF InOrder, InPhase, Untouched
<1>7. CASE phase = "REVIEW"
  BY <1>1, <1>2, <1>3, <1>7 DEF InOrder, InPhase, ReviewStopped
<1>8. CASE phase \in {"INTAKE", "DEPLOY"}
  BY <1>2, <1>3, <1>8 DEF InPhase, CommandDue
<1> QED BY <1>2, <1>4, <1>5, <1>6, <1>7, <1>8 DEF InPhase

\* As long as nothing goes wrong a project that is not done has a job to run, a
\* human or a worker at it, or a command that is due.
THEOREM NotStrandedWithoutFault == Spec => []StrandedOnlyByFault
<1>1. IInv => StrandedOnlyByFault
  BY OnCourse DEF IInv, StrandedOnlyByFault
<1> QED BY <1>1, Invariance, PTL

-----------------------------------------------------------------------------
(* The phase machine                                                       *)

\* Who writes the project row, and to what.
LEMMA RowWrites ==
  ASSUME Basis, [Next]_vars
  PROVE  \/ UNCHANGED <<phase, cycle>>
         \/ UNCHANGED cycle /\ <<phase, phase'>> \in
              {<<"INTAKE", "DESIGN">>, <<"DESIGN", "BUILD">>, <<"DESIGN", "VISUAL_DESIGN">>,
               <<"VISUAL_DESIGN", "BUILD">>, <<"BUILD", "REVIEW">>, <<"REVIEW", "DONE">>,
               <<"REVIEW", "DEPLOY">>}
         \/ \E w \in Workers : LoopBack(w)
<1>1. CASE Kickoff \/ Accept \/ CommandCrash \/ UNCHANGED vars
  BY <1>1 DEF Kickoff, Accept, AcceptDesign, SettleVisual, CommandCrash, Transition, vars
<1>2. CASE Command
  BY <1>2 DEF Command, CommandMove, CommandInsert, Transition, Basis, Commanding
<1>3. ASSUME NEW w \in Workers, EnterReview(w) \/ Decline(w) \/ OptIn(w)
      PROVE  \/ UNCHANGED <<phase, cycle>>
             \/ UNCHANGED cycle /\ <<phase, phase'>> \in
                  {<<"BUILD", "REVIEW">>, <<"REVIEW", "DONE">>, <<"REVIEW", "DEPLOY">>}
  BY <1>3 DEF EnterReview, Decline, OptIn, Transition
<1>4. ASSUME NEW w \in Workers, Handle(w), ~EnterReview(w), ~Decline(w), ~OptIn(w), ~LoopBack(w)
      PROVE  UNCHANGED <<phase, cycle>>
  BY <1>4 DEF Handle, Ask, Settle, Elicited, EnqueueSynthesize, SaveSpec, SaveInventory, FanOut,
     EnqueueDemo, ReadStale, Scan, EnqueueCollect, Supersede, RaiseAutomated, StopReview,
     TakeVerdict, EnqueueTriage, ReadFindings, EnqueueChoice, Misses, Redesign, CarrySpec, Rebuild,
     EnqueueDeploy
<1>5. ASSUME NEW w \in Workers, Raise(w) \/ Crash(w) PROVE UNCHANGED <<phase, cycle>>
  BY <1>5 DEF Raise, Crash
<1>6. ASSUME NEW j \in Jobs, Answer(j) \/ Reap(j) \/ LoseLease(j) \/ \E w \in Workers : Claim(w, j)
      PROVE  UNCHANGED <<phase, cycle>>
  BY <1>6 DEF Answer, Reap, LoseLease, Claim
<1> QED BY <1>1, <1>2, <1>3, <1>4, <1>5, <1>6 DEF Next

\* As long as every job runs once, a loop-back starts the next cycle, and nothing
\* else writes the cycle.
THEOREM LoopBacksAdvance == Spec => LoopBackAdvances
<1> DEFINE Advances == cycle' # cycle \/ (phase = "REVIEW" /\ phase' \in {"DESIGN", "BUILD"})
                         => faults > 0 \/ cycle' = cycle + 1
<1>1. IInv /\ [Next]_vars => [Advances]_<<phase, cycle>>
  <2> SUFFICES ASSUME IInv, [Next]_vars, ~UNCHANGED <<phase, cycle>>, ~(faults > 0),
                      cycle' # cycle \/ (phase = "REVIEW" /\ phase' \in {"DESIGN", "BUILD"})
               PROVE  cycle' = cycle + 1
    OBVIOUS
  <2>1. Basis /\ faults \in 0 .. MaxFaults
    BY Typed DEF IInv, Basis
  <2>2. Course
    BY <2>1 DEF IInv
  <2>3. PICK w \in Workers : LoopBack(w)
    BY <2>1, RowWrites
  <2> QED BY <2>1, <2>2, <2>3, CourseLoops
<1> QED BY <1>1, Invariance, PTL DEF Spec, LoopBackAdvances

\* The handlers and the commands move the project row as the phase machine allows,
\* whatever goes wrong.
THEOREM ImplementsMachine == Spec => ImplementsPhaseMachine
<1>1. Init => Machine!Init
  BY DEF Init, Machine!Init, Machine!Phases, Machine!Edges
<1>2. IInv /\ [Next]_vars => [Machine!Next]_<<phase, cycle>>
  <2> SUFFICES ASSUME IInv, [Next]_vars, ~UNCHANGED <<phase, cycle>> PROVE Machine!Next
    OBVIOUS
  <2>1. Basis
    BY DEF IInv
  <2>2. CASE \E w \in Workers : LoopBack(w)
    <3>1. PICK w \in Workers : LoopBack(w)
      BY <2>2
    <3>2. phase = "REVIEW" /\ phase' \in {"DESIGN", "BUILD"} /\ cycle' = Of(w) + 1
          /\ run[w].at # "idle"
      BY <3>1 DEF LoopBack, Transition, Target, At
    <3>3. Of(w) \in Nat \ {0}
      BY <2>1, <3>2, AtWork DEF Cycles
    <3>4. cycle' \in Nat \ {0}
      BY <3>2, <3>3
    <3> QED BY <3>2, <3>4 DEF Machine!Next, Machine!Move, Machine!LoopsBack, Machine!Phases,
                              Machine!Edges
  <2>3. CASE ~\E w \in Workers : LoopBack(w)
    <3>1. UNCHANGED cycle /\ <<phase, phase'>> \in
            {<<"INTAKE", "DESIGN">>, <<"DESIGN", "BUILD">>, <<"DESIGN", "VISUAL_DESIGN">>,
             <<"VISUAL_DESIGN", "BUILD">>, <<"BUILD", "REVIEW">>, <<"REVIEW", "DONE">>,
             <<"REVIEW", "DEPLOY">>}
      BY <2>1, <2>3, RowWrites
    <3> QED BY <3>1 DEF Machine!Next, Machine!Move, Machine!LoopsBack, Machine!Phases,
                        Machine!Edges
  <2> QED BY <2>2, <2>3
<1> QED BY <1>1, <1>2, Invariance, PTL DEF Spec, ImplementsPhaseMachine, Machine!Spec, Machine!vars

\* The handlers and the commands use the job table as TaskLease specifies it: whatever
\* is inserted twice, reported late or taken back, a job is granted to one worker at a
\* time, and only the worker that holds the grant settles it.
THEOREM UsesTable == Spec => Table!Spec
<1>1. Init => Table!Init
  BY DEF Init
<1>2. IInv /\ [Next]_vars => [Table!Next]_(Table!vars)
  <2> SUFFICES ASSUME IInv, [Next]_vars PROVE Table!Next \/ UNCHANGED table
    BY DEF Table!vars
  <2>1. Basis
    BY DEF IInv
  <2>2. ASSUME NEW j \in Jobs, Enqueue(j) PROVE Table!Next \/ UNCHANGED table
    BY <2>2 DEF Enqueue, Table!Next
  <2>3. ASSUME NEW w \in Workers, Handle(w), ~Settle(w), ~UNCHANGED table
        PROVE  \E j \in Jobs : Enqueue(j)
    <3>1. \/ EnqueueSynthesize(w) \/ FanOut(w) \/ EnqueueDemo(w) \/ EnqueueCollect(w)
          \/ EnqueueTriage(w) \/ EnqueueChoice(w) \/ EnqueueDeploy(w) \/ Redesign(w) \/ Rebuild(w)
      BY <2>3 DEF Handle, Ask, Elicited, SaveSpec, SaveInventory, EnterReview, ReadStale, Scan,
                  Supersede, RaiseAutomated, StopReview, TakeVerdict, ReadFindings, LoopBack,
                  Misses, CarrySpec, Decline, OptIn
    <3>2. run[w].at # "idle"
      BY <3>1 DEF EnqueueSynthesize, FanOut, EnqueueDemo, EnqueueCollect, EnqueueTriage,
                  EnqueueChoice, EnqueueDeploy, Redesign, Rebuild, At, Decomposing
    <3>3. Of(w) \in Cycles /\ Placed(w)
      BY <2>1, <3>2, AtWork
    <3>4. CASE Redesign(w) \/ Rebuild(w)
      <4>1. Of(w) < MaxCycle
        BY <3>3, <3>4 DEF Redesign, Rebuild, At, Placed
      <4>2. Of(w) + 1 \in Cycles
        BY <3>3, <4>1 DEF Cycles
      <4> QED BY <3>4, <4>2, JobsAre DEF Redesign, Rebuild
    <3>5. CASE ~(Redesign(w) \/ Rebuild(w))
      BY <3>1, <3>3, <3>5, JobsAre
         DEF EnqueueSynthesize, FanOut, EnqueueDemo, EnqueueCollect, EnqueueTriage, EnqueueChoice,
             EnqueueDeploy
    <3> QED BY <3>4, <3>5
  <2>4. ASSUME NEW w \in Workers, Settle(w) PROVE Table!Next
    <3>1. doing[w] \in Jobs
      BY <2>1, <2>4, AtWork DEF Settle
    <3> QED BY <2>4, <3>1 DEF Settle, Table!Next
  <2>5. ASSUME NEW w \in Workers, Raise(w) \/ Crash(w) PROVE Table!Next \/ UNCHANGED table
    BY <2>5 DEF Raise, Crash, Table!Next
  <2>6. ASSUME NEW w \in Workers, NEW j \in Jobs, Claim(w, j) PROVE Table!Next
    BY <2>6 DEF Claim, Table!Next
  <2>7. ASSUME NEW j \in Jobs, Answer(j) \/ Reap(j) \/ LoseLease(j) PROVE Table!Next
    BY <2>7 DEF Answer, Reap, LoseLease, Table!Next
  <2>8. CASE Kickoff \/ Accept \/ CommandMove \/ CommandCrash
    BY <2>8 DEF Kickoff, Accept, AcceptDesign, SettleVisual, CommandMove, CommandCrash
  <2>9. CASE CommandInsert
    <3>1. cli.job \in Jobs /\ Enqueue(cli.job)
      BY <2>1, <2>9 DEF CommandInsert, Basis, Commanding
    <3> QED BY <2>2, <3>1
  <2>10. CASE UNCHANGED vars
    BY <2>10 DEF vars
  <2>11. CASE \E w \in Workers : Handle(w)
    BY <2>2, <2>3, <2>4, <2>11
  <2> QED BY <2>5, <2>6, <2>7, <2>8, <2>9, <2>10, <2>11 DEF Next, Command
<1> QED BY <1>1, <1>2, Invariance, PTL DEF Spec, Table!Spec
=============================================================================
