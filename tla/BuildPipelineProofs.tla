-------------------------- MODULE BuildPipelineProofs --------------------------
(***************************************************************************)
(* BUILD for any items, dependencies, workers, rounds and wind-downs, and  *)
(* any number of crashes, exceptions and leases lost.  What a handler      *)
(* still has to do is not in the job table, so the invariant says of each  *)
(* place in a handler what was committed on the way there, and of each row *)
(* that succeeded what its handler left behind.                            *)
(*                                                                         *)
(* Three further invariants follow: of runs in which nothing goes wrong,   *)
(* for a quiet review and for the repair of every finding, and of a single *)
(* worker, for the demo of a review.                                       *)
(***************************************************************************)
EXTENDS BuildPipeline, FiniteSetTheorems, WellFoundedInduction, TLAPS

USE RoundsAssumption, NullAssumption

\* What an implement carries, by item and chain.
Payload == [finding : Findings \cup {NoFinding}, winds : 0 .. MaxWinds]
Payloads == [Items -> [Chains -> Payload]]

USE DEF table, ledger, project, Classes, Findings, NoFinding, Blank, Payload, Payloads,
        Table!Open, Table!Settled

\* A wind-down passes a conversation on to a later chain.
Later(c, n) == \A m \in 1 .. MaxWinds : c = Wind(m) => m < n

\* What a job that succeeded has left behind: its successor's row, or a merge.
Followed(j) ==
  /\ Kind(j) = "decompose" => \A i \in Items : st[Implement(i, Root)] # "absent"
  /\ Kind(j) = "implement" =>
       \/ st[Verify(j[2], j[3])] # "absent"
       \/ \E n \in 1 .. MaxWinds : Later(j[3], n) /\ st[Implement(j[2], Wind(n))] # "absent"
  /\ Kind(j) = "verify" => st[Integrate(j[2], j[3])] # "absent"
  /\ Kind(j) = "integrate" => j[2] \in green

\* A row is leased exactly while somebody holds it, nothing is enqueued before the
\* decomposition, and a row that succeeded was followed up.
Tabled ==
  \A j \in Jobs : /\ holder[j] # NoWorker <=> st[j] = "leased"
                  /\ st[j] # "absent" => st[Decompose] # "absent"
                  /\ st[j] = "succeeded" => Followed(j)

\* A payload carries a finding of the ledger, and counts the wind-downs of its chain.
Carrying ==
  \A i \in Items :
    /\ Len(findings[i]) <= MaxFindings
    /\ \A c \in Chains : payload[i][c].finding \in DOMAIN findings[i] \cup {NoFinding}
    /\ \A n \in 1 .. MaxWinds :
         st[Implement(i, Wind(n))] # "absent" => payload[i][Wind(n)].winds = n

\* The place of a worker in its handler tells what job it has.
Placed(w) ==
  /\ run[w].at = "built" => Kind(doing[w]) = "implement"
  /\ run[w].at \in {"failed", "raised", "passed", "resolved"} => Kind(doing[w]) \in Classes
  /\ run[w].at \in {"checking", "last", "entered", "unlock"} => Kind(doing[w]) = "integrate"
  /\ st[doing[w]] # "absent"

\* What a worker has read of the ledger still holds where it is used.
Informed(w) ==
  /\ run[w].at = "raised" => run[w].arg \in DOMAIN findings[Item(w)]
  /\ run[w].at = "passed" => run[w].open \subseteq DOMAIN findings[Item(w)]
  /\ run[w].at = "failed" /\ Kind(doing[w]) = "integrate" =>
       run[w].raised = Cardinality(Raised(Item(w), "integrate"))

\* What ReviewIsEarned says of REVIEW.
Earned ==
  /\ st[Decompose] \in Table!Settled
  /\ \A i \in Items : \/ i \in green
                      \/ st[Decompose] = "failed"
                      \/ \E j \in Jobs \ {Decompose} : j[2] = i /\ st[j] = "failed"

\* What a worker has committed on its way.
Advanced(w) ==
  /\ run[w].at = "start" /\ Kind(doing[w]) = "decompose" =>
       /\ run[w].arg <= Len(Order)
       /\ \A n \in 1 .. run[w].arg : st[Implement(Order[n], Root)] # "absent"
  /\ run[w].at \in {"passed", "resolved", "last", "entered"} /\ Kind(doing[w]) = "integrate" =>
       Item(w) \in green
  /\ run[w].at \in {"last", "entered"} => Earned
  /\ run[w].at \in {"unlock", "settle"} /\ run[w].out = "succeeded" => Followed(doing[w])

WorkerOK(w) == doing[w] # NoJob => Placed(w) /\ Informed(w) /\ Advanced(w)

\* The lock is held at the places of integrate that touch the branch, and nowhere else.
Held == \A w \in Workers : lock = w <=> Merging(w)

IInv ==
  /\ TypeOK /\ Tabled /\ Carrying /\ Held
  /\ \A w \in Workers : WorkerOK(w)
  /\ phase = "REVIEW" => Earned
  /\ IntegrateRoundsBounded

-----------------------------------------------------------------------------
(* Jobs, chains and numbers                                                *)

\* A set of numbers has a least one.
LEMMA Least ==
  ASSUME NEW T \in SUBSET Nat, T # {}
  PROVE  \E m \in T : \A n \in T : m <= n
<1> DEFINE R == OpToRel(<, Nat)
<1>1. IsWellFoundedOn(R, Nat)
  BY NatLessThanWellFounded
<1>2. \A n \in Nat, m \in Nat : n < m => <<n, m>> \in R
  BY DEF OpToRel
<1> HIDE DEF R
<1>3. PICK m \in T : \A n \in T : ~ (<<n, m>> \in R)
  BY <1>1, WFMin
<1>4. \A n \in T : ~ (n < m)
  BY <1>2, <1>3
<1> HIDE <1>2, <1>3
<1>5. m \in Nat /\ \A n \in T : n \in Nat
  OBVIOUS
<1>6. \A n \in T : m <= n
  BY <1>4, <1>5
<1> QED BY <1>6

\* A set of numbers below a bound has a greatest one.
LEMMA Greatest ==
  ASSUME NEW b \in Nat, NEW T \in SUBSET (1 .. b), T # {}
  PROVE  \E m \in T : \A n \in T : n <= m
<1> DEFINE D == {d \in 0 .. b : b - d \in T}
<1>1. D \in SUBSET Nat /\ D # {}
  <2>1. PICK n \in T : TRUE
    OBVIOUS
  <2>2. b - n \in 0 .. b /\ b - (b - n) = n
    OBVIOUS
  <2> QED BY <2>1, <2>2
<1>2. PICK d \in D : \A e \in D : d <= e
  BY <1>1, Least
<1>3. \A n \in T : b - n \in D /\ n \in 1 .. b
  <2> SUFFICES ASSUME NEW n \in T PROVE b - n \in D
    OBVIOUS
  <2>1. b - n \in 0 .. b /\ b - (b - n) = n
    OBVIOUS
  <2> QED BY <2>1
<1>4. b - d \in T /\ d \in 0 .. b
  BY <1>2
<1> HIDE DEF D
<1>5. \A n \in T : d <= b - n
  BY <1>2, <1>3
<1>6. \A n \in T : n <= b - d
  BY <1>3, <1>4, <1>5
<1> QED BY <1>4, <1>6

\* The parts of a job.
LEMMA JobParts ==
  ASSUME NEW j \in Jobs
  PROVE  /\ Kind(j) \in Kinds
         /\ Kind(j) = "decompose" <=> j = Decompose
         /\ Kind(j) # "decompose" => j[2] \in Items /\ j[3] \in Chains
         /\ Kind(j) = "implement" => j = Implement(j[2], j[3])
BY DEF Jobs, Kind, Kinds, Decompose, Implement

\* The jobs of an item and a chain.
LEMMA JobsOf ==
  ASSUME NEW i \in Items, NEW c \in Chains
  PROVE  /\ {Implement(i, c), Verify(i, c), Integrate(i, c)} \subseteq Jobs \ {Decompose}
         /\ Kind(Implement(i, c)) = "implement" /\ Kind(Verify(i, c)) = "verify"
         /\ Kind(Integrate(i, c)) = "integrate"
         /\ \A j \in {Implement(i, c), Verify(i, c), Integrate(i, c)} : j[2] = i /\ j[3] = c
BY DEF Jobs, Kind, Decompose, Implement, Verify, Integrate

\* The decomposition is a job.
LEMMA DecomposeIs == Decompose \in Jobs /\ Kind(Decompose) = "decompose"
BY DEF Jobs, Decompose, Kind

\* The chains, and what tells them apart.
LEMMA ChainsAre ==
  /\ Root \in Chains
  /\ \A k \in Findings : Repair(k) \in Chains
  /\ \A n \in 1 .. MaxWinds : Wind(n) \in Chains
  /\ \A m, n \in 1 .. MaxWinds : Wind(m) = Wind(n) => m = n
  /\ \A n \in 1 .. MaxWinds : Root # Wind(n)
  /\ \A k \in Findings, n \in 1 .. MaxWinds : Repair(k) # Wind(n)
BY DEF Chains, Root, Repair, Wind

-----------------------------------------------------------------------------
(* What a step leaves alone                                                *)

\* Rows are never removed, what is settled stays settled, and a merge stays merged.
Grows ==
  /\ \A j \in Jobs : /\ st[j] # "absent" => st'[j] # "absent"
                     /\ st[j] \in {"succeeded", "failed"} => st'[j] = st[j]
  /\ green \subseteq green'

\* A step of w changes what no other worker counts on.
Moves(w) ==
  /\ Grows
  /\ \A v \in Workers \ {w} : run'[v] = run[v] /\ doing'[v] = doing[v] /\ (lock' = v <=> lock = v)
  /\ \A i \in Items : /\ DOMAIN findings[i] \subseteq DOMAIN findings'[i]
                      /\ lock # w => Raised(i, "integrate")' = Raised(i, "integrate")

\* What a job left behind is not undone.
LEMMA FollowedStays ==
  ASSUME Grows, NEW j \in Jobs, Followed(j)
  PROVE  Followed(j)'
<1>1. /\ Kind(j) = "decompose" \/ (j[2] \in Items /\ j[3] \in Chains)
  BY JobParts
<1>2. \A i \in Items, c \in Chains : {Implement(i, c), Verify(i, c), Integrate(i, c)} \subseteq Jobs
  BY JobsOf
<1>3. \A k \in Jobs : st[k] # "absent" => st'[k] # "absent"
  BY DEF Grows
<1>4. ASSUME Kind(j) = "decompose" PROVE \A i \in Items : st'[Implement(i, Root)] # "absent"
  BY <1>2, <1>3, <1>4, ChainsAre DEF Followed
<1>5. ASSUME Kind(j) = "implement"
      PROVE  \/ st'[Verify(j[2], j[3])] # "absent"
             \/ \E n \in 1 .. MaxWinds : Later(j[3], n) /\ st'[Implement(j[2], Wind(n))] # "absent"
  BY <1>1, <1>2, <1>3, <1>5, ChainsAre DEF Followed
<1>6. ASSUME Kind(j) = "verify" PROVE st'[Integrate(j[2], j[3])] # "absent"
  BY <1>1, <1>2, <1>3, <1>6 DEF Followed
<1>7. ASSUME Kind(j) = "integrate" PROVE j[2] \in green'
  BY <1>7 DEF Followed, Grows
<1> QED BY <1>4, <1>5, <1>6, <1>7 DEF Followed

\* What entitled BUILD to be over still does.
LEMMA EarnedStays ==
  ASSUME Grows, Earned
  PROVE  Earned'
BY DecomposeIs DEF Grows, Earned

\* A step of one worker leaves what the others read and hold as it was.
LEMMA OthersKeep ==
  ASSUME IInv, NEW w, Moves(w), NEW v \in Workers \ {w}
  PROVE  WorkerOK(v)' /\ (lock' = v <=> Merging(v)')
<1>1. run'[v] = run[v] /\ doing'[v] = doing[v] /\ (lock' = v <=> lock = v)
  BY DEF Moves
<1>2. lock = v <=> Merging(v)
  BY DEF IInv, Held
<1>3. lock' = v <=> Merging(v)'
  BY <1>1, <1>2 DEF Merging
<1>4. ASSUME doing[v] # NoJob PROVE Placed(v)' /\ Informed(v)' /\ Advanced(v)'
  <2>1. doing[v] \in Jobs /\ Placed(v) /\ Informed(v) /\ Advanced(v)
    BY <1>4 DEF IInv, WorkerOK, TypeOK
  <2>2. Placed(v)'
    BY <1>1, <2>1 DEF Placed, Moves, Grows
  <2>3. Kind(doing[v]) # "decompose" => Item(v) \in Items /\ Item(v)' = Item(v)
    BY <1>1, <2>1, JobParts DEF Item
  <2>4. Informed(v)'
    <3>1. run[v].at \in {"raised", "passed", "failed"} => Item(v) \in Items /\ Item(v)' = Item(v)
      BY <2>1, <2>3 DEF Placed
    <3>2. run[v].at = "raised" => run[v].arg \in DOMAIN findings'[Item(v)]
      BY <2>1, <3>1 DEF Informed, Moves
    <3>3. run[v].at = "passed" => run[v].open \subseteq DOMAIN findings'[Item(v)]
      BY <2>1, <3>1 DEF Informed, Moves
    <3>4. ASSUME run[v].at = "failed", Kind(doing[v]) = "integrate"
          PROVE  run[v].raised = Cardinality(Raised(Item(v), "integrate")')
      <4>1. lock # w
        BY <1>2, <1>4, <3>4 DEF Merging
      <4>2. Raised(Item(v), "integrate")' = Raised(Item(v), "integrate")
        BY <3>1, <3>4, <4>1 DEF Moves, Raised
      <4> QED BY <2>1, <3>4, <4>2 DEF Informed
    <3> QED BY <1>1, <3>1, <3>2, <3>3, <3>4 DEF Informed, Raised
  <2>5. Advanced(v)'
    <3>1. ASSUME run[v].at = "start", Kind(doing[v]) = "decompose"
          PROVE  /\ run[v].arg <= Len(Order)
                 /\ \A n \in 1 .. run[v].arg : st'[Implement(Order[n], Root)] # "absent"
      <4>1. \A n \in 1 .. Len(Order) : Order[n] \in Items
        BY ItemsAssumption
      <4>2. \A i \in Items : Implement(i, Root) \in Jobs
        BY JobsOf, ChainsAre
      <4>3. run[v].arg \in Nat /\ Len(Order) \in Nat
        BY ItemsAssumption DEF IInv, TypeOK
      <4> QED BY <2>1, <3>1, <4>1, <4>2, <4>3 DEF Advanced, Moves, Grows
    <3>2. Item(v) \in green => Item(v) \in green'
      BY DEF Moves, Grows
    <3>3. Earned => Earned'
      BY EarnedStays DEF Moves
    <3>4. Followed(doing[v]) => Followed(doing[v])'
      <4>1. \A k \in Jobs : Followed(k) => Followed(k)'
        BY FollowedStays DEF Moves
      <4>2. \A k \in Jobs : k = doing[v] /\ Followed(doing[v]) => Followed(doing[v])'
        BY <1>1, <4>1 DEF Followed
      <4> QED BY <2>1, <4>2
    <3> QED BY <1>1, <2>1, <3>1, <3>2, <3>3, <3>4 DEF Advanced, Item
  <2> QED BY <2>2, <2>4, <2>5
<1> QED BY <1>1, <1>3, <1>4 DEF WorkerOK

\* The invariant is assembled from what a step does to its own worker, the table, the
\* payloads and the findings.
LEMMA Assembled ==
  ASSUME IInv, NEW w, Moves(w), TypeOK', Tabled', Carrying',
         w \in Workers => WorkerOK(w)' /\ (lock' = w <=> Merging(w)'),
         phase' = "REVIEW" => phase = "REVIEW" \/ Earned,
         IntegrateRoundsBounded'
  PROVE  IInv'
<1>1. \A v \in Workers : WorkerOK(v)' /\ (lock' = v <=> Merging(v)')
  BY OthersKeep
<1>2. phase' = "REVIEW" => Earned'
  BY EarnedStays DEF IInv, Moves
<1>3. Held'
  BY <1>1 DEF Held, Merging
<1> QED BY <1>1, <1>2, <1>3 DEF IInv

-----------------------------------------------------------------------------
(* The job table                                                           *)

RowStates == {"ready", "leased", "awaiting_human", "succeeded", "failed", "absent"}

TableTyped ==
  /\ st \in [Jobs -> RowStates]
  /\ holder \in [Jobs -> Workers \cup {NoWorker}]
  /\ doing \in [Workers -> Jobs \cup {NoJob}]

\* A row may be inserted, which changes no other.
Inserts == UNCHANGED table \/ \E j \in Jobs \ {Decompose} : Enqueue(j)

\* An insertion is typed, and changes no row that is there.
LEMMA Inserting ==
  ASSUME IInv, st[Decompose] # "absent", Inserts
  PROVE  /\ TableTyped' /\ UNCHANGED <<holder, doing>>
         /\ \A j \in Jobs : st'[j] = st[j] \/ (st[j] = "absent" /\ st'[j] = "ready")
<1>1. TableTyped
  BY DEF IInv, TypeOK, TableTyped, RowStates
<1>2. CASE UNCHANGED table
  BY <1>1, <1>2 DEF TableTyped
<1>3. CASE \E j \in Jobs \ {Decompose} : Enqueue(j)
  BY <1>1, <1>3 DEF TableTyped, Enqueue, Table!Offer, RowStates
<1> QED BY <1>2, <1>3 DEF Inserts

\* A row keeps what the table promises of it unless its holder reports.
LEMMA TableKeeps ==
  ASSUME IInv, Grows, TableTyped',
         \A j \in Jobs : /\ st'[j] # "absent" => st'[Decompose] # "absent"
                         /\ holder'[j] # NoWorker <=> st'[j] = "leased"
                         /\ st'[j] = "succeeded" => st[j] = "succeeded"
  PROVE  Tabled'
<1>1. \A j \in Jobs : st'[j] = "succeeded" => Followed(j)'
  BY FollowedStays DEF IInv, Tabled
<1> QED BY <1>1 DEF Tabled

\* An insertion grows the table and keeps what it promises.
LEMMA InsertKeeps ==
  ASSUME IInv, st[Decompose] # "absent", Inserts, green \subseteq green'
  PROVE  Grows /\ Tabled'
<1>1. /\ TableTyped' /\ UNCHANGED <<holder, doing>>
      /\ \A j \in Jobs : st'[j] = st[j] \/ (st[j] = "absent" /\ st'[j] = "ready")
  BY Inserting
<1>2. Grows
  BY <1>1 DEF Grows
<1>3. \A j \in Jobs : /\ st'[j] # "absent" => st'[Decompose] # "absent"
                      /\ holder'[j] # NoWorker <=> st'[j] = "leased"
                      /\ st'[j] = "succeeded" => st[j] = "succeeded"
  BY <1>1, DecomposeIs DEF IInv, Tabled
<1> QED BY <1>1, <1>2, <1>3, TableKeeps

\* A worker in a handler has a job, and decomposition has a row.
LEMMA AtWork ==
  ASSUME IInv, NEW w \in Workers, run[w].at # "idle"
  PROVE  /\ doing[w] \in Jobs /\ doing[w] # NoJob
         /\ Placed(w) /\ Informed(w) /\ Advanced(w)
         /\ st[doing[w]] # "absent" /\ st[Decompose] # "absent"
         /\ Kind(doing[w]) # "decompose" => Item(w) \in Items /\ Chain(w) \in Chains
         /\ lock = w <=> Merging(w)
<1>1. doing[w] \in Jobs /\ doing[w] # NoJob
  BY DEF IInv, TypeOK
<1>2. Placed(w) /\ Informed(w) /\ Advanced(w)
  BY <1>1 DEF IInv, WorkerOK
<1>3. st[doing[w]] # "absent" /\ st[Decompose] # "absent"
  BY <1>1, <1>2 DEF Placed, IInv, Tabled
<1> QED BY <1>1, <1>2, <1>3, JobParts DEF Item, Chain, IInv, Held

-----------------------------------------------------------------------------
(* The payloads and the findings                                           *)

\* The rows of successors, the payloads and the ledger are as they were.
LEMMA CarryingKeeps ==
  ASSUME IInv, UNCHANGED <<findings, payload>>,
         \A i \in Items, n \in 1 .. MaxWinds :
           st'[Implement(i, Wind(n))] # "absent" => st[Implement(i, Wind(n))] # "absent"
  PROVE  Carrying'
BY DEF IInv, Carrying

\* The bound on rounds is about the ledger alone.
LEMMA RoundsKeep ==
  ASSUME IInv, UNCHANGED findings
  PROVE  IntegrateRoundsBounded'
BY DEF IInv, IntegrateRoundsBounded, Raised

-----------------------------------------------------------------------------
(* A handler goes on                                                       *)

Outcomes == {"ready", "leased", "awaiting_human", "succeeded", "failed"}
RunRecords == [at : Places, out : Outcomes, open : SUBSET Findings, raised : Nat, arg : Nat]

\* A handler takes a step: nobody's job changes, and only its own place does.
Steps(w) ==
  /\ run[w].at # "idle" /\ run'[w].at # "idle"
  /\ run' \in [Workers -> RunRecords]
  /\ \A v \in Workers \ {w} : run'[v] = run[v]
  /\ Inserts
  /\ faults' \in 0 .. MaxFaults

\* The types of what the steps of a handler leave or change.
LedgerTyped ==
  /\ findings \in [Items -> Seq(Classes)]
  /\ closed \in [Items -> SUBSET Findings]
  /\ \A i \in Items : closed[i] \subseteq DOMAIN findings[i]
  /\ payload \in Payloads
  /\ green \subseteq Items
  /\ phase \in {"BUILD", "REVIEW"} /\ demo \in BOOLEAN
  /\ lock \in Workers \cup {NoWorker}

\* The parts of the type invariant, by name.
LEMMA LedgerIs ==
  ASSUME TypeOK
  PROVE  /\ LedgerTyped /\ grant \in [Jobs -> {0, GrantedRounds}]
         /\ run \in [Workers -> RunRecords] /\ faults \in 0 .. MaxFaults
BY DEF TypeOK, LedgerTyped, RunRecords, Outcomes

\* A step of a handler is typed when what it writes to the ledger is.
LEMMA StepTyped ==
  ASSUME IInv, NEW w \in Workers, Steps(w), LedgerTyped', UNCHANGED grant
  PROVE  TypeOK' /\ doing' = doing
<1>1. TableTyped' /\ UNCHANGED <<holder, doing>>
  BY AtWork, Inserting DEF Steps
<1>2. \A v \in Workers : run'[v].at = "idle" <=> doing'[v] = NoJob
  BY <1>1 DEF Steps, IInv, TypeOK
<1>3. grant' \in [Jobs -> {0, GrantedRounds}]
  BY DEF IInv, TypeOK
<1> QED
  BY <1>1, <1>2, <1>3
     DEF TypeOK, Steps, LedgerTyped, TableTyped, RunRecords, Outcomes, RowStates

\* What a step of a handler has to show.
LEMMA StepSafe ==
  ASSUME IInv, NEW w \in Workers, Steps(w), LedgerTyped', UNCHANGED grant,
         Carrying', green \subseteq green',
         \A v \in Workers \ {w} : lock' = v <=> lock = v,
         \A i \in Items : /\ DOMAIN findings[i] \subseteq DOMAIN findings'[i]
                          /\ lock # w => Raised(i, "integrate")' = Raised(i, "integrate"),
         Placed(w)' /\ Informed(w)' /\ Advanced(w)',
         lock' = w <=> Merging(w)',
         phase' = "REVIEW" => phase = "REVIEW" \/ Earned,
         IntegrateRoundsBounded'
  PROVE  IInv'
<1>1. TypeOK' /\ doing' = doing
  BY StepTyped
<1>2. st[Decompose] # "absent"
  BY AtWork DEF Steps
<1>3. Grows /\ Tabled'
  BY <1>2, InsertKeeps DEF Steps
<1>4. Moves(w)
  BY <1>1, <1>3 DEF Moves, Steps
<1>5. WorkerOK(w)'
  BY DEF WorkerOK
<1> QED BY <1>1, <1>3, <1>4, <1>5, Assembled

-----------------------------------------------------------------------------
(* Handlers that return                                                    *)

\* A handler that returns unlocks if it holds the lock, and settles.
LEMMA Returning ==
  ASSUME IInv, NEW w \in Workers, run[w].at \notin {"idle", "unlock", "settle"},
         NEW o \in Outcomes, Return(w, o), UNCHANGED lock, Inserts
  PROVE  /\ run' \in [Workers -> RunRecords]
         /\ \A v \in Workers \ {w} : run'[v] = run[v]
         /\ run'[w].at = (IF lock = w THEN "unlock" ELSE "settle") /\ run'[w].out = o
         /\ doing' = doing
         /\ Placed(w)' /\ Informed(w)' /\ (lock' = w <=> Merging(w)')
<1>1. run \in [Workers -> RunRecords]
  BY LedgerIs DEF IInv
<1>2. run' = [run EXCEPT ![w] = [@ EXCEPT !.at = IF lock = w THEN "unlock" ELSE "settle",
                                           !.out = o]]
  BY <1>1 DEF Return
<1>3. {"unlock", "settle"} \subseteq Places
  BY DEF Places
<1>4. /\ run' \in [Workers -> RunRecords]
      /\ \A v \in Workers \ {w} : run'[v] = run[v]
      /\ run'[w].at = (IF lock = w THEN "unlock" ELSE "settle") /\ run'[w].out = o
  BY <1>1, <1>2, <1>3 DEF RunRecords
<1>5. /\ doing[w] \in Jobs /\ doing[w] # NoJob /\ st[doing[w]] # "absent"
      /\ lock = w <=> Merging(w)
      /\ st[Decompose] # "absent"
  BY AtWork
<1>6. doing' = doing /\ st'[doing[w]] # "absent"
  BY <1>5, Inserting
<1>7. Placed(w)' /\ (lock' = w <=> Merging(w)')
  BY <1>4, <1>5, <1>6 DEF Placed, Merging
<1>8. Informed(w)'
  BY <1>4 DEF Informed
<1> QED BY <1>4, <1>6, <1>7, <1>8

\* A handler may return whatever it has followed up.
LEMMA ReturnSafe ==
  ASSUME IInv, NEW w \in Workers, run[w].at \notin {"idle", "unlock", "settle"},
         NEW o \in Outcomes, Return(w, o), Inserts,
         UNCHANGED <<ledger, grant, phase, green, lock>>,
         demo' \in BOOLEAN, faults' \in 0 .. MaxFaults,
         payload' \in Payloads,
         Carrying',
         o = "succeeded" => \A j \in Jobs : j = doing[w] => Followed(j)'
  PROVE  IInv'
<1>1. /\ run' \in [Workers -> RunRecords]
      /\ \A v \in Workers \ {w} : run'[v] = run[v]
      /\ run'[w].at = (IF lock = w THEN "unlock" ELSE "settle") /\ run'[w].out = o
      /\ doing' = doing
      /\ Placed(w)' /\ Informed(w)' /\ (lock' = w <=> Merging(w)')
  BY Returning
<1>2. Steps(w)
  BY <1>1 DEF Steps
<1>3. LedgerTyped'
  BY LedgerIs DEF IInv, LedgerTyped
<1>4. doing[w] \in Jobs
  BY AtWork
<1>5. Advanced(w)'
  <2>1. o = "succeeded" => Followed(doing[w])'
    BY <1>1, <1>4 DEF Followed
  <2> QED BY <1>1, <2>1 DEF Advanced
<1>6. \A i \in Items : /\ DOMAIN findings[i] \subseteq DOMAIN findings'[i]
                       /\ Raised(i, "integrate")' = Raised(i, "integrate")
  BY DEF Raised
<1>7. IntegrateRoundsBounded'
  BY RoundsKeep
<1> QED BY <1>1, <1>2, <1>3, <1>5, <1>6, <1>7, StepSafe

\* A handler that only returns, without success or with its follow-up committed.
LEMMA QuietReturn ==
  ASSUME IInv, NEW w \in Workers, run[w].at \notin {"idle", "unlock", "settle"},
         NEW o \in Outcomes, Return(w, o),
         UNCHANGED <<table, ledger, payload, grant, project, lock>>, faults' \in 0 .. MaxFaults,
         o = "succeeded" => \A j \in Jobs : j = doing[w] => Followed(j)
  PROVE  IInv'
<1>1. Carrying'
  BY CarryingKeeps
<1>2. Inserts
  BY DEF Inserts
<1>3. demo' \in BOOLEAN
  <2>1. demo \in BOOLEAN
    BY DEF IInv, TypeOK
  <2> QED BY <2>1
<1>4. payload' \in Payloads
  BY DEF IInv, TypeOK
<1>5. o = "succeeded" => \A j \in Jobs : j = doing[w] => Followed(j)'
  BY DEF Followed
<1>6. UNCHANGED <<ledger, grant, phase, green, lock>>
  OBVIOUS
<1> QED BY <1>1, <1>2, <1>3, <1>4, <1>5, <1>6, ReturnSafe

\* A failure leaves a job ready or failed.
LEMMA NackedIs ==
  ASSUME NEW j
  PROVE  NackedAs(j) \subseteq {"ready", "failed"}
BY DEF NackedAs

\* The handler gives up, parks, or raises: it returns no success.
LEMMA GiveUpSafe ==
  ASSUME IInv, NEW w \in Workers,
         \/ StopEarly(w) \/ ParkImplement(w) \/ LockBusy(w)
         \/ RepairInFlight(w) \/ RoundsExhausted(w) \/ Raise(w)
  PROVE  IInv'
<1>1. PICK o \in {"ready", "failed", "awaiting_human"} :
        /\ Return(w, o) /\ run[w].at \notin {"idle", "unlock", "settle"}
        /\ UNCHANGED <<table, ledger, payload, grant, project, lock>>
  BY NackedIs DEF StopEarly, ParkImplement, LockBusy, RepairInFlight, RoundsExhausted, Raise, At
<1>2. faults' \in 0 .. MaxFaults
  <2>1. faults \in 0 .. MaxFaults /\ MaxFaults \in Nat
    BY DEF IInv, TypeOK
  <2>2. faults' = faults \/ (faults < MaxFaults /\ faults' = faults + 1)
    BY DEF StopEarly, ParkImplement, LockBusy, RepairInFlight, RoundsExhausted, Raise
  <2> QED BY <2>1, <2>2
<1>3. o \in Outcomes /\ o # "succeeded"
  BY DEF Outcomes
<1> QED BY <1>1, <1>2, <1>3, QuietReturn

\* Decomposition returns when every item has its row.
LEMMA FannedOutSafe ==
  ASSUME IInv, NEW w \in Workers, FannedOut(w)
  PROVE  IInv'
<1>1. /\ run[w].at = "start" /\ Kind(doing[w]) = "decompose" /\ run[w].arg = Len(Order)
      /\ Return(w, "succeeded")
      /\ UNCHANGED <<table, ledger, payload, grant, project, lock, faults>>
  BY DEF FannedOut, At
<1>2. \A n \in 1 .. Len(Order) : st[Implement(Order[n], Root)] # "absent"
  BY <1>1, AtWork DEF Advanced
<1>3. \A i \in Items : st[Implement(i, Root)] # "absent"
  BY <1>2, ItemsAssumption
<1>4. \A j \in Jobs : j = doing[w] => Followed(j)
  BY <1>1, <1>3 DEF Followed
<1>5. "succeeded" \in Outcomes /\ faults' \in 0 .. MaxFaults
  BY <1>1 DEF Outcomes, IInv, TypeOK
<1> QED BY <1>1, <1>4, <1>5, QuietReturn

\* A handler that inserts a row of no wind-down and returns.
LEMMA InsertSafe ==
  ASSUME IInv, NEW w \in Workers, run[w].at \notin {"idle", "unlock", "settle"},
         NEW j \in Jobs \ {Decompose}, Enqueue(j), Return(w, "succeeded"),
         \A i \in Items, n \in 1 .. MaxWinds : j # Implement(i, Wind(n)),
         UNCHANGED <<ledger, payload, grant, project, lock, faults>>,
         st'[j] # "absent" => \A k \in Jobs : k = doing[w] => Followed(k)'
  PROVE  IInv'
<1>1. st'[j] # "absent" /\ \A k \in Jobs : k # j => st'[k] = st[k]
  BY DEF Enqueue, Table!Offer, IInv, TypeOK
<1>2. Carrying'
  <2>1. \A i \in Items, n \in 1 .. MaxWinds : Implement(i, Wind(n)) \in Jobs
    BY JobsOf, ChainsAre
  <2> QED BY <1>1, <2>1, CarryingKeeps
<1>3. demo' \in BOOLEAN
  <2>1. demo \in BOOLEAN
    BY DEF IInv, TypeOK
  <2> QED BY <2>1
<1>4. payload' \in Payloads
  BY DEF IInv, TypeOK
<1>5. Inserts /\ "succeeded" \in Outcomes
  BY DEF Inserts, Outcomes
<1>6. faults' \in 0 .. MaxFaults /\ UNCHANGED <<ledger, grant, phase, green, lock>>
  BY DEF IInv, TypeOK
<1> QED BY <1>1, <1>2, <1>3, <1>4, <1>5, <1>6, ReturnSafe

\* build.implement returns behind its build.verify.
LEMMA EnqueueVerifySafe ==
  ASSUME IInv, NEW w \in Workers, EnqueueVerify(w)
  PROVE  IInv'
<1>1. /\ run[w].at = "built" /\ Kind(doing[w]) = "implement"
      /\ Enqueue(Verify(Item(w), Chain(w))) /\ Return(w, "succeeded")
      /\ UNCHANGED <<ledger, payload, grant, project, lock, faults>>
  BY DEF EnqueueVerify, At
<1>2. Item(w) \in Items /\ Chain(w) \in Chains
  BY <1>1, AtWork
<1>3. Verify(Item(w), Chain(w)) \in Jobs \ {Decompose}
  BY <1>2, JobsOf
<1>4. \A i \in Items, n \in 1 .. MaxWinds : Verify(Item(w), Chain(w)) # Implement(i, Wind(n))
  BY DEF Verify, Implement
<1>5. st'[Verify(Item(w), Chain(w))] # "absent" => \A k \in Jobs : k = doing[w] => Followed(k)'
  BY <1>1 DEF Followed, Item, Chain
<1> QED BY <1>1, <1>3, <1>4, <1>5, InsertSafe

\* build.verify returns behind its build.integrate.
LEMMA EnqueueIntegrateSafe ==
  ASSUME IInv, NEW w \in Workers, EnqueueIntegrate(w)
  PROVE  IInv'
<1>1. /\ run[w].at = "resolved" /\ Kind(doing[w]) = "verify"
      /\ Enqueue(Integrate(Item(w), Chain(w))) /\ Return(w, "succeeded")
      /\ UNCHANGED <<ledger, payload, grant, project, lock, faults>>
  BY DEF EnqueueIntegrate, At
<1>2. Item(w) \in Items /\ Chain(w) \in Chains
  BY <1>1, AtWork
<1>3. Integrate(Item(w), Chain(w)) \in Jobs \ {Decompose}
  BY <1>2, JobsOf
<1>4. \A i \in Items, n \in 1 .. MaxWinds : Integrate(Item(w), Chain(w)) # Implement(i, Wind(n))
  BY DEF Integrate, Implement
<1>5. st'[Integrate(Item(w), Chain(w))] # "absent" => \A k \in Jobs : k = doing[w] => Followed(k)'
  BY <1>1 DEF Followed, Item, Chain
<1> QED BY <1>1, <1>3, <1>4, <1>5, InsertSafe

\* A successor is enqueued on a later chain, with the wind-downs counted.
LEMMA WindDownSafe ==
  ASSUME IInv, NEW w \in Workers, WindDown(w)
  PROVE  IInv'
<1> DEFINE i == Item(w)
           c == Chain(w)
           n == Carried(w).winds + 1
           next == Implement(i, Wind(n))
<1>1. /\ run[w].at = "start" /\ Kind(doing[w]) = "implement" /\ Carried(w).winds < MaxWinds
      /\ Enqueue(next) /\ Return(w, "succeeded")
      /\ payload' = IF st[next] = "absent"
                    THEN [payload EXCEPT ![i][Wind(n)] = [Carried(w) EXCEPT !.winds = n]]
                    ELSE payload
      /\ UNCHANGED <<ledger, grant, project, lock, faults>>
  BY DEF WindDown, At
<1>2. i \in Items /\ c \in Chains /\ doing[w] \in Jobs /\ st[doing[w]] # "absent"
      /\ doing[w] = Implement(i, c)
  BY <1>1, AtWork, JobParts DEF Item, Chain
<1>3. /\ Carried(w) = payload[i][c] /\ payload[i][c].winds \in Nat
      /\ payload[i][c].finding \in DOMAIN findings[i] \cup {NoFinding}
      /\ payload[i][c].finding \in Findings \cup {NoFinding}
  BY <1>2 DEF Carried, IInv, TypeOK, Carrying
<1>4. n \in 1 .. MaxWinds /\ Wind(n) \in Chains
  BY <1>1, <1>3, ChainsAre
<1>5. next \in Jobs \ {Decompose} /\ \A d \in Chains : Implement(i, d) \in Jobs
  BY <1>2, <1>4, JobsOf
<1>6. st'[next] # "absent" /\ \A k \in Jobs : k # next => st'[k] = st[k]
  BY <1>1, <1>5 DEF Enqueue, Table!Offer, IInv, TypeOK
<1>7. Later(c, n)
  <2> SUFFICES ASSUME NEW m \in 1 .. MaxWinds, c = Wind(m) PROVE m < n
    BY DEF Later
  <2>1. payload[i][c].winds = m
    BY <1>2 DEF IInv, Carrying
  <2> QED BY <1>3, <2>1
<1>8. \A k \in Jobs : k = doing[w] => Followed(k)'
  <2>1. doing[w][2] = i /\ doing[w][3] = c
    BY DEF Item, Chain
  <2> HIDE DEF n, i, c
  <2> QED BY <1>1, <1>4, <1>6, <1>7, <2>1 DEF Followed
<1> HIDE DEF n, i, c, next
<1>9. payload' \in Payloads
  <2>1. payload \in Payloads
    BY DEF IInv, TypeOK
  <2>2. [payload[i][c] EXCEPT !.winds = n] \in Payload
    BY <1>2, <1>4, <2>1
  <2> QED BY <1>1, <1>2, <1>3, <1>4, <2>1, <2>2
<1>10. Carrying'
  <2> SUFFICES ASSUME NEW k \in Items
               PROVE  /\ Len(findings[k]) <= MaxFindings
                      /\ \A d \in Chains :
                           payload'[k][d].finding \in DOMAIN findings[k] \cup {NoFinding}
                      /\ \A m \in 1 .. MaxWinds :
                           st'[Implement(k, Wind(m))] # "absent" => payload'[k][Wind(m)].winds = m
    BY <1>1 DEF Carrying
  <2>1. Carrying /\ TypeOK
    BY DEF IInv
  <2>2. \A d \in Chains : payload'[k][d] = payload[k][d]
                          \/ (k = i /\ d = Wind(n) /\ st[next] = "absent"
                              /\ payload'[k][d] = [payload[i][c] EXCEPT !.winds = n])
    BY <1>1, <1>2, <1>3, <1>4, <2>1 DEF TypeOK
  <2>3. [payload[i][c] EXCEPT !.winds = n].winds = n
        /\ [payload[i][c] EXCEPT !.winds = n].finding = payload[i][c].finding
    BY <1>2, <2>1 DEF TypeOK
  <2>4. \A d \in Chains : payload'[k][d].finding \in DOMAIN findings[k] \cup {NoFinding}
    BY <1>3, <2>1, <2>2, <2>3 DEF Carrying
  <2>5. ASSUME NEW m \in 1 .. MaxWinds, st'[Implement(k, Wind(m))] # "absent"
        PROVE  payload'[k][Wind(m)].winds = m
    <3>1. Implement(k, Wind(m)) \in Jobs /\ Wind(m) \in Chains
      BY JobsOf, ChainsAre
    <3>2. k = i /\ Wind(m) = Wind(n) => m = n
      BY <1>4, ChainsAre
    <3>3. CASE st[Implement(k, Wind(m))] # "absent"
      <4>1. payload[k][Wind(m)].winds = m
        BY <2>1, <3>3 DEF Carrying
      <4> QED BY <2>2, <2>3, <3>1, <3>2, <4>1
    <3>4. CASE st[Implement(k, Wind(m))] = "absent"
      <4>1. Implement(k, Wind(m)) = next /\ st[next] = "absent"
        BY <1>6, <2>5, <3>1, <3>4
      <4>2. k = i /\ Wind(m) = Wind(n)
        BY <4>1, <1>2, <1>4, <3>1, JobsOf DEF next
      <4>3. payload'[k][Wind(m)] = [payload[i][c] EXCEPT !.winds = n]
        BY <1>1, <1>2, <1>3, <1>4, <2>1, <4>1, <4>2 DEF TypeOK
      <4> QED BY <2>3, <3>2, <4>2, <4>3
    <3> QED BY <3>3, <3>4
  <2> QED BY <2>1, <2>4, <2>5 DEF Carrying
<1>11. Inserts /\ "succeeded" \in Outcomes /\ faults' \in 0 .. MaxFaults
  BY <1>1, <1>5 DEF Inserts, Outcomes, IInv, TypeOK
<1>12. UNCHANGED <<ledger, grant, phase, green, lock>>
  BY <1>1
<1>13. demo' \in BOOLEAN
  <2>1. demo \in BOOLEAN
    BY DEF IInv, TypeOK
  <2> QED BY <1>1, <2>1
<1> QED BY <1>1, <1>8, <1>9, <1>10, <1>11, <1>12, <1>13, ReturnSafe

\* A repair is enqueued with the finding that was raised, on a chain no wind-down has.
LEMMA EnqueueRepairSafe ==
  ASSUME IInv, NEW w \in Workers, EnqueueRepair(w)
  PROVE  IInv'
<1> DEFINE i == Item(w)
           k == run[w].arg
           r == [Carried(w) EXCEPT !.finding = k]
<1>1. /\ run[w].at = "raised" /\ Return(w, "ready")
      /\ Enqueue(Implement(i, Repair(k)))
      /\ payload' = [payload EXCEPT ![i][Repair(k)] = r]
      /\ UNCHANGED <<ledger, grant, project, lock, faults>>
  BY DEF EnqueueRepair
<1>2. /\ i \in Items /\ Chain(w) \in Chains /\ k \in DOMAIN findings[i]
  BY <1>1, AtWork DEF Placed, Informed
<1>3. k \in Findings
  <2>1. Len(findings[i]) <= MaxFindings /\ findings[i] \in Seq(Classes)
    BY <1>2 DEF IInv, Carrying, TypeOK
  <2> QED BY <1>2, <2>1
<1>4. /\ Repair(k) \in Chains /\ \A n \in 1 .. MaxWinds : Repair(k) # Wind(n)
  BY <1>3, ChainsAre
<1>5. Implement(i, Repair(k)) \in Jobs \ {Decompose}
  BY <1>2, <1>4, JobsOf
<1>6. r \in Payload /\ r.finding = k
  <2>1. payload[i][Chain(w)] \in Payload
    BY <1>2 DEF IInv, TypeOK
  <2> HIDE DEF k
  <2> QED BY <1>3, <2>1 DEF Carried
<1> HIDE DEF i, k, r
<1>7. payload \in Payloads
  BY DEF IInv, TypeOK
<1>8. payload' \in Payloads
  BY <1>1, <1>2, <1>4, <1>6, <1>7
<1>9. Carrying'
  <2>1. Carrying /\ findings' = findings
    BY <1>1 DEF IInv
  <2>2. \A j \in Items, d \in Chains :
          payload'[j][d] = payload[j][d] \/ (j = i /\ d = Repair(k) /\ payload'[j][d] = r)
    BY <1>1, <1>2, <1>4, <1>7
  <2>3. \A j \in Items, d \in Chains : payload'[j][d].finding \in DOMAIN findings[j] \cup {NoFinding}
    BY <1>2, <1>6, <2>1, <2>2 DEF Carrying
  <2>4. \A j \in Items, n \in 1 .. MaxWinds : payload'[j][Wind(n)] = payload[j][Wind(n)]
    BY <1>4, <2>2, ChainsAre
  <2>5. \A j \in Items, n \in 1 .. MaxWinds :
          /\ Implement(j, Wind(n)) \in Jobs
          /\ Implement(j, Wind(n)) # Implement(i, Repair(k))
    BY <1>2, <1>4, JobsOf, ChainsAre
  <2>6. \A j \in Items, n \in 1 .. MaxWinds : st'[Implement(j, Wind(n))] = st[Implement(j, Wind(n))]
    BY <1>1, <1>5, <2>5 DEF Enqueue, Table!Offer, IInv, TypeOK
  <2> QED BY <2>1, <2>3, <2>4, <2>6 DEF Carrying
<1>10. Inserts /\ "ready" \in Outcomes /\ faults' \in 0 .. MaxFaults
  BY <1>1, <1>5 DEF Inserts, Outcomes, IInv, TypeOK
<1>11. demo' \in BOOLEAN
  <2>1. demo \in BOOLEAN
    BY DEF IInv, TypeOK
  <2> QED BY <1>1, <2>1
<1>12. /\ UNCHANGED <<ledger, grant, phase, green, lock>>
       /\ run[w].at \notin {"idle", "unlock", "settle"}
  BY <1>1
<1> QED BY <1>1, <1>8, <1>9, <1>10, <1>11, <1>12, ReturnSafe

-----------------------------------------------------------------------------
(* Handlers that go on                                                     *)

\* The record of a worker after a step, and the rest of the table.
LEMMA Going ==
  ASSUME IInv, NEW w \in Workers, run[w].at # "idle",
         NEW r \in RunRecords, r.at # "idle", run' = [run EXCEPT ![w] = r],
         UNCHANGED table, faults' = faults
  PROVE  Steps(w) /\ run'[w] = r
<1>1. run \in [Workers -> RunRecords] /\ faults \in 0 .. MaxFaults
  BY LedgerIs DEF IInv
<1> QED BY <1>1 DEF Steps, Inserts

\* A step that leaves the ledger, the payloads and the project alone.
LEMMA GoSafe ==
  ASSUME IInv, NEW w \in Workers, run[w].at # "idle",
         NEW r \in RunRecords, r.at # "idle", run' = [run EXCEPT ![w] = r],
         UNCHANGED <<table, ledger, payload, grant, phase, faults>>,
         green \subseteq green', green' \subseteq Items, demo' \in BOOLEAN,
         lock' \in Workers \cup {NoWorker},
         \A v \in Workers \ {w} : lock' = v <=> lock = v,
         lock' = w <=> Merging(w)',
         Placed(w)' /\ Informed(w)' /\ Advanced(w)'
  PROVE  IInv'
<1>1. Steps(w)
  BY Going
<1>2. LedgerTyped'
  BY LedgerIs DEF IInv, LedgerTyped
<1>3. Carrying' /\ IntegrateRoundsBounded'
  BY CarryingKeeps, RoundsKeep
<1>4. \A i \in Items : /\ DOMAIN findings[i] \subseteq DOMAIN findings'[i]
                       /\ Raised(i, "integrate")' = Raised(i, "integrate")
  BY DEF Raised
<1>5. UNCHANGED grant /\ (phase' = "REVIEW" => phase = "REVIEW" \/ Earned)
  OBVIOUS
<1> QED BY <1>1, <1>2, <1>3, <1>4, <1>5, StepSafe

\* Only the free lock is taken, so only one worker is at the branch.
LEMMA TakeLockSafe ==
  ASSUME IInv, NEW w \in Workers, TakeLock(w)
  PROVE  IInv'
<1> DEFINE r == [run[w] EXCEPT !.at = "checking"]
<1>1. /\ run[w].at = "start" /\ Kind(doing[w]) = "integrate" /\ lock = NoWorker /\ lock' = w
      /\ run' = [run EXCEPT ![w] = r]
      /\ UNCHANGED <<table, ledger, payload, grant, project, faults>>
  BY DEF TakeLock, At, Goto
<1>2. r \in RunRecords /\ r.at = "checking"
  BY LedgerIs DEF IInv, RunRecords, Places
<1>3. run \in [Workers -> RunRecords]
  BY LedgerIs DEF IInv
<1> HIDE DEF r
<1>4. run'[w] = r
  BY <1>1, <1>3
<1>5. doing[w] # NoJob /\ st[doing[w]] # "absent"
  BY <1>1, AtWork
<1>6. /\ Placed(w)' /\ Informed(w)' /\ Advanced(w)' /\ Merging(w)'
  BY <1>1, <1>2, <1>4, <1>5 DEF Placed, Informed, Advanced, Merging
<1>7. green' \subseteq Items /\ demo' \in BOOLEAN
  BY <1>1 DEF IInv, TypeOK
<1> QED BY <1>1, <1>2, <1>6, <1>7, GoSafe

\* The lock goes as the handler leaves the branch.
LEMMA UnlockSafe ==
  ASSUME IInv, NEW w \in Workers, Unlock(w)
  PROVE  IInv'
<1> DEFINE r == [run[w] EXCEPT !.at = "settle"]
<1>1. /\ run[w].at = "unlock" /\ lock' = NoWorker
      /\ run' = [run EXCEPT ![w] = r]
      /\ UNCHANGED <<table, ledger, payload, grant, project, faults>>
  BY DEF Unlock, Goto
<1>2. r \in RunRecords /\ r.at = "settle" /\ r.out = run[w].out
  BY LedgerIs DEF IInv, RunRecords, Places
<1>3. run \in [Workers -> RunRecords]
  BY LedgerIs DEF IInv
<1> HIDE DEF r
<1>4. run'[w] = r
  BY <1>1, <1>3
<1>5. /\ doing[w] # NoJob /\ doing[w] \in Jobs /\ st[doing[w]] # "absent" /\ Advanced(w)
      /\ lock = w
  BY <1>1, AtWork DEF Placed, Merging
<1>6. run[w].out = "succeeded" => Followed(doing[w])'
  BY <1>1, <1>5 DEF Advanced, Followed
<1>7. Placed(w)' /\ Informed(w)' /\ Advanced(w)' /\ ~Merging(w)'
  BY <1>1, <1>2, <1>4, <1>5, <1>6 DEF Placed, Informed, Advanced, Merging
<1>8. green' \subseteq Items /\ demo' \in BOOLEAN
  BY <1>1 DEF IInv, TypeOK
<1>9. \A v \in Workers \ {w} : lock' = v <=> lock = v
  BY <1>1, <1>5
<1>10. lock' # w
  BY <1>1
<1> QED BY <1>1, <1>2, <1>7, <1>8, <1>9, <1>10, GoSafe

\* Decomposition counts the rows it has inserted.
LEMMA FanOutSafe ==
  ASSUME IInv, NEW w \in Workers, FanOut(w)
  PROVE  IInv'
<1> DEFINE a == run[w].arg + 1
           j == Implement(Order[a], Root)
           r == [run[w] EXCEPT !.arg = a]
<1>1. /\ run[w].at = "start" /\ Kind(doing[w]) = "decompose" /\ run[w].arg < Len(Order)
      /\ Enqueue(j) /\ run' = [run EXCEPT ![w] = r]
      /\ UNCHANGED <<ledger, payload, grant, project, lock, faults>>
  BY DEF FanOut, At
<1>2. run \in [Workers -> RunRecords] /\ faults \in 0 .. MaxFaults
  BY LedgerIs DEF IInv
<1>3. run[w].arg \in Nat /\ Len(Order) \in Nat /\ a \in 1 .. Len(Order)
  BY <1>1, <1>2, ItemsAssumption DEF RunRecords
<1>4. r \in RunRecords /\ r.at = "start" /\ r.arg = a
  <2>1. a \in Nat /\ run[w] \in RunRecords
    BY <1>2, <1>3
  <2> HIDE DEF a
  <2> QED BY <1>1, <2>1 DEF RunRecords
<1>5. Order[a] \in Items
  BY <1>3, ItemsAssumption
<1>6. j \in Jobs \ {Decompose} /\ \A n \in 1 .. Len(Order) : Implement(Order[n], Root) \in Jobs
  BY <1>5, JobsOf, ChainsAre, ItemsAssumption
<1>7. /\ doing[w] # NoJob /\ Advanced(w) /\ st[Decompose] # "absent" /\ st[doing[w]] # "absent"
      /\ lock = w <=> Merging(w)
  BY <1>1, AtWork
<1>8. st'[j] # "absent" /\ \A k \in Jobs : k # j => st'[k] = st[k]
  BY <1>1, <1>6 DEF Enqueue, Table!Offer, IInv, TypeOK
<1>9. \A n \in 1 .. a : st'[Implement(Order[n], Root)] # "absent"
  <2> SUFFICES ASSUME NEW n \in 1 .. a PROVE st'[Implement(Order[n], Root)] # "absent"
    OBVIOUS
  <2>1. n = a \/ n \in 1 .. run[w].arg
    BY <1>3
  <2>2. Implement(Order[n], Root) \in Jobs
    BY <1>3, <1>6
  <2>3. n \in 1 .. run[w].arg => st[Implement(Order[n], Root)] # "absent"
    BY <1>1, <1>7 DEF Advanced
  <2> QED BY <1>8, <2>1, <2>2, <2>3
<1>10. Inserts
  BY <1>1, <1>6 DEF Inserts
<1>11. UNCHANGED doing
  BY <1>7, <1>10, Inserting
<1> HIDE DEF r, j
<1>12. run'[w] = r /\ Steps(w)
  BY <1>1, <1>2, <1>4, <1>10 DEF Steps
<1>13. Placed(w)' /\ Informed(w)' /\ (lock' = w <=> Merging(w)')
  <2>1. doing[w] \in Jobs
    BY <1>1, AtWork
  <2>2. st'[doing[w]] # "absent"
    BY <1>7, <1>8, <2>1
  <2> QED BY <1>1, <1>4, <1>7, <1>11, <1>12, <2>2 DEF Placed, Informed, Merging
<1>14. Advanced(w)'
  BY <1>3, <1>4, <1>9, <1>12 DEF Advanced
<1>15. Carrying'
  <2>1. \A i \in Items, n \in 1 .. MaxWinds :
          Implement(i, Wind(n)) \in Jobs /\ Implement(i, Wind(n)) # j
    BY <1>5, JobsOf, ChainsAre DEF j
  <2> QED BY <1>1, <1>8, <2>1, CarryingKeeps
<1>16. LedgerTyped'
  BY <1>1, LedgerIs DEF IInv, LedgerTyped
<1>17. \A i \in Items : /\ DOMAIN findings[i] \subseteq DOMAIN findings'[i]
                        /\ Raised(i, "integrate")' = Raised(i, "integrate")
  BY <1>1 DEF Raised
<1>18. IntegrateRoundsBounded'
  BY <1>1, RoundsKeep
<1> QED BY <1>1, <1>12, <1>13, <1>14, <1>15, <1>16, <1>17, <1>18, StepSafe

-----------------------------------------------------------------------------
(* The ledger                                                              *)

\* The findings raised and open are positions of the ledger.
LEMMA RaisedIs ==
  ASSUME TypeOK, NEW i \in Items, NEW class
  PROVE  /\ Raised(i, class) \subseteq DOMAIN findings[i]
         /\ OpenFindings(i, class) \subseteq DOMAIN findings[i]
         /\ DOMAIN findings[i] = 1 .. Len(findings[i]) /\ Len(findings[i]) \in Nat
         /\ IsFiniteSet(Raised(i, class)) /\ Cardinality(Raised(i, class)) \in Nat
<1>1. DOMAIN findings[i] = 1 .. Len(findings[i]) /\ Len(findings[i]) \in Nat
  BY DEF TypeOK
<1>2. Raised(i, class) \subseteq DOMAIN findings[i]
  BY DEF Raised
<1>3. IsFiniteSet(Raised(i, class))
  <2>1. IsFiniteSet(1 .. Len(findings[i]))
    <3>1. 1 \in Int /\ Len(findings[i]) \in Int
      BY <1>1
    <3> QED BY ONLY <3>1, FS_Interval
  <2>2. Raised(i, class) \in SUBSET (1 .. Len(findings[i]))
    BY <1>1, <1>2
  <2> QED BY <2>1, <2>2, FS_Subset
<1> QED BY <1>1, <1>2, <1>3, FS_CardinalityType DEF OpenFindings

\* A finding that is raised comes after all others of its item, and counts for its class.
LEMMA Appending ==
  ASSUME TypeOK, NEW i \in Items, NEW class \in Classes,
         findings' = [findings EXCEPT ![i] = Append(@, class)]
  PROVE  /\ findings' \in [Items -> Seq(Classes)]
         /\ \A k \in Items : DOMAIN findings[k] \subseteq DOMAIN findings'[k]
         /\ Len(findings'[i]) = Len(findings[i]) + 1
         /\ \A k \in Items \ {i} : findings'[k] = findings[k]
         /\ Raised(i, "integrate")' =
              Raised(i, "integrate") \cup (IF class = "integrate" THEN {Len(findings[i]) + 1} ELSE {})
<1>1. findings \in [Items -> Seq(Classes)]
  BY DEF TypeOK
<1> DEFINE s == findings[i]
<1>2. s \in Seq(Classes) /\ Append(s, class) \in Seq(Classes)
  BY <1>1
<1>3. findings'[i] = Append(s, class) /\ \A k \in Items \ {i} : findings'[k] = findings[k]
  BY <1>1
<1>4. /\ Len(Append(s, class)) = Len(s) + 1
      /\ DOMAIN Append(s, class) = DOMAIN s \cup {Len(s) + 1}
      /\ \A k \in DOMAIN s : Append(s, class)[k] = s[k]
      /\ Append(s, class)[Len(s) + 1] = class
  BY <1>2
<1>5. findings' \in [Items -> Seq(Classes)]
  BY <1>1, <1>2
<1>6. Raised(i, "integrate")' =
        Raised(i, "integrate") \cup (IF class = "integrate" THEN {Len(s) + 1} ELSE {})
  <2>1. Len(s) + 1 \notin DOMAIN s
    BY <1>2
  <2> HIDE DEF s
  <2>2. s = findings[i]
    BY DEF s
  <2> QED BY <1>3, <1>4, <2>1, <2>2 DEF Raised
<1> QED BY <1>3, <1>4, <1>5, <1>6

\* Checks run in verify, and in integrate behind the lock.
LEMMA AtChecks ==
  ASSUME IInv, NEW w \in Workers, Checking(w)
  PROVE  /\ run[w].at # "idle" /\ Kind(doing[w]) \in Classes
         /\ lock = w <=> Kind(doing[w]) = "integrate"
         /\ run[w] \in RunRecords /\ Item(w) \in Items
<1>1. run[w].at # "idle" /\ Kind(doing[w]) \in Classes /\ doing[w] # NoJob
  BY DEF Checking, At
<1>2. (lock = w <=> Merging(w)) /\ Item(w) \in Items
  BY <1>1, AtWork
<1>3. run[w] \in RunRecords
  BY LedgerIs DEF IInv
<1> QED BY <1>1, <1>2, <1>3 DEF Checking, At, Merging

\* Checks that fail read the ledger: what they read is there.
LEMMA ChecksFailSafe ==
  ASSUME IInv, NEW w \in Workers, ChecksFail(w)
  PROVE  IInv'
<1> DEFINE class == Kind(doing[w])
           i == Item(w)
           r == [run[w] EXCEPT !.at = "failed", !.open = OpenFindings(i, class),
                               !.raised = Cardinality(Raised(i, class))]
<1>1. /\ Checking(w) /\ run' = [run EXCEPT ![w] = r]
      /\ UNCHANGED <<table, ledger, payload, grant, project, lock, faults>>
  BY DEF ChecksFail
<1>2. /\ run[w].at # "idle" /\ class \in Classes /\ (lock = w <=> class = "integrate")
      /\ run[w] \in RunRecords /\ i \in Items
  BY <1>1, AtChecks
<1>3. OpenFindings(i, class) \subseteq Findings
  BY <1>2, RaisedIs DEF IInv, Carrying
<1>4. Cardinality(Raised(i, class)) \in Nat
  BY <1>2, RaisedIs DEF IInv
<1>5. r \in RunRecords /\ r.at = "failed" /\ r.raised = Cardinality(Raised(i, class))
  BY <1>2, <1>3, <1>4 DEF RunRecords, Places
<1>6. run \in [Workers -> RunRecords]
  BY LedgerIs DEF IInv
<1>7. doing[w] # NoJob /\ st[doing[w]] # "absent"
  BY <1>2, AtWork
<1> HIDE DEF r
<1>8. run'[w] = r
  BY <1>1, <1>6
<1>9. Placed(w)' /\ Advanced(w)' /\ (lock' = w <=> Merging(w)')
  BY <1>1, <1>2, <1>5, <1>7, <1>8 DEF Placed, Advanced, Merging
<1>10. Informed(w)'
  BY <1>1, <1>5, <1>8 DEF Informed, Raised, Item
<1>11. green' \subseteq Items /\ demo' \in BOOLEAN /\ lock' \in Workers \cup {NoWorker}
  BY <1>1 DEF IInv, TypeOK
<1> QED BY <1>1, <1>2, <1>5, <1>9, <1>10, <1>11, GoSafe

\* Checks that pass on the merged branch make the item green.
LEMMA ChecksPassSafe ==
  ASSUME IInv, NEW w \in Workers, ChecksPass(w)
  PROVE  IInv'
<1> DEFINE class == Kind(doing[w])
           i == Item(w)
           r == [run[w] EXCEPT !.at = "passed", !.open = OpenFindings(i, class)]
<1>1. /\ Checking(w) /\ run' = [run EXCEPT ![w] = r]
      /\ green' = (IF class = "integrate" THEN green \cup {i} ELSE green)
      /\ UNCHANGED <<table, ledger, payload, grant, phase, demo, lock, faults>>
  BY DEF ChecksPass
<1>2. /\ run[w].at # "idle" /\ class \in Classes /\ (lock = w <=> class = "integrate")
      /\ run[w] \in RunRecords /\ i \in Items
  BY <1>1, AtChecks
<1>3. /\ OpenFindings(i, class) \subseteq Findings
      /\ OpenFindings(i, class) \subseteq DOMAIN findings[i]
  BY <1>2, RaisedIs DEF IInv, Carrying
<1>4. r \in RunRecords /\ r.at = "passed" /\ r.open = OpenFindings(i, class)
  BY <1>2, <1>3 DEF RunRecords, Places
<1>5. run \in [Workers -> RunRecords]
  BY LedgerIs DEF IInv
<1>6. doing[w] # NoJob /\ st[doing[w]] # "absent"
  BY <1>2, AtWork
<1> HIDE DEF r
<1>7. run'[w] = r
  BY <1>1, <1>5
<1>8. Placed(w)' /\ Advanced(w)' /\ (lock' = w <=> Merging(w)')
  BY <1>1, <1>2, <1>4, <1>6, <1>7 DEF Placed, Advanced, Merging, Item
<1>9. Informed(w)'
  BY <1>1, <1>3, <1>4, <1>7 DEF Informed, Item
<1>10. /\ green \subseteq green' /\ green' \subseteq Items /\ demo' \in BOOLEAN
       /\ lock' \in Workers \cup {NoWorker}
  BY <1>1, <1>2 DEF IInv, TypeOK
<1> QED BY <1>1, <1>2, <1>4, <1>8, <1>9, <1>10, GoSafe

Most == IF GrantedRounds > MaxRounds THEN GrantedRounds ELSE MaxRounds

\* One more integrate finding, where the rounds are not used up.
LEMMA RoundsRise ==
  ASSUME IInv, NEW i \in Items, NEW class \in Classes,
         findings' = [findings EXCEPT ![i] = Append(@, class)],
         class = "integrate" => Cardinality(Raised(i, "integrate")) < Most
  PROVE  IntegrateRoundsBounded'
<1> DEFINE R == Raised(i, "integrate")
           k == Len(findings[i]) + 1
<1>1. /\ R' = R \cup (IF class = "integrate" THEN {k} ELSE {})
      /\ \A j \in Items \ {i} : findings'[j] = findings[j]
  BY Appending DEF IInv
<1>2. \A j \in Items : Cardinality(Raised(j, "integrate")) <= Most
  BY DEF IInv, IntegrateRoundsBounded, Most
<1>3. IsFiniteSet(R) /\ Cardinality(R) \in Nat
  BY RaisedIs DEF IInv
<1>4. Most \in Nat
  BY DEF Most
<1> HIDE DEF R, k
<1>5. Cardinality(R \cup {k}) <= Cardinality(R) + 1 /\ Cardinality(R \cup {k}) \in Nat
  <2>1. Cardinality(R \cup {k}) = IF k \in R THEN Cardinality(R) ELSE Cardinality(R) + 1
    BY <1>3, FS_AddElement
  <2> QED BY <1>3, <2>1
<1>6. Cardinality(R') <= Most
  <2>1. CASE class = "integrate"
    <3>1. R' = R \cup {k}
      BY <1>1, <2>1
    <3>2. Cardinality(R) < Most
      BY <2>1 DEF R
    <3> QED BY <1>3, <1>4, <1>5, <3>1, <3>2
  <2>2. CASE class # "integrate"
    <3>1. R' = R
      BY <1>1, <2>2
    <3> QED BY <1>2, <3>1 DEF R
  <2> QED BY <2>1, <2>2
<1>7. \A j \in Items \ {i} : Raised(j, "integrate")' = Raised(j, "integrate")
  BY <1>1 DEF Raised
<1>8. \A j \in Items : Cardinality(Raised(j, "integrate")') <= Most
  BY <1>2, <1>6, <1>7 DEF R
<1> QED BY <1>8 DEF IntegrateRoundsBounded, Raised, Most

\* Only the worker that holds the lock raises a finding of integrate, and what it has
\* read is still the number of them.
LEMMA RaiseFindingSafe ==
  ASSUME IInv, NEW w \in Workers, RaiseFinding(w)
  PROVE  IInv'
<1>1. run[w].at = "failed"
  BY DEF RaiseFinding
<1>2. /\ doing[w] \in Jobs /\ doing[w] # NoJob /\ st[doing[w]] # "absent"
      /\ Kind(doing[w]) \in Classes /\ Item(w) \in Items
      /\ lock = w <=> Kind(doing[w]) = "integrate"
      /\ Kind(doing[w]) = "integrate" =>
           run[w].raised = Cardinality(Raised(Item(w), "integrate"))
  BY <1>1, AtWork DEF Placed, Informed, Merging
<1> SUFFICES ASSUME NEW i \in Items, NEW class \in Classes, NEW k,
                    i = Item(w), class = Kind(doing[w]), k = Len(findings[i]) + 1
             PROVE  IInv'
  BY <1>2
<1>3. /\ findings' = [findings EXCEPT ![i] = Append(@, class)]
      /\ UNCHANGED <<table, closed, payload, grant, project, lock, faults>>
      /\ Len(findings[i]) < MaxFindings
      /\ run[w].raised < Allowed(doing[w])
  BY DEF RaiseFinding
<1>4. /\ findings' \in [Items -> Seq(Classes)]
      /\ \A j \in Items : DOMAIN findings[j] \subseteq DOMAIN findings'[j]
      /\ Len(findings'[i]) = k
      /\ \A j \in Items \ {i} : findings'[j] = findings[j]
      /\ Raised(i, "integrate")' =
           Raised(i, "integrate") \cup (IF class = "integrate" THEN {k} ELSE {})
  BY <1>3, Appending DEF IInv
<1> DEFINE r == [run[w] EXCEPT !.at = "raised", !.arg = k]
<1>5. run' = [run EXCEPT ![w] = r]
  BY <1>4 DEF RaiseFinding
<1>6. /\ run \in [Workers -> RunRecords] /\ run[w] \in RunRecords
      /\ Len(findings[i]) \in Nat /\ TypeOK
  BY LedgerIs, RaisedIs DEF IInv
<1>7. k \in DOMAIN findings'[i] /\ k \in Nat
  BY <1>4, <1>6
<1>8. r \in RunRecords /\ r.at = "raised" /\ r.arg = k
  BY <1>6, <1>7 DEF RunRecords, Places
<1> HIDE DEF r
<1>9. Steps(w) /\ run'[w] = r
  BY <1>1, <1>3, <1>5, <1>8, Going
<1>10. LedgerTyped'
  <2>1. LedgerTyped
    BY LedgerIs DEF IInv
  <2> QED BY <1>3, <1>4, <2>1 DEF LedgerTyped
<1>11. Carrying'
  <2>1. \A j \in Items : Len(findings'[j]) <= MaxFindings
    BY <1>3, <1>4, <1>6 DEF IInv, Carrying
  <2> QED BY <1>3, <1>4, <2>1 DEF IInv, Carrying
<1>12. \A j \in Items : lock # w => Raised(j, "integrate")' = Raised(j, "integrate")
  <2>1. \A j \in Items \ {i} : Raised(j, "integrate")' = Raised(j, "integrate")
    BY <1>4 DEF Raised
  <2> QED BY <1>2, <1>4, <2>1
<1>13. Placed(w)' /\ Advanced(w)' /\ (lock' = w <=> Merging(w)')
  BY <1>1, <1>2, <1>3, <1>8, <1>9 DEF Placed, Advanced, Merging
<1>14. Informed(w)'
  BY <1>3, <1>7, <1>8, <1>9 DEF Informed, Item
<1>15. IntegrateRoundsBounded'
  <2>1. grant[doing[w]] \in {0, GrantedRounds}
    BY <1>2 DEF IInv, TypeOK
  <2>2. Allowed(doing[w]) \in Nat /\ Allowed(doing[w]) <= Most /\ Most \in Nat
    BY <2>1 DEF Allowed, Most
  <2>3. Cardinality(Raised(i, "integrate")) \in Nat
    BY RaisedIs DEF IInv
  <2>4. class = "integrate" => Cardinality(Raised(i, "integrate")) < Most
    BY <1>2, <1>3, <2>2, <2>3
  <2> QED BY <1>3, <2>4, RoundsRise
<1>16. /\ green \subseteq green' /\ UNCHANGED grant
       /\ phase' = "REVIEW" => phase = "REVIEW" \/ Earned
       /\ \A v \in Workers \ {w} : lock' = v <=> lock = v
  BY <1>3
<1> QED BY <1>4, <1>9, <1>10, <1>11, <1>12, <1>13, <1>14, <1>15, <1>16, StepSafe

-----------------------------------------------------------------------------
(* Repairs and reviews                                                     *)

\* A session completes; a repair closes the finding it carries.
LEMMA CompleteSafe ==
  ASSUME IInv, NEW w \in Workers, Complete(w)
  PROVE  IInv'
<1> DEFINE i == Item(w)
           f == Carried(w).finding
           r == [run[w] EXCEPT !.at = "built"]
<1>1. /\ run[w].at = "start" /\ Kind(doing[w]) = "implement"
      /\ closed' = [closed EXCEPT ![i] = @ \cup ({f} \ {NoFinding})]
      /\ run' = [run EXCEPT ![w] = r]
      /\ UNCHANGED <<table, findings, payload, grant, project, lock, faults>>
  BY DEF Complete, At, Goto
<1>2. /\ i \in Items /\ Chain(w) \in Chains /\ doing[w] # NoJob /\ st[doing[w]] # "absent"
      /\ lock # w
  BY <1>1, AtWork DEF Merging
<1>3. f \in DOMAIN findings[i] \cup {NoFinding} /\ f \in Findings \cup {NoFinding}
  BY <1>2 DEF Carried, IInv, TypeOK, Carrying
<1>4. run[w] \in RunRecords /\ LedgerTyped
  BY LedgerIs DEF IInv
<1>5. r \in RunRecords /\ r.at = "built"
  BY <1>4 DEF RunRecords, Places
<1> HIDE DEF i, f, r
<1>6. Steps(w) /\ run'[w] = r
  BY <1>1, <1>5, Going
<1>7. /\ closed' \in [Items -> SUBSET Findings]
      /\ \A k \in Items : closed'[k] \subseteq DOMAIN findings[k]
  BY <1>1, <1>2, <1>3, <1>4 DEF LedgerTyped
<1>8. LedgerTyped'
  BY <1>1, <1>4, <1>7 DEF LedgerTyped
<1>9. Carrying' /\ IntegrateRoundsBounded'
  BY <1>1, CarryingKeeps, RoundsKeep
<1>10. Placed(w)' /\ Informed(w)' /\ Advanced(w)' /\ (lock' = w <=> Merging(w)')
  BY <1>1, <1>2, <1>5, <1>6 DEF Placed, Informed, Advanced, Merging
<1>11. \A k \in Items : /\ DOMAIN findings[k] \subseteq DOMAIN findings'[k]
                        /\ Raised(k, "integrate")' = Raised(k, "integrate")
  BY <1>1 DEF Raised
<1>12. /\ green \subseteq green' /\ UNCHANGED grant
       /\ phase' = "REVIEW" => phase = "REVIEW" \/ Earned
       /\ \A v \in Workers \ {w} : lock' = v <=> lock = v
  BY <1>1
<1> QED BY <1>6, <1>8, <1>9, <1>10, <1>11, <1>12, StepSafe

\* What a check that passed has seen open is closed.
LEMMA ResolveSeenSafe ==
  ASSUME IInv, NEW w \in Workers, ResolveSeen(w)
  PROVE  IInv'
<1> DEFINE i == Item(w)
           r == [run[w] EXCEPT !.at = "resolved"]
<1>1. /\ run[w].at = "passed"
      /\ closed' = [closed EXCEPT ![i] = @ \cup run[w].open]
      /\ run' = [run EXCEPT ![w] = r]
      /\ UNCHANGED <<table, findings, payload, grant, project, lock, faults>>
  BY DEF ResolveSeen, Goto
<1>2. /\ doing[w] # NoJob /\ st[doing[w]] # "absent" /\ Kind(doing[w]) \in Classes
      /\ i \in Items /\ run[w].open \subseteq DOMAIN findings[i]
      /\ lock = w <=> Kind(doing[w]) = "integrate"
      /\ Kind(doing[w]) = "integrate" => i \in green
  BY <1>1, AtWork DEF Placed, Informed, Advanced, Merging
<1>3. run[w] \in RunRecords /\ LedgerTyped
  BY LedgerIs DEF IInv
<1>4. r \in RunRecords /\ r.at = "resolved" /\ run[w].open \subseteq Findings
  BY <1>3 DEF RunRecords, Places
<1>5. Item(w)' = i
  BY <1>1 DEF Item
<1> HIDE DEF i, r
<1>6. Steps(w) /\ run'[w] = r
  BY <1>1, <1>4, Going
<1>7. /\ closed' \in [Items -> SUBSET Findings]
      /\ \A k \in Items : closed'[k] \subseteq DOMAIN findings[k]
  BY <1>1, <1>2, <1>3, <1>4 DEF LedgerTyped
<1>8. LedgerTyped'
  BY <1>1, <1>3, <1>7 DEF LedgerTyped
<1>9. Carrying' /\ IntegrateRoundsBounded'
  BY <1>1, CarryingKeeps, RoundsKeep
<1>10. Placed(w)' /\ Informed(w)' /\ Advanced(w)' /\ (lock' = w <=> Merging(w)')
  BY <1>1, <1>2, <1>4, <1>5, <1>6 DEF Placed, Informed, Advanced, Merging
<1>11. \A k \in Items : /\ DOMAIN findings[k] \subseteq DOMAIN findings'[k]
                        /\ Raised(k, "integrate")' = Raised(k, "integrate")
  BY <1>1 DEF Raised
<1>12. /\ green \subseteq green' /\ UNCHANGED grant
       /\ phase' = "REVIEW" => phase = "REVIEW" \/ Earned
       /\ \A v \in Workers \ {w} : lock' = v <=> lock = v
  BY <1>1
<1> QED BY <1>6, <1>8, <1>9, <1>10, <1>11, <1>12, StepSafe

\* An item of which no job is unsettled was merged, or a job of it failed: from its first
\* row, each that succeeded leads to another, and the last wind-down to no later one.
LEMMA ItemSettled ==
  ASSUME IInv, NEW i \in Items, st[Decompose] = "succeeded",
         \A j \in Jobs : j # Decompose /\ j[2] = i => ~Unsettled(j),
         \A j \in Jobs : j # Decompose /\ j[2] = i => st[j] # "failed"
  PROVE  i \in green
<1> DEFINE I(c) == Implement(i, c)
<1>1. \A c \in Chains :
        /\ {I(c), Verify(i, c), Integrate(i, c)} \subseteq Jobs \ {Decompose}
        /\ Kind(I(c)) = "implement" /\ Kind(Verify(i, c)) = "verify"
        /\ Kind(Integrate(i, c)) = "integrate"
        /\ \A j \in {I(c), Verify(i, c), Integrate(i, c)} : j[2] = i /\ j[3] = c
  BY JobsOf
<1>2. \A j \in Jobs : j # Decompose /\ j[2] = i => st[j] \in {"absent", "succeeded"}
  BY DEF Unsettled, IInv, TypeOK
<1>3. \A j \in Jobs : st[j] = "succeeded" => Followed(j)
  BY DEF IInv, Tabled
<1>4. \A c \in Chains : st[Verify(i, c)] # "absent" => i \in green
  <2> SUFFICES ASSUME NEW c \in Chains, st[Verify(i, c)] # "absent" PROVE i \in green
    OBVIOUS
  <2>1. st[Verify(i, c)] = "succeeded"
    BY <1>1, <1>2
  <2>2. st[Integrate(i, c)] # "absent"
    BY <1>1, <1>3, <2>1 DEF Followed
  <2>3. st[Integrate(i, c)] = "succeeded"
    BY <1>1, <1>2, <2>2
  <2> QED BY <1>1, <1>3, <2>3 DEF Followed
<1>5. \A c \in Chains : st[I(c)] # "absent" =>
        \/ i \in green
        \/ \E n \in 1 .. MaxWinds : Later(c, n) /\ st[I(Wind(n))] # "absent"
  <2> SUFFICES ASSUME NEW c \in Chains, st[I(c)] # "absent"
               PROVE  \/ i \in green
                      \/ \E n \in 1 .. MaxWinds : Later(c, n) /\ st[I(Wind(n))] # "absent"
    OBVIOUS
  <2>1. Followed(I(c))
    BY <1>1, <1>2, <1>3
  <2>2. Kind(I(c)) = "implement" /\ I(c)[2] = i /\ I(c)[3] = c
    BY <1>1
  <2>3. \/ st[Verify(i, c)] # "absent"
        \/ \E n \in 1 .. MaxWinds : Later(c, n) /\ st[I(Wind(n))] # "absent"
    BY <2>1, <2>2 DEF Followed
  <2> QED BY <1>4, <2>3
<1>6. st[I(Root)] # "absent"
  BY <1>3, DecomposeIs DEF Followed
<1> DEFINE W == {n \in 1 .. MaxWinds : st[I(Wind(n))] # "absent"}
<1>7. CASE W = {}
  BY <1>5, <1>6, <1>7, ChainsAre
<1>8. CASE W # {}
  <2>1. MaxWinds \in Nat /\ W \in SUBSET (1 .. MaxWinds)
    OBVIOUS
  <2>2. PICK m \in W : \A n \in W : n <= m
    BY <1>8, <2>1, Greatest
  <2>3. Wind(m) \in Chains
    BY <2>1, <2>2, ChainsAre
  <2>4. \A n \in W : ~Later(Wind(m), n)
    <3> SUFFICES ASSUME NEW n \in W, Later(Wind(m), n) PROVE FALSE
      OBVIOUS
    <3>1. m < n /\ m \in Nat /\ n \in Nat
      BY <2>1, <2>2 DEF Later
    <3> QED BY <2>2, <3>1
  <2> QED BY <1>5, <2>2, <2>3, <2>4
<1> QED BY <1>7, <1>8

\* The last job of BUILD: what it counted shows that the review is earned.
LEMMA CountedIsEarned ==
  ASSUME IInv, NEW w \in Workers, At(w, "integrate", "resolved"), Remaining(doing[w]) = {}
  PROVE  Earned
<1>1. /\ run[w].at = "resolved" /\ Kind(doing[w]) = "integrate"
  BY DEF At
<1>2. /\ doing[w] \in Jobs /\ doing[w][2] \in green /\ st[Decompose] # "absent"
  BY <1>1, AtWork DEF Advanced, Item
<1>3. \A j \in Jobs : j # doing[w] => ~Unsettled(j)
  BY DEF Remaining
<1>4. doing[w] # Decompose
  BY <1>1, DecomposeIs
<1>5. st[Decompose] \in {"succeeded", "failed"}
  BY <1>2, <1>3, <1>4, DecomposeIs DEF Unsettled, IInv, TypeOK
<1>6. ASSUME NEW i \in Items, i \notin green, st[Decompose] # "failed",
             ~ \E j \in Jobs \ {Decompose} : j[2] = i /\ st[j] = "failed"
      PROVE  FALSE
  <2>1. \A j \in Jobs : j # Decompose /\ j[2] = i => ~Unsettled(j) /\ st[j] # "failed"
    BY <1>2, <1>3, <1>6
  <2> QED BY <1>5, <1>6, <2>1, ItemSettled
<1> QED BY <1>5, <1>6 DEF Earned

\* The count: other jobs are left, or the review is earned.
LEMMA CountUnsettledSafe ==
  ASSUME IInv, NEW w \in Workers, CountUnsettled(w)
  PROVE  IInv'
<1> DEFINE r == [run[w] EXCEPT !.at = "last"]
<1>1. /\ run[w].at = "resolved" /\ Kind(doing[w]) = "integrate" /\ At(w, "integrate", "resolved")
      /\ UNCHANGED <<table, ledger, payload, grant, project, lock, faults>>
  BY DEF CountUnsettled, At
<1>2. /\ doing[w] # NoJob /\ doing[w] \in Jobs /\ st[doing[w]] # "absent" /\ Item(w) \in green
      /\ lock = w
  BY <1>1, AtWork DEF Advanced, Merging
<1>3. CASE Return(w, "succeeded")
  <2>1. \A j \in Jobs : j = doing[w] => Followed(j)
    BY <1>1, <1>2 DEF Followed, Item
  <2>2. "succeeded" \in Outcomes /\ faults' \in 0 .. MaxFaults
    BY <1>1 DEF Outcomes, IInv, TypeOK
  <2> QED BY <1>1, <1>3, <2>1, <2>2, QuietReturn
<1>4. CASE Remaining(doing[w]) = {} /\ Goto(w, "last")
  <2>1. Earned
    BY <1>1, <1>4, CountedIsEarned
  <2>2. r \in RunRecords /\ r.at = "last" /\ run \in [Workers -> RunRecords]
    BY LedgerIs DEF IInv, RunRecords, Places
  <2>3. run' = [run EXCEPT ![w] = r]
    BY <1>4 DEF Goto
  <2> HIDE DEF r
  <2>4. run'[w] = r
    BY <2>2, <2>3
  <2>5. Earned' /\ Item(w)' \in green'
    BY <1>1, <1>2, <2>1 DEF Earned, Item
  <2>6. Placed(w)' /\ Informed(w)' /\ Advanced(w)' /\ (lock' = w <=> Merging(w)')
    BY <1>1, <1>2, <2>2, <2>4, <2>5 DEF Placed, Informed, Advanced, Merging
  <2>7. green' \subseteq Items /\ demo' \in BOOLEAN /\ lock' \in Workers \cup {NoWorker}
    BY <1>1 DEF IInv, TypeOK
  <2> QED BY <1>1, <2>2, <2>3, <2>6, <2>7, GoSafe
<1> QED BY <1>3, <1>4 DEF CountUnsettled

\* REVIEW is entered only by a worker that counted nothing unsettled.
LEMMA EnterReviewSafe ==
  ASSUME IInv, NEW w \in Workers, EnterReview(w)
  PROVE  IInv'
<1> DEFINE r == [run[w] EXCEPT !.at = "entered"]
<1>1. /\ run[w].at = "last" /\ Kind(doing[w]) = "integrate"
      /\ phase' = Transitioned("BUILD", "REVIEW") /\ run' = [run EXCEPT ![w] = r]
      /\ UNCHANGED <<table, ledger, payload, grant, demo, green, lock, faults>>
  BY DEF EnterReview, At, Goto
<1>2. /\ doing[w] # NoJob /\ doing[w] \in Jobs /\ st[doing[w]] # "absent" /\ Item(w) \in green
      /\ lock = w /\ Earned
  BY <1>1, AtWork DEF Advanced, Merging
<1>3. r \in RunRecords /\ r.at = "entered" /\ run \in [Workers -> RunRecords] /\ LedgerTyped
  BY LedgerIs DEF IInv, RunRecords, Places
<1> HIDE DEF r
<1>4. Steps(w) /\ run'[w] = r
  BY <1>1, <1>3, Going
<1>5. LedgerTyped'
  BY <1>1, <1>3 DEF LedgerTyped, Transitioned
<1>6. Earned' /\ Item(w)' \in green'
  BY <1>1, <1>2 DEF Earned, Item
<1>7. Placed(w)' /\ Informed(w)' /\ Advanced(w)' /\ (lock' = w <=> Merging(w)')
  BY <1>1, <1>2, <1>3, <1>4, <1>6 DEF Placed, Informed, Advanced, Merging
<1>8. Carrying' /\ IntegrateRoundsBounded'
  BY <1>1, CarryingKeeps, RoundsKeep
<1>9. \A k \in Items : /\ DOMAIN findings[k] \subseteq DOMAIN findings'[k]
                       /\ Raised(k, "integrate")' = Raised(k, "integrate")
  BY <1>1 DEF Raised
<1>10. /\ green \subseteq green' /\ UNCHANGED grant
       /\ \A v \in Workers \ {w} : lock' = v <=> lock = v
  BY <1>1
<1> QED BY <1>2, <1>4, <1>5, <1>7, <1>8, <1>9, <1>10, StepSafe

\* build.integrate returns behind the demo, with its item green.
LEMMA EnqueueDemoSafe ==
  ASSUME IInv, NEW w \in Workers, EnqueueDemo(w)
  PROVE  IInv'
<1>1. /\ run[w].at = "entered" /\ Kind(doing[w]) = "integrate"
      /\ Return(w, "succeeded") /\ demo' = TRUE
      /\ UNCHANGED <<table, ledger, payload, grant, phase, green, lock, faults>>
  BY DEF EnqueueDemo, At
<1>2. Item(w) \in green
  BY <1>1, AtWork DEF Advanced
<1>3. \A j \in Jobs : j = doing[w] => Followed(j)'
  BY <1>1, <1>2 DEF Followed, Item
<1>4. Inserts /\ "succeeded" \in Outcomes /\ faults' \in 0 .. MaxFaults /\ Carrying'
  BY <1>1, CarryingKeeps DEF Inserts, Outcomes, IInv, TypeOK
<1>5. payload' \in Payloads
  BY <1>1 DEF IInv, TypeOK
<1> QED BY <1>1, <1>3, <1>4, <1>5, ReturnSafe

-----------------------------------------------------------------------------
(* The worker loop                                                         *)

\* What a step of the worker loop leaves alone.
LEMMA LoopKeeps ==
  ASSUME IInv, UNCHANGED <<ledger, payload, project>>,
         \A i \in Items, n \in 1 .. MaxWinds :
           st'[Implement(i, Wind(n))] # "absent" => st[Implement(i, Wind(n))] # "absent"
  PROVE  /\ Carrying' /\ IntegrateRoundsBounded'
         /\ \A i \in Items : /\ DOMAIN findings[i] \subseteq DOMAIN findings'[i]
                             /\ Raised(i, "integrate")' = Raised(i, "integrate")
         /\ green \subseteq green' /\ phase' = phase
BY CarryingKeeps, RoundsKeep DEF Raised

\* A row that is not settled changes its state, by none of the handlers.
LEMMA RowSafe ==
  ASSUME IInv, NEW j \in Jobs, st[j] \in {"ready", "leased", "awaiting_human"} \/ j = Decompose,
         st[j] \notin {"succeeded", "failed"},
         st' = [st EXCEPT ![j] = "ready"],
         UNCHANGED <<doing, ledger, payload, project, lock, run>>,
         holder' \in [Jobs -> Workers \cup {NoWorker}],
         \A k \in Jobs : holder'[k] # NoWorker <=> (k # j /\ holder[k] # NoWorker),
         grant' \in [Jobs -> {0, GrantedRounds}], faults' \in 0 .. MaxFaults
  PROVE  IInv'
<1>1. TypeOK /\ Tabled
  BY DEF IInv
<1>2. TypeOK'
  BY <1>1 DEF TypeOK
<1>3. Grows
  BY <1>1 DEF Grows, TypeOK
<1>4. TableTyped'
  BY <1>2 DEF TypeOK, TableTyped, RowStates
<1>5. Tabled'
  <2>1. \A k \in Jobs : /\ st'[k] # "absent" => st'[Decompose] # "absent"
                        /\ holder'[k] # NoWorker <=> st'[k] = "leased"
                        /\ st'[k] = "succeeded" => st[k] = "succeeded"
    BY <1>1, DecomposeIs DEF TypeOK, Tabled
  <2> QED BY <1>3, <1>4, <2>1, TableKeeps
<1>6. /\ Carrying' /\ IntegrateRoundsBounded'
      /\ \A i \in Items : /\ DOMAIN findings[i] \subseteq DOMAIN findings'[i]
                          /\ Raised(i, "integrate")' = Raised(i, "integrate")
      /\ green \subseteq green' /\ phase' = phase
  <2>1. \A i \in Items, n \in 1 .. MaxWinds :
          Implement(i, Wind(n)) \in Jobs /\ Implement(i, Wind(n)) # Decompose
    BY JobsOf, ChainsAre
  <2>2. \A i \in Items, n \in 1 .. MaxWinds :
          st'[Implement(i, Wind(n))] # "absent" => st[Implement(i, Wind(n))] # "absent"
    BY <1>1, <2>1 DEF TypeOK
  <2> QED BY <2>2, LoopKeeps
<1>7. Moves(NoWorker)
  BY <1>3, <1>6 DEF Moves
<1>8. NoWorker \notin Workers
  BY NullAssumption
<1> QED BY <1>2, <1>5, <1>6, <1>7, <1>8, Assembled

\* Rows that start, are reaped, revoked or answered.
LEMMA RowsSafe ==
  ASSUME IInv, Kickoff \/ \E j \in Jobs : Answer(j) \/ Reap(j) \/ LoseLease(j)
  PROVE  IInv'
<1>1. TypeOK /\ Tabled /\ faults \in 0 .. MaxFaults /\ MaxFaults \in Nat
  BY DEF IInv, TypeOK
<1>2. CASE Kickoff
  <2>1. /\ st[Decompose] = "absent" /\ st' = [st EXCEPT ![Decompose] = "ready"]
        /\ UNCHANGED <<holder, doing, ledger, payload, grant, project, lock, run, faults>>
    BY <1>2 DEF Kickoff, Table!Offer
  <2>2. holder[Decompose] = NoWorker
    BY <1>1, <2>1, DecomposeIs DEF Tabled, TypeOK
  <2>3. /\ holder' \in [Jobs -> Workers \cup {NoWorker}]
        /\ \A k \in Jobs : holder'[k] # NoWorker <=> (k # Decompose /\ holder[k] # NoWorker)
        /\ grant' \in [Jobs -> {0, GrantedRounds}] /\ faults' \in 0 .. MaxFaults
    BY <1>1, <2>1, <2>2 DEF TypeOK
  <2> QED BY <2>1, <2>3, DecomposeIs, RowSafe
<1>3. ASSUME NEW j \in Jobs, Answer(j) PROVE IInv'
  <2>1. /\ st[j] = "awaiting_human" /\ st' = [st EXCEPT ![j] = "ready"]
        /\ UNCHANGED <<holder, doing, ledger, payload, project, lock, run, faults>>
    BY <1>3 DEF Answer, Table!Resume
  <2>2. PICK g \in {0, GrantedRounds} : grant' = [grant EXCEPT ![j] = g]
    BY <1>3 DEF Answer
  <2>3. grant' \in [Jobs -> {0, GrantedRounds}]
    BY <1>1, <2>2 DEF TypeOK
  <2>4. /\ holder' \in [Jobs -> Workers \cup {NoWorker}]
        /\ \A k \in Jobs : holder'[k] # NoWorker <=> (k # j /\ holder[k] # NoWorker)
        /\ faults' \in 0 .. MaxFaults
    BY <1>1, <2>1 DEF TypeOK, Tabled
  <2> QED BY <2>1, <2>3, <2>4, RowSafe
<1>4. ASSUME NEW j \in Jobs, Reap(j) \/ LoseLease(j) PROVE IInv'
  <2>1. /\ st[j] = "leased" /\ Table!Revoke({j})
        /\ UNCHANGED <<ledger, payload, grant, project, lock, run>>
        /\ faults' = faults \/ (faults < MaxFaults /\ faults' = faults + 1)
    BY <1>4 DEF Reap, LoseLease
  <2>2. /\ st' = [st EXCEPT ![j] = "ready"] /\ holder' = [holder EXCEPT ![j] = NoWorker]
        /\ UNCHANGED doing
    BY <1>1, <2>1 DEF Table!Revoke, TypeOK
  <2>3. /\ holder' \in [Jobs -> Workers \cup {NoWorker}]
        /\ \A k \in Jobs : holder'[k] # NoWorker <=> (k # j /\ holder[k] # NoWorker)
        /\ grant' \in [Jobs -> {0, GrantedRounds}] /\ faults' \in 0 .. MaxFaults
    BY <1>1, <2>1, <2>2 DEF TypeOK
  <2> QED BY <2>1, <2>2, <2>3, RowSafe
<1> QED BY <1>2, <1>3, <1>4

\* Idle workers, and those that claim.
LEMMA IdleIs == Idle \in RunRecords /\ [Idle EXCEPT !.at = "start"] \in RunRecords
BY DEF Idle, RunRecords, Places, Outcomes

\* A step that gives a worker its job, or takes it away.
LEMMA WorkerSafe ==
  ASSUME IInv, NEW w \in Workers, NEW r \in RunRecords, NEW d \in Jobs \cup {NoJob},
         run' = [run EXCEPT ![w] = r], doing' = [doing EXCEPT ![w] = d],
         r.at = "idle" <=> d = NoJob, r.at \in {"idle", "start"}, r.arg = 0,
         d # NoJob => st'[d] # "absent",
         TableTyped', Grows,
         \A j \in Jobs : /\ st[j] = "absent" => st'[j] = "absent"
                         /\ holder'[j] # NoWorker <=> st'[j] = "leased"
                         /\ st'[j] = "succeeded" => Followed(j)',
         lock' = IF lock = w THEN NoWorker ELSE lock,
         UNCHANGED <<ledger, payload, grant, project>>, faults' \in 0 .. MaxFaults
  PROVE  IInv'
<1>1. TypeOK /\ Tabled /\ run \in [Workers -> RunRecords]
  BY LedgerIs DEF IInv
<1>2. /\ run' \in [Workers -> RunRecords] /\ run'[w] = r /\ doing'[w] = d
      /\ \A v \in Workers \ {w} : run'[v] = run[v] /\ doing'[v] = doing[v]
  BY <1>1 DEF TypeOK
<1>3. TypeOK'
  <2>1. \A v \in Workers : run'[v].at = "idle" <=> doing'[v] = NoJob
    BY <1>1, <1>2 DEF TypeOK
  <2> QED BY <1>1, <1>2, <2>1 DEF TypeOK, TableTyped, RowStates, RunRecords, Outcomes
<1>4. Tabled'
  <2>1. \A j \in Jobs : st'[j] # "absent" => st'[Decompose] # "absent"
    BY <1>1, DecomposeIs DEF Tabled, Grows
  <2> QED BY <2>1 DEF Tabled
<1>5. /\ Carrying' /\ IntegrateRoundsBounded'
      /\ \A i \in Items : /\ DOMAIN findings[i] \subseteq DOMAIN findings'[i]
                          /\ Raised(i, "integrate")' = Raised(i, "integrate")
      /\ green \subseteq green' /\ phase' = phase
  <2>1. \A i \in Items, n \in 1 .. MaxWinds : Implement(i, Wind(n)) \in Jobs
    BY JobsOf, ChainsAre
  <2> QED BY <2>1, LoopKeeps
<1>6. Moves(w)
  <2>1. \A v \in Workers \ {w} : lock' = v <=> lock = v
    BY NullAssumption
  <2> QED BY <1>2, <1>5, <2>1 DEF Moves
<1>7. WorkerOK(w)' /\ (lock' = w <=> Merging(w)')
  <2>1. lock' # w
    BY NullAssumption
  <2>2. ~Merging(w)'
    BY <1>2 DEF Merging
  <2>3. d # NoJob => Placed(w)' /\ Informed(w)' /\ Advanced(w)'
    <3>1. Len(Order) \in Nat
      BY ItemsAssumption
    <3> QED BY <1>2, <3>1 DEF Placed, Informed, Advanced
  <2> QED BY <1>2, <2>1, <2>2, <2>3 DEF WorkerOK
<1> QED BY <1>3, <1>4, <1>5, <1>6, <1>7, Assembled

\* A worker that claims a job starts at the top of its handler.
LEMMA ClaimSafe ==
  ASSUME IInv, NEW w \in Workers, NEW j \in Jobs, Claim(w, j)
  PROVE  IInv'
<1> DEFINE r == [Idle EXCEPT !.at = "start"]
<1>1. TypeOK /\ Tabled /\ faults \in 0 .. MaxFaults
  BY DEF IInv, TypeOK
<1>2. /\ doing[w] = NoJob /\ st[j] = "ready"
      /\ st' = [st EXCEPT ![j] = "leased"] /\ holder' = [holder EXCEPT ![j] = w]
      /\ doing' = [doing EXCEPT ![w] = j] /\ run' = [run EXCEPT ![w] = r]
      /\ UNCHANGED <<ledger, payload, grant, project, lock, faults>>
  BY DEF Claim, Table!Grant
<1>3. r \in RunRecords /\ r.at = "start" /\ r.arg = 0 /\ j # NoJob
  BY IdleIs, NullAssumption DEF Idle
<1>4. lock # w
  BY <1>2 DEF IInv, Held, Merging
<1>5. TableTyped' /\ Grows /\ st'[j] # "absent"
  BY <1>1, <1>2 DEF TableTyped, TypeOK, RowStates, Grows
<1>6. \A k \in Jobs : /\ st[k] = "absent" => st'[k] = "absent"
                      /\ holder'[k] # NoWorker <=> st'[k] = "leased"
                      /\ st'[k] = "succeeded" => st[k] = "succeeded"
  BY <1>1, <1>2, NullAssumption DEF TypeOK, Tabled
<1>7. \A k \in Jobs : st'[k] = "succeeded" => Followed(k)'
  BY <1>1, <1>5, <1>6, FollowedStays DEF Tabled
<1> HIDE DEF r
<1> QED BY <1>1, <1>2, <1>3, <1>4, <1>5, <1>6, <1>7, WorkerSafe

\* What a worker reports as succeeded was followed up; what it reports too late is
\* forgotten.
LEMMA SettleSafe ==
  ASSUME IInv, NEW w \in Workers, Settle(w)
  PROVE  IInv'
<1> SUFFICES ASSUME NEW j \in Jobs, j = doing[w] PROVE IInv'
  <2>1. run[w].at # "idle"
    BY DEF Settle
  <2> QED BY <2>1, AtWork
<1>1. TypeOK /\ Tabled /\ faults \in 0 .. MaxFaults
  BY DEF IInv, TypeOK
<1>2. /\ run[w].at = "settle" /\ run' = [run EXCEPT ![w] = Idle]
      /\ \/ Table!Report(w, j) /\ st'[j] = run[w].out
         \/ holder[j] # w /\ Table!Forget(w)
      /\ UNCHANGED <<ledger, payload, grant, project, lock, faults>>
  BY DEF Settle
<1>3. lock # w /\ (run[w].out = "succeeded" => Followed(j))
  BY <1>2, AtWork DEF Advanced, Merging
<1>4. Idle \in RunRecords /\ Idle.at = "idle" /\ Idle.arg = 0
  BY IdleIs DEF Idle
<1>5. doing' = [doing EXCEPT ![w] = NoJob]
  BY <1>2 DEF Table!Report, Table!Forget
<1>6. CASE Table!Report(w, j) /\ st'[j] = run[w].out
  <2>1. PICK s \in {"succeeded", "failed", "ready", "awaiting_human"} :
          st' = [st EXCEPT ![j] = s]
    BY <1>6 DEF Table!Report
  <2>2. holder[j] = w /\ holder' = [holder EXCEPT ![j] = NoWorker]
    BY <1>6 DEF Table!Report
  <2>3. st[j] = "leased"
    BY <1>1, <2>2, NullAssumption DEF Tabled
  <2>4. TableTyped' /\ Grows
    BY <1>1, <1>2, <1>5, <2>1, <2>2, <2>3 DEF TableTyped, TypeOK, RowStates, Grows
  <2>5. \A k \in Jobs : /\ st[k] = "absent" => st'[k] = "absent"
                        /\ holder'[k] # NoWorker <=> st'[k] = "leased"
                        /\ st'[k] = "succeeded" => Followed(k)
    BY <1>1, <1>3, <1>6, <2>1, <2>2, <2>3 DEF TypeOK, Tabled
  <2>6. \A k \in Jobs : st'[k] = "succeeded" => Followed(k)'
    BY <2>4, <2>5, FollowedStays
  <2> QED BY <1>1, <1>2, <1>3, <1>4, <1>5, <2>4, <2>5, <2>6, WorkerSafe
<1>7. CASE Table!Forget(w)
  <2>1. UNCHANGED <<st, holder>>
    BY <1>7 DEF Table!Forget
  <2>2. TableTyped' /\ Grows
    BY <1>1, <1>2, <1>5, <2>1 DEF TableTyped, TypeOK, RowStates, Grows
  <2>3. \A k \in Jobs : /\ st[k] = "absent" => st'[k] = "absent"
                        /\ holder'[k] # NoWorker <=> st'[k] = "leased"
                        /\ st'[k] = "succeeded" => Followed(k)
    BY <1>1, <2>1 DEF Tabled
  <2>4. \A k \in Jobs : st'[k] = "succeeded" => Followed(k)'
    BY <2>2, <2>3, FollowedStays
  <2> QED BY <1>1, <1>2, <1>3, <1>4, <1>5, <2>2, <2>3, <2>4, WorkerSafe
<1> QED BY <1>2, <1>6, <1>7

\* A dead worker's lock goes with it, and its row is left to be reaped.
LEMMA CrashSafe ==
  ASSUME IInv, NEW w \in Workers, Crash(w)
  PROVE  IInv'
<1>1. TypeOK /\ Tabled /\ faults \in 0 .. MaxFaults /\ MaxFaults \in Nat
  BY DEF IInv, TypeOK
<1>2. /\ doing' = [doing EXCEPT ![w] = NoJob] /\ UNCHANGED <<st, holder>>
      /\ lock' = (IF lock = w THEN NoWorker ELSE lock)
      /\ run' = [run EXCEPT ![w] = Idle]
      /\ faults < MaxFaults /\ faults' = faults + 1
      /\ UNCHANGED <<ledger, payload, grant, project>>
  BY DEF Crash, Table!Forget
<1>3. Idle \in RunRecords /\ Idle.at = "idle" /\ Idle.arg = 0
  BY IdleIs DEF Idle
<1>4. TableTyped' /\ Grows /\ faults' \in 0 .. MaxFaults
  BY <1>1, <1>2 DEF TableTyped, TypeOK, RowStates, Grows
<1>5. \A k \in Jobs : /\ st[k] = "absent" => st'[k] = "absent"
                      /\ holder'[k] # NoWorker <=> st'[k] = "leased"
                      /\ st'[k] = "succeeded" => Followed(k)
  BY <1>1, <1>2 DEF Tabled
<1>6. \A k \in Jobs : st'[k] = "succeeded" => Followed(k)'
  BY <1>4, <1>5, FollowedStays
<1> QED BY <1>2, <1>3, <1>4, <1>5, <1>6, WorkerSafe

-----------------------------------------------------------------------------
(* What every handler leaves alone                                         *)

\* All that a handler does to the table, until it settles, is to insert a row.
LEMMA HandlerInserts ==
  ASSUME IInv, NEW w \in Workers, Handle(w), ~Settle(w)
  PROVE  Inserts
<1>1. run[w].at # "idle" /\ Kind(doing[w]) # "decompose" =>
        /\ Verify(Item(w), Chain(w)) \in Jobs \ {Decompose}
        /\ Integrate(Item(w), Chain(w)) \in Jobs \ {Decompose}
        /\ \A c \in Chains : Implement(Item(w), c) \in Jobs \ {Decompose}
  BY AtWork, JobsOf
<1>2. CASE FanOut(w)
  <2>1. run[w].arg \in Nat
    BY DEF IInv, TypeOK
  <2>2. run[w].arg + 1 \in 1 .. Len(Order)
    BY <1>2, <2>1, ItemsAssumption DEF FanOut
  <2>3. Implement(Order[run[w].arg + 1], Root) \in Jobs \ {Decompose}
    BY <2>2, ItemsAssumption, JobsOf, ChainsAre
  <2> QED BY <1>2, <2>3 DEF FanOut, Inserts
<1>3. CASE EnqueueVerify(w)
  BY <1>1, <1>3 DEF EnqueueVerify, At, Inserts
<1>4. CASE EnqueueIntegrate(w)
  BY <1>1, <1>4 DEF EnqueueIntegrate, At, Inserts
<1>5. CASE WindDown(w)
  <2>1. /\ run[w].at = "start" /\ Kind(doing[w]) = "implement"
        /\ Carried(w).winds < MaxWinds
        /\ Enqueue(Implement(Item(w), Wind(Carried(w).winds + 1)))
    BY <1>5 DEF WindDown, At
  <2>2. Item(w) \in Items /\ Chain(w) \in Chains
    BY <2>1, AtWork
  <2>3. Carried(w).winds \in Nat
    BY <2>2 DEF Carried, IInv, TypeOK
  <2>4. Wind(Carried(w).winds + 1) \in Chains
    BY <2>1, <2>3, ChainsAre
  <2> QED BY <1>1, <2>1, <2>4 DEF Inserts
<1>6. CASE EnqueueRepair(w)
  <2>1. run[w].at = "raised" /\ Enqueue(Implement(Item(w), Repair(run[w].arg)))
    BY <1>6 DEF EnqueueRepair
  <2>2. /\ Kind(doing[w]) # "decompose" /\ Item(w) \in Items
        /\ run[w].arg \in DOMAIN findings[Item(w)]
    BY <2>1, AtWork DEF Placed, Informed
  <2>3. run[w].arg \in Findings
    BY <2>2 DEF IInv, Carrying, TypeOK
  <2>4. Repair(run[w].arg) \in Chains
    BY <2>3, ChainsAre
  <2> QED BY <1>1, <2>1, <2>2, <2>4 DEF Inserts
<1>7. CASE \/ StopEarly(w) \/ ParkImplement(w) \/ FannedOut(w) \/ Complete(w)
           \/ LockBusy(w) \/ TakeLock(w) \/ Unlock(w)
           \/ ChecksFail(w) \/ RepairInFlight(w) \/ RoundsExhausted(w) \/ RaiseFinding(w)
           \/ ChecksPass(w) \/ ResolveSeen(w)
           \/ CountUnsettled(w) \/ EnterReview(w) \/ EnqueueDemo(w)
  BY <1>7 DEF Inserts, StopEarly, ParkImplement, FannedOut, Complete, LockBusy, TakeLock,
              Unlock, ChecksFail, RepairInFlight, RoundsExhausted, RaiseFinding, ChecksPass,
              ResolveSeen, CountUnsettled, EnterReview, EnqueueDemo
<1> QED BY <1>2, <1>3, <1>4, <1>5, <1>6, <1>7 DEF Handle

-----------------------------------------------------------------------------
(* Theorems                                                                *)

\* BUILD begins with an empty table and an empty ledger.
LEMMA InvInit == Init => IInv
<1> SUFFICES ASSUME Init PROVE IInv
  OBVIOUS
<1>1. /\ st = [j \in Jobs |-> "absent"] /\ holder = [j \in Jobs |-> NoWorker]
      /\ doing = [w \in Workers |-> NoJob] /\ run = [w \in Workers |-> Idle]
      /\ findings = [i \in Items |-> <<>>] /\ lock = NoWorker /\ phase = "BUILD"
  BY DEF Init, Table!Init
<1>2. TypeOK
  <2>1. <<>> \in Seq(Classes) /\ {} \subseteq DOMAIN <<>>
    OBVIOUS
  <2>2. run \in [Workers -> RunRecords]
    BY <1>1, IdleIs
  <2>3. Blank \in Payload
    OBVIOUS
  <2>4. LedgerTyped
    BY <1>1, <2>1, <2>3 DEF Init, LedgerTyped
  <2>5. \A w \in Workers : run[w].at = "idle" <=> doing[w] = NoJob
    BY <1>1 DEF Idle
  <2>6. /\ grant \in [Jobs -> {0, GrantedRounds}] /\ faults \in 0 .. MaxFaults
    BY DEF Init
  <2>7. TableTyped
    BY <1>1 DEF TableTyped, RowStates
  <2> QED
    BY <2>2, <2>4, <2>5, <2>6, <2>7
       DEF TypeOK, LedgerTyped, TableTyped, RowStates, RunRecords, Outcomes
<1>3. Tabled
  BY <1>1 DEF Tabled
<1>4. Carrying
  <2>1. \A i \in Items : findings[i] = <<>> /\ Len(findings[i]) = 0
    BY <1>1
  <2>2. \A i \in Items, c \in Chains : payload[i][c].finding = NoFinding
    BY DEF Init
  <2>3. \A i \in Items, n \in 1 .. MaxWinds : st[Implement(i, Wind(n))] = "absent"
    BY <1>1, JobsOf, ChainsAre
  <2> QED BY <2>1, <2>2, <2>3 DEF Carrying
<1>5. Held /\ \A w \in Workers : WorkerOK(w)
  BY <1>1, NullAssumption DEF Held, Merging, WorkerOK
<1>6. IntegrateRoundsBounded
  <2>1. \A i \in Items : Raised(i, "integrate") = {}
    BY <1>1 DEF Raised
  <2> QED BY <2>1, FS_EmptySet DEF IntegrateRoundsBounded
<1> QED BY <1>1, <1>2, <1>3, <1>4, <1>5, <1>6 DEF IInv

\* No step disturbs the invariant.
LEMMA InvNext ==
  ASSUME IInv, [Next]_vars
  PROVE  IInv'
<1>1. ASSUME NEW w \in Workers, Handle(w) PROVE IInv'
  BY <1>1, GiveUpSafe, FanOutSafe, FannedOutSafe, CompleteSafe, EnqueueVerifySafe, WindDownSafe,
     TakeLockSafe, UnlockSafe, ChecksFailSafe, RaiseFindingSafe, EnqueueRepairSafe, ChecksPassSafe,
     ResolveSeenSafe, EnqueueIntegrateSafe, CountUnsettledSafe, EnterReviewSafe, EnqueueDemoSafe,
     SettleSafe DEF Handle
<1>2. ASSUME NEW w \in Workers, Raise(w) \/ Crash(w) PROVE IInv'
  BY <1>2, GiveUpSafe, CrashSafe
<1>3. ASSUME NEW w \in Workers, NEW j \in Jobs, Claim(w, j) PROVE IInv'
  BY <1>3, ClaimSafe
<1>4. CASE Kickoff \/ \E j \in Jobs : Answer(j) \/ Reap(j) \/ LoseLease(j)
  BY <1>4, RowsSafe
<1>5. CASE UNCHANGED vars
  <2>1. UNCHANGED <<st, holder, doing, findings, closed, payload, grant, phase, demo, green,
                    lock, run, faults>>
    BY <1>5 DEF vars
  <2>2. TypeOK' /\ Carrying' /\ Held' /\ IntegrateRoundsBounded'
    BY <2>1 DEF IInv, TypeOK, Carrying, Held, Merging, IntegrateRoundsBounded, Raised
  <2>3. Tabled' /\ Earned' = Earned
    BY <2>1 DEF IInv, Tabled, Followed, Earned
  <2>4. \A w \in Workers : WorkerOK(w)'
    <3>1. Moves(NoWorker)
      BY <2>1 DEF Moves, Grows, Raised
    <3> QED BY <3>1, NullAssumption, OthersKeep
  <2> QED BY <2>1, <2>2, <2>3, <2>4 DEF IInv
<1> QED BY <1>1, <1>2, <1>3, <1>4, <1>5 DEF Next

\* The inductive invariant of BUILD.
THEOREM Invariance == Spec => []IInv
<1>1. IInv /\ [Next]_vars => IInv'
  BY InvNext
<1> QED BY <1>1, InvInit, PTL DEF Spec

\* Every variable keeps its type, a worker is in a handler exactly while it has a job,
\* and a finding is only ever closed after it was raised.
THEOREM TypeCorrect == Spec => []TypeOK
<1>1. IInv => TypeOK
  BY DEF IInv
<1> QED BY <1>1, Invariance, PTL

\* Two workers never touch the integration branch at once, whatever leases were lost:
\* whoever is at a place that touches it is the one that holds the lock.
THEOREM MergesAlone == Spec => []MergeExclusive
<1>1. IInv => MergeExclusive
  BY DEF IInv, Held, MergeExclusive
<1> QED BY <1>1, Invariance, PTL

\* An item never has more integrate findings than the rounds allowed: only the holder of
\* the lock raises one, so that the number it has read is still the number there is.
THEOREM RoundsAreBounded == Spec => []IntegrateRoundsBounded
<1>1. IInv => IntegrateRoundsBounded
  BY DEF IInv
<1> QED BY <1>1, Invariance, PTL

\* The project leaves BUILD only after every item was merged and passed its checks, or a
\* job of it ran out of attempts: a row that succeeded has left its successor behind, so
\* that a count that finds nothing unsettled finds every chain at its end.
THEOREM ReviewEarned == Spec => []ReviewIsEarned
<1>1. IInv => ReviewIsEarned
  BY DEF IInv, ReviewIsEarned, Earned
<1> QED BY <1>1, Invariance, PTL

\* BUILD uses the job table as TaskLease specifies it, and JobQueue implements it: no
\* handler, crash, reap or answer does to a row what the table does not offer.
THEOREM UsesTable == Spec => Table!Spec
<1>1. Init => Table!Init
  BY DEF Init
<1>2. IInv /\ [Next]_vars => [Table!Next]_(Table!vars)
  <2> SUFFICES ASSUME IInv, [Next]_vars PROVE Table!Next \/ UNCHANGED table
    BY DEF Table!vars
  <2>1. ASSUME NEW j \in Jobs, Enqueue(j) PROVE Table!Next \/ UNCHANGED table
    BY <2>1 DEF Enqueue, Table!Next
  <2>2. ASSUME NEW w \in Workers, Handle(w) PROVE Table!Next \/ UNCHANGED table
    <3>1. ASSUME NEW j \in Jobs, j = doing[w], Settle(w) PROVE Table!Next
      BY <3>1 DEF Settle, Table!Next
    <3>2. CASE Settle(w)
      <4>1. doing[w] \in Jobs
        BY <3>2, AtWork DEF Settle
      <4> QED BY <3>1, <3>2, <4>1
    <3>3. CASE Inserts
      BY <2>1, <3>3 DEF Inserts
    <3>4. ~Settle(w) => Inserts
      BY <2>2, HandlerInserts
    <3> QED BY <3>2, <3>3, <3>4
  <2>3. ASSUME NEW w \in Workers, Raise(w) \/ Crash(w) PROVE Table!Next \/ UNCHANGED table
    BY <2>3 DEF Raise, Crash, Table!Next
  <2>4. ASSUME NEW w \in Workers, NEW j \in Jobs, Claim(w, j) PROVE Table!Next
    BY <2>4 DEF Claim, Table!Next
  <2>5. CASE Kickoff
    BY <2>5, DecomposeIs DEF Kickoff, Table!Next
  <2>6. ASSUME NEW j \in Jobs, Answer(j) \/ Reap(j) \/ LoseLease(j) PROVE Table!Next
    BY <2>6 DEF Answer, Reap, LoseLease, Table!Next
  <2>7. CASE UNCHANGED vars
    BY <2>7 DEF vars
  <2> QED BY <2>2, <2>3, <2>4, <2>5, <2>6, <2>7 DEF Next
<1> QED BY <1>1, <1>2, Invariance, PTL DEF Spec, Table!Spec

-----------------------------------------------------------------------------
(* While nothing goes wrong: leases agree, and a review is quiet           *)

\* The table and the workers agree on who has which job.
Agreed ==
  /\ \A j \in Jobs : holder[j] # NoWorker => doing[holder[j]] = j
  /\ \A w \in Workers : doing[w] # NoJob => holder[doing[w]] = w

\* A worker that counted, and one that is about to settle what it counted for.
Counted(w) == doing[w] # NoJob /\ run[w].at \in {"last", "entered"}
Closing(w) ==
  /\ doing[w] # NoJob /\ Kind(doing[w]) = "integrate"
  /\ Counted(w) \/ (run[w].at \in {"unlock", "settle"} /\ run[w].out = "succeeded")

OnlyJob(w) == \A k \in Jobs \ {doing[w]} : ~Unsettled(k)

\* Whoever counted has the only job that is left, and so has whoever keeps a project
\* that is in REVIEW from being done with BUILD.
Quiet ==
  /\ Agreed
  /\ \A w \in Workers : Counted(w) => OnlyJob(w)
  /\ phase = "REVIEW" =>
       \A j \in Jobs : Unsettled(j) =>
         \E w \in Workers : doing[w] = j /\ Closing(w) /\ OnlyJob(w)

QuietInv == IInv /\ (faults = 0 => Quiet)

\* Faults are counted, and never forgotten.
LEMMA FaultsRise ==
  ASSUME IInv, [Next]_vars, faults' = 0
  PROVE  /\ faults = 0
         /\ \A w \in Workers : ~Raise(w) /\ ~Crash(w)
         /\ \A j \in Jobs : ~LoseLease(j)
<1>1. faults \in Nat
  BY DEF IInv, TypeOK
<1>2. \A w \in Workers : ~Raise(w) /\ ~Crash(w)
  BY <1>1 DEF Raise, Crash
<1>3. \A j \in Jobs : ~LoseLease(j)
  BY <1>1 DEF LoseLease
<1>4. faults' = faults
  <2>1. \A w \in Workers : Handle(w) => faults' = faults
    BY DEF Handle, StopEarly, ParkImplement, FanOut, FannedOut, Complete, EnqueueVerify, WindDown,
           LockBusy, TakeLock, Unlock, ChecksFail, RepairInFlight, RoundsExhausted, RaiseFinding,
           EnqueueRepair, ChecksPass, ResolveSeen, EnqueueIntegrate, CountUnsettled, EnterReview,
           EnqueueDemo, Settle
  <2>2. \A w \in Workers, j \in Jobs : Claim(w, j) => faults' = faults
    BY DEF Claim
  <2>3. Kickoff \/ (\E j \in Jobs : Answer(j) \/ Reap(j)) \/ UNCHANGED vars => faults' = faults
    BY DEF Kickoff, Answer, Reap, vars
  <2> QED BY <1>2, <1>3, <2>1, <2>2, <2>3 DEF Next
<1> QED BY <1>2, <1>3, <1>4

\* A handler inserts a row at most, moves its own worker and, if it enters, the project.
LEMMA HandlerSteps ==
  ASSUME IInv, NEW w \in Workers, Handle(w), ~Settle(w)
  PROVE  /\ run[w].at # "idle" /\ doing[w] \in Jobs /\ doing[w] # NoJob
         /\ UNCHANGED <<holder, doing>>
         /\ \A v \in Workers \ {w} : run'[v] = run[v]
         /\ \A j \in Jobs : st'[j] = st[j] \/ (st[j] = "absent" /\ st'[j] = "ready")
<1>1. run[w].at # "idle"
  BY DEF Handle, StopEarly, ParkImplement, FanOut, FannedOut, Complete, EnqueueVerify, WindDown,
         LockBusy, TakeLock, Unlock, ChecksFail, RepairInFlight, RoundsExhausted, RaiseFinding,
         EnqueueRepair, ChecksPass, ResolveSeen, EnqueueIntegrate, CountUnsettled, EnterReview,
         EnqueueDemo, At, Checking
<1>2. run \in [Workers -> RunRecords]
  BY LedgerIs DEF IInv
<1>3. \A v \in Workers \ {w} : run'[v] = run[v]
  BY <1>2
     DEF Handle, StopEarly, ParkImplement, FanOut, FannedOut, Complete, EnqueueVerify, WindDown,
         LockBusy, TakeLock, Unlock, ChecksFail, RepairInFlight, RoundsExhausted, RaiseFinding,
         EnqueueRepair, ChecksPass, ResolveSeen, EnqueueIntegrate, CountUnsettled, EnterReview,
         EnqueueDemo, Return, Goto
<1>4. doing[w] \in Jobs /\ doing[w] # NoJob /\ st[Decompose] # "absent"
  BY <1>1, AtWork
<1>5. Inserts
  BY HandlerInserts
<1> QED BY <1>1, <1>3, <1>4, <1>5, Inserting

\* A worker that is not closing has a job that is left: nobody has counted it out, and
\* the project is not in REVIEW.  Nor is it while a job waits for a worker.
LEMMA NotYet ==
  ASSUME IInv, Quiet
  PROVE  /\ \A w \in Workers : doing[w] # NoJob /\ ~Closing(w) =>
              phase # "REVIEW" /\ \A v \in Workers : ~Counted(v)
         /\ \A j \in Jobs : st[j] \in {"ready", "awaiting_human"} =>
              phase # "REVIEW" /\ \A v \in Workers : ~Counted(v)
<1>1. ASSUME NEW w \in Workers, Counted(w) PROVE Closing(w)
  <2>1. Kind(doing[w]) = "integrate"
    BY <1>1, AtWork DEF Counted, Placed
  <2> QED BY <1>1, <2>1 DEF Closing, Counted
<1>2. ASSUME NEW w \in Workers, doing[w] # NoJob
      PROVE  doing[w] \in Jobs /\ holder[doing[w]] = w /\ st[doing[w]] = "leased"
  <2>1. doing[w] \in Jobs /\ holder[doing[w]] = w
    BY <1>2 DEF IInv, TypeOK, Quiet, Agreed
  <2> QED BY <2>1, NullAssumption DEF IInv, Tabled
<1>3. ASSUME NEW w \in Workers, doing[w] # NoJob, ~Closing(w)
      PROVE  phase # "REVIEW" /\ \A v \in Workers : ~Counted(v)
  <2>1. Unsettled(doing[w]) /\ doing[w] \in Jobs
    BY <1>2, <1>3 DEF Unsettled
  <2>2. \A v \in Workers : doing[v] = doing[w] => v = w
    BY <1>2, <1>3
  <2>3. \A v \in Workers : ~Counted(v)
    BY <1>1, <1>3, <2>1, <2>2 DEF Quiet, OnlyJob
  <2>4. phase # "REVIEW"
    BY <1>3, <2>1, <2>2 DEF Quiet
  <2> QED BY <2>3, <2>4
<1>4. ASSUME NEW j \in Jobs, st[j] \in {"ready", "awaiting_human"}
      PROVE  phase # "REVIEW" /\ \A v \in Workers : ~Counted(v)
  <2>1. Unsettled(j) /\ \A v \in Workers : doing[v] # j
    BY <1>2, <1>4, NullAssumption DEF Unsettled
  <2> QED BY <2>1 DEF Quiet, OnlyJob, Counted
<1> QED BY <1>3, <1>4

\* A handler keeps the quiet: while there is one that has not closed, nobody counted.
LEMMA HandleQuiet ==
  ASSUME IInv, IInv', Quiet, NEW w \in Workers, Handle(w), ~Settle(w)
  PROVE  Quiet'
<1>1. /\ doing[w] \in Jobs /\ doing[w] # NoJob /\ UNCHANGED <<holder, doing>>
      /\ \A v \in Workers \ {w} : run'[v] = run[v]
      /\ \A j \in Jobs : st'[j] = st[j] \/ (st[j] = "absent" /\ st'[j] = "ready")
  BY HandlerSteps
<1>2. Agreed'
  BY <1>1 DEF Quiet, Agreed
<1>3. run[w] \in RunRecords /\ run \in [Workers -> RunRecords]
  BY LedgerIs DEF IInv
<1>4. \A v \in Workers \ {w} : Counted(v)' = Counted(v) /\ Closing(v)' = Closing(v)
  BY <1>1 DEF Counted, Closing
<1>5. CASE /\ ~Closing(w) /\ phase' = phase
           /\ run'[w].at \notin {"last", "entered"} \/ (st' = st /\ Remaining(doing[w]) = {})
  <2>1. phase' # "REVIEW" /\ \A v \in Workers \ {w} : ~Counted(v)'
    BY <1>1, <1>4, <1>5, NotYet
  <2>2. Counted(w)' => OnlyJob(w)'
    BY <1>1, <1>5 DEF Counted, OnlyJob, Remaining, Unsettled
  <2> QED BY <1>2, <2>1, <2>2 DEF Quiet
<1>6. CASE Closing(w) /\ Closing(w)' /\ st' = st /\ (phase' = phase \/ Counted(w))
           /\ (Counted(w)' => Counted(w))
  <2>1. \A v \in Workers : OnlyJob(v)' = OnlyJob(v)
    BY <1>1, <1>6 DEF OnlyJob, Unsettled
  <2>2. \A v \in Workers : Counted(v)' => OnlyJob(v)'
    BY <1>4, <1>6, <2>1 DEF Quiet
  <2>3. ASSUME NEW j \in Jobs, Unsettled(j)', phase' = "REVIEW"
        PROVE  \E v \in Workers : doing'[v] = j /\ Closing(v)' /\ OnlyJob(v)'
    <3>1. Unsettled(j)
      BY <1>6, <2>3 DEF Unsettled
    <3>2. CASE Counted(w)
      <4>1. OnlyJob(w)
        BY <3>2 DEF Quiet
      <4>2. j = doing[w]
        BY <3>1, <4>1 DEF OnlyJob
      <4> QED BY <1>1, <1>6, <2>1, <4>1, <4>2
    <3>3. CASE phase = "REVIEW"
      <4>1. PICK v \in Workers : doing[v] = j /\ Closing(v) /\ OnlyJob(v)
        BY <3>1, <3>3 DEF Quiet
      <4>2. Closing(v)'
        BY <1>4, <1>6, <4>1
      <4> QED BY <1>1, <2>1, <4>1, <4>2
    <3> QED BY <1>6, <2>3, <3>2, <3>3
  <2> QED BY <1>2, <2>2, <2>3 DEF Quiet
<1>7. CASE CountUnsettled(w)
  <2>1. run[w].at = "resolved" /\ UNCHANGED <<st, phase>>
    BY <1>7 DEF CountUnsettled, At
  <2>2. ~Closing(w)
    BY <2>1 DEF Closing, Counted
  <2>3. run'[w].at \notin {"last", "entered"} \/ Remaining(doing[w]) = {}
    BY <1>3, <1>7 DEF CountUnsettled, Return, RunRecords
  <2> QED BY <1>5, <2>1, <2>2, <2>3
<1>8. CASE EnterReview(w)
  <2>1. run[w].at = "last" /\ run'[w].at = "entered" /\ st' = st /\ Kind(doing[w]) = "integrate"
    BY <1>3, <1>8 DEF EnterReview, At, Goto, RunRecords
  <2>2. Counted(w) /\ Closing(w) /\ Closing(w)'
    BY <1>1, <2>1 DEF Counted, Closing
  <2> QED BY <1>6, <2>1, <2>2
<1>9. CASE EnqueueDemo(w)
  <2>1. /\ run[w].at = "entered" /\ run'[w].at \in {"unlock", "settle"}
        /\ run'[w].out = "succeeded" /\ UNCHANGED <<st, phase>> /\ Kind(doing[w]) = "integrate"
    BY <1>3, <1>9 DEF EnqueueDemo, At, Return, RunRecords
  <2>2. Closing(w) /\ Closing(w)' /\ ~Counted(w)'
    BY <1>1, <2>1 DEF Counted, Closing
  <2> QED BY <1>6, <2>1, <2>2
<1>10. CASE Unlock(w)
  <2>1. /\ run[w].at = "unlock" /\ run'[w].at = "settle" /\ run'[w].out = run[w].out
        /\ UNCHANGED <<st, phase>>
    BY <1>3, <1>10 DEF Unlock, Goto, RunRecords
  <2>2. ~Counted(w)' /\ ~Counted(w) /\ Closing(w)' = Closing(w)
    BY <1>1, <2>1 DEF Counted, Closing
  <2> QED BY <1>5, <1>6, <2>1, <2>2
<1>11. CASE /\ run[w].at \notin {"last", "entered", "unlock", "settle"} /\ phase' = phase
            /\ run'[w].at \notin {"last", "entered"}
  BY <1>5, <1>11 DEF Closing, Counted
<1>12. CASE \/ StopEarly(w) \/ ParkImplement(w) \/ FannedOut(w) \/ EnqueueVerify(w) \/ WindDown(w)
            \/ LockBusy(w) \/ RepairInFlight(w) \/ RoundsExhausted(w) \/ EnqueueRepair(w)
            \/ EnqueueIntegrate(w)
  <2>1. run[w].at \in {"start", "built", "failed", "raised", "resolved"} /\ phase' = phase
    BY <1>12 DEF StopEarly, ParkImplement, FannedOut, EnqueueVerify, WindDown, LockBusy,
                 RepairInFlight, RoundsExhausted, EnqueueRepair, EnqueueIntegrate, At
  <2>2. \E o : Return(w, o)
    BY <1>12 DEF StopEarly, ParkImplement, FannedOut, EnqueueVerify, WindDown, LockBusy,
                 RepairInFlight, RoundsExhausted, EnqueueRepair, EnqueueIntegrate
  <2>3. run'[w].at \in {"unlock", "settle"}
    BY <1>3, <2>2 DEF Return, RunRecords
  <2> QED BY <1>11, <2>1, <2>3
<1>13. CASE FanOut(w) \/ Complete(w) \/ TakeLock(w) \/ ResolveSeen(w)
  <2>1. /\ run[w].at \in {"start", "passed"} /\ phase' = phase
        /\ run'[w].at \in {"start", "built", "checking", "resolved"}
    BY <1>3, <1>13 DEF FanOut, Complete, TakeLock, ResolveSeen, Goto, At, RunRecords
  <2> QED BY <1>11, <2>1
<1>14. CASE ChecksFail(w) \/ ChecksPass(w) \/ RaiseFinding(w)
  <2>1. /\ run[w].at \in {"start", "checking", "failed"} /\ phase' = phase
        /\ run'[w].at \in {"failed", "passed", "raised"}
    BY <1>3, <1>14 DEF ChecksFail, ChecksPass, RaiseFinding, Checking, At, RunRecords
  <2> QED BY <1>11, <2>1
<1> QED BY <1>7, <1>8, <1>9, <1>10, <1>12, <1>13, <1>14 DEF Handle

\* A worker that settles what it closed leaves nothing; one that settles anything else
\* does it before anybody has counted.
LEMMA SettleQuiet ==
  ASSUME IInv, Quiet, NEW w \in Workers, Settle(w)
  PROVE  Quiet'
<1> SUFFICES ASSUME NEW j \in Jobs, j = doing[w] PROVE Quiet'
  <2>1. run[w].at # "idle"
    BY DEF Settle
  <2> QED BY <2>1, AtWork
<1>1. run[w].at = "settle" /\ j # NoJob
  BY NullAssumption DEF Settle
<1>2. holder[j] = w
  BY <1>1 DEF Quiet, Agreed
<1>3. /\ doing' = [doing EXCEPT ![w] = NoJob] /\ holder' = [holder EXCEPT ![j] = NoWorker]
      /\ st'[j] = run[w].out /\ \A k \in Jobs \ {j} : st'[k] = st[k]
      /\ run' = [run EXCEPT ![w] = Idle] /\ phase' = phase
  BY <1>2 DEF Settle, Table!Report, IInv, TypeOK
<1>4. TypeOK
  BY DEF IInv
<1>5. Agreed'
  BY <1>1, <1>2, <1>3, <1>4, NullAssumption DEF Quiet, Agreed, TypeOK
<1>6. \A v \in Workers \ {w} : /\ doing'[v] = doing[v] /\ run'[v] = run[v]
                               /\ Counted(v)' = Counted(v) /\ Closing(v)' = Closing(v)
                               /\ doing[v] # j
  BY <1>1, <1>2, <1>3, <1>4 DEF Counted, Closing, TypeOK, Quiet, Agreed
<1>7. ~Counted(w)'
  BY <1>3, <1>4 DEF Counted, TypeOK
<1>8. Unsettled(j)
  BY <1>2, NullAssumption DEF Unsettled, IInv, Tabled
<1>9. \A v \in Workers : ~Counted(v)'
  BY <1>1, <1>6, <1>7, <1>8 DEF Quiet, OnlyJob, Counted
<1>10. ASSUME phase = "REVIEW" PROVE \A k \in Jobs : ~Unsettled(k)'
  <2>1. PICK v \in Workers : doing[v] = j /\ Closing(v) /\ OnlyJob(v)
    BY <1>8, <1>10 DEF Quiet
  <2>2. v = w /\ run[w].out = "succeeded"
    BY <1>1, <1>6, <2>1 DEF Closing, Counted
  <2> QED BY <1>3, <2>1, <2>2 DEF OnlyJob, Unsettled
<1> QED BY <1>3, <1>5, <1>9, <1>10 DEF Quiet

\* A row that is claimed, reaped, answered or starts BUILD was there to be counted.
LEMMA LoopQuiet ==
  ASSUME IInv, Quiet,
         \/ Kickoff
         \/ \E j \in Jobs : Answer(j) \/ Reap(j)
         \/ \E w \in Workers, j \in Jobs : Claim(w, j)
  PROVE  Quiet'
<1>1. TypeOK /\ Tabled /\ Agreed
  BY DEF IInv, Quiet
<1>2. CASE Kickoff
  <2>1. /\ st[Decompose] = "absent"
        /\ UNCHANGED <<holder, doing, phase, run>>
    BY <1>2 DEF Kickoff, Table!Offer
  <2>2. ~Earned
    BY <2>1 DEF Earned
  <2>3. phase # "REVIEW" /\ \A v \in Workers : ~Counted(v)
    <3>1. phase # "REVIEW"
      BY <2>2 DEF IInv
    <3>2. ASSUME NEW v \in Workers, Counted(v) PROVE FALSE
      BY <2>2, <3>2, AtWork DEF Counted, Advanced
    <3> QED BY <3>1, <3>2
  <2> QED BY <1>1, <2>1, <2>3 DEF Quiet, Agreed, Counted
<1>3. ASSUME NEW j \in Jobs, Answer(j) PROVE Quiet'
  <2>1. st[j] = "awaiting_human" /\ UNCHANGED <<holder, doing, phase, run>>
    BY <1>3 DEF Answer, Table!Resume
  <2>2. phase # "REVIEW" /\ \A v \in Workers : ~Counted(v)
    BY <2>1, NotYet
  <2> QED BY <1>1, <2>1, <2>2 DEF Quiet, Agreed, Counted
<1>4. ASSUME NEW j \in Jobs, Reap(j) PROVE FALSE
  BY <1>1, <1>4 DEF Reap, Tabled, Agreed
<1>5. ASSUME NEW w \in Workers, NEW j \in Jobs, Claim(w, j) PROVE Quiet'
  <2>1. /\ doing[w] = NoJob /\ st[j] = "ready"
        /\ holder' = [holder EXCEPT ![j] = w] /\ doing' = [doing EXCEPT ![w] = j]
        /\ run' = [run EXCEPT ![w] = [Idle EXCEPT !.at = "start"]] /\ phase' = phase
    BY <1>5 DEF Claim, Table!Grant
  <2>2. phase # "REVIEW" /\ \A v \in Workers : ~Counted(v)
    BY <2>1, NotYet
  <2>3. j # NoJob /\ holder[j] = NoWorker
    BY <1>1, <2>1, NullAssumption DEF Tabled
  <2>4. Agreed'
    <3>1. ASSUME NEW k \in Jobs, holder'[k] # NoWorker PROVE doing'[holder'[k]] = k
      <4>1. CASE k = j
        BY <1>1, <2>1, <4>1 DEF TypeOK
      <4>2. CASE k # j
        <5>1. holder'[k] = holder[k] /\ holder[k] \in Workers /\ doing[holder[k]] = k
          BY <1>1, <2>1, <3>1, <4>2 DEF TypeOK, Agreed
        <5>2. holder[k] # w
          BY <2>1, <5>1, NullAssumption
        <5> QED BY <1>1, <2>1, <5>1, <5>2 DEF TypeOK
      <4> QED BY <4>1, <4>2
    <3>2. ASSUME NEW v \in Workers, doing'[v] # NoJob PROVE holder'[doing'[v]] = v
      <4>1. CASE v = w
        BY <1>1, <2>1, <4>1 DEF TypeOK
      <4>2. CASE v # w
        <5>1. doing'[v] = doing[v] /\ doing[v] \in Jobs /\ holder[doing[v]] = v
          BY <1>1, <2>1, <3>2, <4>2 DEF TypeOK, Agreed
        <5>2. doing[v] # j
          BY <2>3, <5>1, NullAssumption
        <5> QED BY <1>1, <2>1, <5>1, <5>2 DEF TypeOK
      <4> QED BY <4>1, <4>2
    <3> QED BY <3>1, <3>2 DEF Agreed
  <2>5. \A v \in Workers : ~Counted(v)'
    BY <1>1, <2>1, <2>2 DEF Counted, TypeOK, Idle
  <2> QED BY <2>1, <2>2, <2>4, <2>5 DEF Quiet
<1> QED BY <1>2, <1>3, <1>4, <1>5

\* Nothing that goes right disturbs the quiet.
LEMMA QuietNext ==
  ASSUME QuietInv, [Next]_vars
  PROVE  QuietInv'
<1>1. IInv /\ IInv'
  BY InvNext DEF QuietInv
<1>2. ASSUME faults' = 0 PROVE Quiet'
  <2>1. /\ Quiet /\ \A w \in Workers : ~Raise(w) /\ ~Crash(w)
        /\ \A j \in Jobs : ~LoseLease(j)
    BY <1>1, <1>2, FaultsRise DEF QuietInv
  <2>2. ASSUME NEW w \in Workers, Handle(w) PROVE Quiet'
    BY <1>1, <2>1, <2>2, HandleQuiet, SettleQuiet
  <2>3. CASE \/ Kickoff \/ \E j \in Jobs : Answer(j) \/ Reap(j)
             \/ \E w \in Workers, j \in Jobs : Claim(w, j)
    BY <1>1, <2>1, <2>3, LoopQuiet
  <2>4. CASE UNCHANGED vars
    BY <2>1, <2>4 DEF vars, Quiet, Agreed, Counted, Closing, OnlyJob, Unsettled
  <2> QED BY <2>1, <2>2, <2>3, <2>4 DEF Next
<1> QED BY <1>1, <1>2 DEF QuietInv

\* Without a crash, an exception or a lost lease, a project in REVIEW has no job of BUILD
\* left but the one whose integrate moved it, whatever the jobs and their repairs were:
\* only a worker that counted nothing else moves it, and what is left to do is counted
\* until it is done.
THEOREM ReviewStaysQuiet == Spec => []ReviewIsQuiet
<1>1. Init => QuietInv
  <2> SUFFICES ASSUME Init PROVE Quiet
    BY InvInit DEF QuietInv
  <2>1. /\ \A j \in Jobs : holder[j] = NoWorker
        /\ \A w \in Workers : doing[w] = NoJob
        /\ phase = "BUILD"
    BY DEF Init, Table!Init
  <2> QED BY <2>1 DEF Quiet, Agreed, Counted
<1>2. QuietInv /\ [Next]_vars => QuietInv'
  BY QuietNext
<1>3. QuietInv => ReviewIsQuiet
  BY DEF QuietInv, Quiet, OnlyJob, ReviewIsQuiet
<1> QED BY <1>1, <1>2, <1>3, PTL DEF Spec
-----------------------------------------------------------------------------
(* Repairs: what becomes of a finding                                      *)

\* The finding a chain carries is closed, or was handed on by a wind-down.
Repaired(i, c) == payload[i][c].finding \in closed[i] \cup {NoFinding}
Wound(i, c) ==
  /\ payload[i][c].winds < MaxWinds
  /\ st[Implement(i, Wind(payload[i][c].winds + 1))] # "absent"

\* Who has raised a finding is still to enqueue its repair.
Raising(w) == run[w].at = "raised"

\* Only chains that are there carry anything, and one that succeeded either closed
\* its finding or was wound down.
Mended ==
  \A i \in Items, c \in Chains :
    /\ payload[i][c].finding # NoFinding => st[Implement(i, c)] # "absent"
    /\ st[Implement(i, c)] = "succeeded" => Repaired(i, c) \/ Wound(i, c)

\* A repair is a finding's of the ledger.
Numbered ==
  \A i \in Items, k \in Findings : st[Implement(i, Repair(k))] # "absent" => k \in DOMAIN findings[i]

\* What a worker has done for its finding on its way, and that nobody else repairs the
\* finding it has raised.
Mends(w) ==
  /\ At(w, "implement", "built") => Repaired(Item(w), Chain(w))
  /\ At(w, "implement", "settle") /\ run[w].out = "succeeded" =>
       Repaired(Item(w), Chain(w)) \/ Wound(Item(w), Chain(w))
  /\ Raising(w) => st[Implement(Item(w), Repair(run[w].arg))] = "absent"

RaisedOnce ==
  \A v, w \in Workers :
    Raising(v) /\ Raising(w) /\ Item(v) = Item(w) /\ run[v].arg = run[w].arg => v = w

\* An open finding was just raised, or some chain carries it.
Tracked(i, k) ==
  \/ \E w \in Workers : Raising(w) /\ Item(w) = i /\ run[w].arg = k
  \/ \E c \in Chains : payload[i][c].finding = k
AllTracked == \A i \in Items : \A k \in DOMAIN findings[i] \ closed[i] : Tracked(i, k)

Mending ==
  /\ Mended /\ Numbered /\ RaisedOnce
  /\ \A w \in Workers : Mends(w)
  /\ faults = 0 => AllTracked

MendInv == IInv /\ Mending

\* Rows and payloads that are there stay, and so does what is closed.
Lasting ==
  /\ \A j \in Jobs : st[j] # "absent" => st'[j] # "absent"
  /\ \A i \in Items, c \in Chains :
       st[Implement(i, c)] # "absent" => payload'[i][c] = payload[i][c]
  /\ \A i \in Items : closed[i] \subseteq closed'[i] /\ DOMAIN findings[i] \subseteq DOMAIN findings'[i]

\* The ledger has no more positions than there are findings.
LEMMA Positions ==
  ASSUME IInv, NEW i \in Items
  PROVE  /\ DOMAIN findings[i] \subseteq Findings /\ DOMAIN findings[i] = 1 .. Len(findings[i])
         /\ Len(findings[i]) \in Nat
<1>1. DOMAIN findings[i] = 1 .. Len(findings[i]) /\ Len(findings[i]) \in Nat
  BY RaisedIs DEF IInv
<1>2. Len(findings[i]) <= MaxFindings
  BY DEF IInv, Carrying
<1> QED BY <1>1, <1>2

\* What became of a chain's finding is not undone.
LEMMA LastingRepair ==
  ASSUME IInv, Lasting, NEW i \in Items, NEW c \in Chains, st[Implement(i, c)] # "absent"
  PROVE  /\ Repaired(i, c) => Repaired(i, c)'
         /\ Wound(i, c) => Wound(i, c)'
<1>1. payload'[i][c] = payload[i][c] /\ closed[i] \subseteq closed'[i]
  BY DEF Lasting
<1>2. Repaired(i, c) => Repaired(i, c)'
  BY <1>1 DEF Repaired
<1>3. ASSUME Wound(i, c) PROVE Wound(i, c)'
  <2>1. payload[i][c].winds \in 0 .. MaxWinds
    BY DEF IInv, TypeOK
  <2>2. payload[i][c].winds + 1 \in 1 .. MaxWinds
    BY <1>3, <2>1 DEF Wound
  <2>3. Implement(i, Wind(payload[i][c].winds + 1)) \in Jobs
    BY <2>2, JobsOf, ChainsAre
  <2> QED BY <1>1, <1>3, <2>3 DEF Wound, Lasting
<1> QED BY <1>2, <1>3

\* What a step has to say of the worker that takes it, of rows that succeed and of
\* repairs that are enqueued; the rest lasts.
LEMMA MendSafe ==
  ASSUME MendInv, IInv', Lasting, NEW w,
         \A v \in Workers \ {w} : run'[v] = run[v] /\ doing'[v] = doing[v],
         \A j \in Jobs : st'[j] = "succeeded" =>
           \/ st[j] = "succeeded"
           \/ w \in Workers /\ j = doing[w] /\ run[w].at = "settle" /\ run[w].out = "succeeded",
         \A i \in Items, c \in Chains :
           payload'[i][c].finding # NoFinding => st'[Implement(i, c)] # "absent",
         \A i \in Items, k \in Findings :
           st'[Implement(i, Repair(k))] # "absent" =>
             \/ st[Implement(i, Repair(k))] # "absent"
             \/ w \in Workers /\ Raising(w) /\ Item(w) = i /\ run[w].arg = k,
         w \in Workers => Mends(w)',
         w \in Workers /\ Raising(w)' => run'[w].arg \notin DOMAIN findings[Item(w)'],
         faults' = 0 => AllTracked'
  PROVE  Mending'
<1>1. IInv /\ Mending /\ TypeOK
  BY DEF MendInv, IInv
<1>2. \A i \in Items, c \in Chains :
        /\ Implement(i, c) \in Jobs /\ Kind(Implement(i, c)) = "implement"
        /\ Implement(i, c)[2] = i /\ Implement(i, c)[3] = c
  BY JobsOf
<1>3. Mended'
  <2> SUFFICES ASSUME NEW i \in Items, NEW c \in Chains, st'[Implement(i, c)] = "succeeded"
               PROVE  Repaired(i, c)' \/ Wound(i, c)'
    BY DEF Mended
  <2>1. CASE st[Implement(i, c)] = "succeeded"
    BY <1>1, <2>1, LastingRepair DEF Mending, Mended
  <2>2. CASE /\ w \in Workers /\ Implement(i, c) = doing[w]
             /\ run[w].at = "settle" /\ run[w].out = "succeeded"
    <3>1. At(w, "implement", "settle") /\ Item(w) = i /\ Chain(w) = c
      BY <1>2, <2>2, NullAssumption DEF At, Item, Chain
    <3>2. Repaired(i, c) \/ Wound(i, c)
      BY <1>1, <2>2, <3>1 DEF Mending, Mends
    <3>3. st[Implement(i, c)] # "absent"
      BY <1>1, <2>2, AtWork
    <3> QED BY <1>1, <3>2, <3>3, LastingRepair
  <2> QED BY <1>2, <2>1, <2>2
<1>4. ASSUME NEW v \in Workers, Raising(v)
      PROVE  /\ Item(v) \in Items /\ run[v].arg \in DOMAIN findings[Item(v)]
             /\ run[v].arg \in Findings /\ Repair(run[v].arg) \in Chains
             /\ st[Implement(Item(v), Repair(run[v].arg))] = "absent"
  <2>1. Item(v) \in Items /\ run[v].arg \in DOMAIN findings[Item(v)]
    BY <1>1, <1>4, AtWork DEF Raising, Placed, Informed
  <2>2. run[v].arg \in Findings
    BY <1>1, <2>1, Positions
  <2> QED BY <1>1, <1>4, <2>1, <2>2, ChainsAre DEF Mending, Mends
<1>5. Numbered'
  <2> SUFFICES ASSUME NEW i \in Items, NEW k \in Findings, st'[Implement(i, Repair(k))] # "absent"
               PROVE  k \in DOMAIN findings'[i]
    BY DEF Numbered
  <2>1. k \in DOMAIN findings[i]
    BY <1>1, <1>4 DEF Mending, Numbered
  <2> QED BY <2>1 DEF Lasting
<1>6. ASSUME NEW v \in Workers \ {w} PROVE Mends(v)' /\ Item(v)' = Item(v) /\ Raising(v)' = Raising(v)
  <2>1. run'[v] = run[v] /\ doing'[v] = doing[v] /\ Mends(v)
    BY <1>1 DEF Mending
  <2>2. Item(v)' = Item(v) /\ Chain(v)' = Chain(v) /\ Raising(v)' = Raising(v)
    BY <2>1 DEF Item, Chain, Raising
  <2>3. ASSUME Kind(doing[v]) = "implement", run[v].at \in {"built", "settle"}
        PROVE  /\ Repaired(Item(v), Chain(v)) => Repaired(Item(v), Chain(v))'
               /\ Wound(Item(v), Chain(v)) => Wound(Item(v), Chain(v))'
    <3>1. /\ doing[v] \in Jobs /\ st[doing[v]] # "absent"
          /\ Item(v) \in Items /\ Chain(v) \in Chains
      BY <1>1, <2>3, AtWork
    <3>2. doing[v] = Implement(Item(v), Chain(v))
      BY <2>3, <3>1, JobParts DEF Item, Chain
    <3>3. st[Implement(Item(v), Chain(v))] # "absent"
      BY <3>1, <3>2
    <3>4. \A i \in Items, c \in Chains : st[Implement(i, c)] # "absent" =>
            (Repaired(i, c) => Repaired(i, c)') /\ (Wound(i, c) => Wound(i, c)')
      BY <1>1, LastingRepair
    <3>5. \A i, c : i = Item(v) /\ c = Chain(v) =>
            /\ Repaired(i, c)' = Repaired(Item(v), Chain(v))'
            /\ Wound(i, c)' = Wound(Item(v), Chain(v))'
      BY <2>2 DEF Repaired, Wound
    <3> QED BY <3>1, <3>3, <3>4, <3>5
  <2>4. ASSUME Raising(v) PROVE st'[Implement(Item(v), Repair(run[v].arg))] = "absent"
    <3>1. w \in Workers /\ Raising(w) /\ Item(w) = Item(v) /\ run[w].arg = run[v].arg => v = w
      BY <1>1, <2>4 DEF Mending, RaisedOnce
    <3> QED BY <1>4, <2>4, <3>1
  <2>5. At(v, "implement", "built")' = At(v, "implement", "built")
        /\ At(v, "implement", "settle")' = At(v, "implement", "settle")
    BY <2>1 DEF At
  <2>6. Mends(v)'
    BY <2>1, <2>2, <2>3, <2>4, <2>5 DEF Mends, At
  <2> QED BY <2>2, <2>6
<1>7. \A v \in Workers : Mends(v)'
  BY <1>6
<1>8. RaisedOnce'
  <2> SUFFICES ASSUME NEW u \in Workers, NEW v \in Workers, Raising(u)', Raising(v)',
                      Item(u)' = Item(v)', run'[u].arg = run'[v].arg, u # v
               PROVE  FALSE
    BY DEF RaisedOnce
  <2>1. CASE u # w /\ v # w
    BY <1>1, <1>6, <2>1 DEF Mending, RaisedOnce
  <2>2. CASE u = w
    <3>1. Raising(v) /\ Item(v) = Item(w)' /\ run[v].arg = run'[w].arg
      BY <1>6, <2>2
    <3> QED BY <1>4, <2>2, <3>1
  <2>3. CASE v = w
    <3>1. Raising(u) /\ Item(u) = Item(w)' /\ run[u].arg = run'[w].arg
      BY <1>6, <2>3
    <3> QED BY <1>4, <2>3, <3>1
  <2> QED BY <2>1, <2>2, <2>3
<1> QED BY <1>3, <1>5, <1>7, <1>8 DEF Mending

\* Whoever neither raises nor enqueues a repair loses track of nothing.
LEMMA TrackSafe ==
  ASSUME MendInv, Lasting, NEW w, UNCHANGED findings,
         \A v \in Workers \ {w} : run'[v] = run[v] /\ doing'[v] = doing[v],
         w \in Workers => ~Raising(w),
         AllTracked
  PROVE  AllTracked'
<1> SUFFICES ASSUME NEW i \in Items, NEW k \in DOMAIN findings[i] \ closed'[i] PROVE Tracked(i, k)'
  BY DEF AllTracked
<1>1. k \in DOMAIN findings[i] \ closed[i]
  BY DEF Lasting
<1>2. Tracked(i, k)
  BY <1>1 DEF AllTracked
<1>3. CASE \E v \in Workers : Raising(v) /\ Item(v) = i /\ run[v].arg = k
  BY <1>3 DEF Tracked, Raising, Item
<1>4. CASE \E c \in Chains : payload[i][c].finding = k
  <2>1. PICK c \in Chains : payload[i][c].finding = k
    BY <1>4
  <2>2. k # NoFinding
    BY DEF MendInv, IInv, TypeOK
  <2>3. payload'[i][c] = payload[i][c]
    BY <2>1, <2>2 DEF Lasting, MendInv, Mending, Mended
  <2> QED BY <2>1, <2>3 DEF Tracked
<1> QED BY <1>2, <1>3, <1>4 DEF Tracked

\* A handler that has no finding in its hands.
LEMMA PlainMends ==
  ASSUME MendInv, IInv', NEW w \in Workers, Handle(w), ~Settle(w),
         UNCHANGED <<findings, payload, faults>>,
         \A i \in Items : closed[i] \subseteq closed'[i],
         \A i \in Items, k \in Findings :
           st[Implement(i, Repair(k))] = "absent" => st'[Implement(i, Repair(k))] = "absent",
         ~Raising(w), ~Raising(w)', Mends(w)'
  PROVE  Mending'
<1>1. IInv /\ Mending
  BY DEF MendInv
<1>2. /\ UNCHANGED <<holder, doing>>
      /\ \A v \in Workers \ {w} : run'[v] = run[v]
      /\ \A j \in Jobs : st'[j] = st[j] \/ (st[j] = "absent" /\ st'[j] = "ready")
  BY <1>1, HandlerSteps
<1>3. \A v \in Workers \ {w} : run'[v] = run[v] /\ doing'[v] = doing[v]
  BY <1>2
<1>4. Lasting
  BY <1>2 DEF Lasting
<1>5. \A i \in Items, c \in Chains :
        payload'[i][c].finding # NoFinding => st'[Implement(i, c)] # "absent"
  <2>1. \A i \in Items, c \in Chains : Implement(i, c) \in Jobs
    BY JobsOf
  <2> QED BY <1>1, <1>4, <2>1 DEF Lasting, Mending, Mended
<1>6. faults' = 0 => AllTracked'
  BY <1>1, <1>3, <1>4, TrackSafe DEF Mending
<1> QED BY <1>2, <1>3, <1>4, <1>5, <1>6, MendSafe

\* The handlers that only return, and say of no finding that it is repaired.
LEMMA ReturnMends ==
  ASSUME MendInv, IInv', NEW w \in Workers,
         \/ StopEarly(w) \/ ParkImplement(w) \/ FannedOut(w) \/ LockBusy(w)
         \/ RepairInFlight(w) \/ RoundsExhausted(w) \/ EnqueueIntegrate(w) \/ EnqueueDemo(w)
  PROVE  Mending'
<1>1. /\ run[w].at \in {"start", "failed", "resolved", "entered"}
      /\ UNCHANGED <<ledger, payload, faults>>
  BY DEF StopEarly, ParkImplement, FannedOut, LockBusy, RepairInFlight, RoundsExhausted,
         EnqueueIntegrate, EnqueueDemo, At
<1>2. PICK o : Return(w, o) /\ (Kind(doing[w]) = "implement" => o # "succeeded")
  BY DEF StopEarly, ParkImplement, FannedOut, LockBusy, RepairInFlight, RoundsExhausted,
         EnqueueIntegrate, EnqueueDemo, At, NackedAs
<1>3. run[w] \in RunRecords /\ run \in [Workers -> RunRecords] /\ IInv
  BY LedgerIs DEF MendInv, IInv
<1>4. run'[w].at \in {"unlock", "settle"} /\ run'[w].out = o
  BY <1>2, <1>3 DEF Return, RunRecords
<1>5. Handle(w) /\ ~Settle(w)
  BY <1>1 DEF Handle, Settle
<1>6. UNCHANGED doing
  BY <1>3, <1>5, HandlerSteps
<1>7. ~Raising(w) /\ ~Raising(w)' /\ Mends(w)'
  BY <1>1, <1>2, <1>4, <1>6 DEF Raising, Mends, At
<1>8. \A i \in Items, k \in Findings :
        st[Implement(i, Repair(k))] = "absent" => st'[Implement(i, Repair(k))] = "absent"
  <2>1. CASE UNCHANGED table
    BY <2>1
  <2>2. CASE EnqueueIntegrate(w)
    <3>1. Integrate(Item(w), Chain(w)) \in Jobs /\ Enqueue(Integrate(Item(w), Chain(w)))
      <4>1. Item(w) \in Items /\ Chain(w) \in Chains
        BY <1>1, <1>3, <2>2, AtWork DEF EnqueueIntegrate, At
      <4> QED BY <2>2, <4>1, JobsOf DEF EnqueueIntegrate
    <3>2. \A i \in Items, k \in Findings :
            Implement(i, Repair(k)) \in Jobs /\ Implement(i, Repair(k)) # Integrate(Item(w), Chain(w))
      BY JobsOf, ChainsAre DEF Implement, Integrate
    <3> QED BY <1>3, <3>1, <3>2 DEF Enqueue, Table!Offer, IInv, TypeOK
  <2> QED BY <2>1, <2>2 DEF StopEarly, ParkImplement, FannedOut, LockBusy, RepairInFlight,
             RoundsExhausted, EnqueueDemo
<1> QED BY <1>1, <1>5, <1>7, <1>8, PlainMends

\* The handlers that go on, and have no finding in their hands.
LEMMA GoMends ==
  ASSUME MendInv, IInv', NEW w \in Workers,
         \/ FanOut(w) \/ TakeLock(w) \/ Unlock(w) \/ ChecksFail(w) \/ ChecksPass(w)
         \/ ResolveSeen(w) \/ CountUnsettled(w) \/ EnterReview(w)
  PROVE  Mending'
<1>1. IInv /\ run[w] \in RunRecords /\ run \in [Workers -> RunRecords]
  BY LedgerIs DEF MendInv, IInv
<1>2. /\ run[w].at \in {"start", "unlock", "checking", "passed", "resolved", "last"}
      /\ UNCHANGED <<findings, payload, faults>>
      /\ Handle(w)
  BY DEF FanOut, TakeLock, Unlock, ChecksFail, ChecksPass, ResolveSeen, CountUnsettled,
         EnterReview, Checking, At, Handle
<1>3. Kind(doing[w]) # "implement"
  <2>1. run[w].at \in {"unlock", "passed"} => Kind(doing[w]) # "implement"
    BY <1>1, <1>2, AtWork DEF Placed
  <2>2. run[w].at \notin {"unlock", "passed"} => Kind(doing[w]) # "implement"
    BY DEF FanOut, TakeLock, Unlock, ChecksFail, ChecksPass, ResolveSeen, CountUnsettled,
           EnterReview, Checking, At
  <2> QED BY <2>1, <2>2
<1>4. ~Settle(w) /\ ~Raising(w)
  BY <1>2 DEF Settle, Raising
<1>5. UNCHANGED doing
  BY <1>1, <1>2, <1>4, HandlerSteps
<1>6. run'[w].at # "raised"
  BY <1>1, <1>2 DEF FanOut, TakeLock, Unlock, ChecksFail, ChecksPass, ResolveSeen, CountUnsettled,
                   EnterReview, Return, Goto, RunRecords
<1>7. ~Raising(w)' /\ Mends(w)'
  BY <1>3, <1>5, <1>6 DEF Raising, Mends, At
<1>8. \A i \in Items : closed[i] \subseteq closed'[i]
  <2>1. CASE ResolveSeen(w)
    BY <1>1, <2>1 DEF ResolveSeen, IInv, TypeOK
  <2> QED BY <2>1 DEF FanOut, TakeLock, Unlock, ChecksFail, ChecksPass, CountUnsettled, EnterReview
<1>9. \A i \in Items, k \in Findings :
        st[Implement(i, Repair(k))] = "absent" => st'[Implement(i, Repair(k))] = "absent"
  <2>1. CASE UNCHANGED table
    BY <2>1
  <2>2. CASE FanOut(w)
    <3>1. PICK j : Enqueue(j) /\ \A i \in Items, k \in Findings : Implement(i, Repair(k)) # j
      BY <2>2 DEF FanOut, Implement, Repair, Root
    <3>2. \A i \in Items, k \in Findings : Implement(i, Repair(k)) \in Jobs
      BY JobsOf, ChainsAre
    <3> QED BY <1>1, <3>1, <3>2 DEF Enqueue, Table!Offer, IInv, TypeOK
  <2> QED BY <2>1, <2>2 DEF TakeLock, Unlock, ChecksFail, ChecksPass, ResolveSeen, CountUnsettled,
                           EnterReview
<1> QED BY <1>2, <1>4, <1>7, <1>8, <1>9, PlainMends

\* A session that completes closes what its chain carries, and its verify is enqueued.
LEMMA CompleteMends ==
  ASSUME MendInv, IInv', NEW w \in Workers, Complete(w) \/ EnqueueVerify(w)
  PROVE  Mending'
<1>1. IInv /\ Mending /\ run[w] \in RunRecords /\ run \in [Workers -> RunRecords]
  BY LedgerIs DEF MendInv, IInv
<1>2. /\ run[w].at \in {"start", "built"} /\ Kind(doing[w]) = "implement" /\ Handle(w)
      /\ UNCHANGED <<findings, payload, faults>>
  BY DEF Complete, EnqueueVerify, At, Handle
<1>3. /\ doing[w] # NoJob /\ Item(w) \in Items /\ Chain(w) \in Chains
  BY <1>1, <1>2, AtWork
<1>4. ~Settle(w) /\ ~Raising(w)
  BY <1>2 DEF Settle, Raising
<1>5. UNCHANGED doing
  BY <1>1, <1>2, <1>4, HandlerSteps
<1>6. Item(w)' = Item(w) /\ Chain(w)' = Chain(w)
  BY <1>5 DEF Item, Chain
<1>7. CASE Complete(w)
  <2>1. /\ run'[w].at = "built" /\ UNCHANGED table
        /\ closed' = [closed EXCEPT ![Item(w)] = @ \cup ({Carried(w).finding} \ {NoFinding})]
    BY <1>1, <1>7 DEF Complete, Goto, RunRecords
  <2>2. \A i \in Items : closed[i] \subseteq closed'[i]
    BY <1>1, <2>1 DEF IInv, TypeOK
  <2>3. Repaired(Item(w), Chain(w))'
    <3>1. closed'[Item(w)] = closed[Item(w)] \cup ({Carried(w).finding} \ {NoFinding})
      BY <1>1, <1>3, <2>1 DEF IInv, TypeOK
    <3> QED BY <1>2, <1>6, <3>1 DEF Repaired, Carried
  <2>4. ~Raising(w)' /\ Mends(w)'
    BY <2>1, <2>3 DEF Raising, Mends, At
  <2> QED BY <1>2, <1>4, <2>1, <2>2, <2>4, PlainMends
<1>8. CASE EnqueueVerify(w)
  <2>1. /\ run[w].at = "built" /\ closed' = closed
        /\ Enqueue(Verify(Item(w), Chain(w))) /\ Return(w, "succeeded")
    BY <1>8 DEF EnqueueVerify, At
  <2>2. run'[w].at \in {"unlock", "settle"}
    BY <1>1, <2>1 DEF Return, RunRecords
  <2>3. Repaired(Item(w), Chain(w))
    BY <1>1, <1>2, <1>3, <2>1 DEF Mending, Mends, At
  <2>4. Repaired(Item(w), Chain(w))'
    BY <1>2, <1>6, <2>1, <2>3 DEF Repaired
  <2>5. ~Raising(w)' /\ Mends(w)'
    BY <2>2, <2>4 DEF Raising, Mends, At
  <2>6. \A i \in Items, k \in Findings :
          st[Implement(i, Repair(k))] = "absent" => st'[Implement(i, Repair(k))] = "absent"
    <3>1. \A i \in Items, k \in Findings :
            Implement(i, Repair(k)) \in Jobs /\ Implement(i, Repair(k)) # Verify(Item(w), Chain(w))
      BY JobsOf, ChainsAre DEF Implement, Verify
    <3> QED BY <1>1, <2>1, <3>1 DEF Enqueue, Table!Offer, IInv, TypeOK
  <2> QED BY <1>2, <1>4, <2>1, <2>5, <2>6, PlainMends
<1> QED BY <1>7, <1>8

\* A wind-down hands its finding to a successor, if the successor's key is free.
LEMMA WindDownMends ==
  ASSUME MendInv, IInv', NEW w \in Workers, WindDown(w)
  PROVE  Mending'
<1> DEFINE i == Item(w)
           c == Chain(w)
           n == payload[i][c].winds + 1
           next == Implement(i, Wind(n))
<1>1. IInv /\ Mending /\ TypeOK /\ run[w] \in RunRecords /\ run \in [Workers -> RunRecords]
  BY LedgerIs DEF MendInv, IInv
<1>2. /\ run[w].at = "start" /\ Kind(doing[w]) = "implement" /\ Handle(w)
      /\ payload[i][c].winds < MaxWinds /\ Enqueue(next)
      /\ payload' = IF st[next] = "absent"
                    THEN [payload EXCEPT ![i][Wind(n)] = [payload[i][c] EXCEPT !.winds = n]]
                    ELSE payload
      /\ Return(w, "succeeded")
      /\ UNCHANGED <<ledger, faults>>
  BY DEF WindDown, At, Handle, Carried
<1>3. /\ doing[w] # NoJob /\ doing[w] \in Jobs /\ i \in Items /\ c \in Chains
      /\ st[doing[w]] # "absent"
  BY <1>1, <1>2, AtWork
<1>4. ~Settle(w) /\ ~Raising(w)
  BY <1>2 DEF Settle, Raising
<1>5. /\ UNCHANGED <<holder, doing>>
      /\ \A v \in Workers \ {w} : run'[v] = run[v]
      /\ \A j \in Jobs : st'[j] = st[j] \/ (st[j] = "absent" /\ st'[j] = "ready")
  BY <1>1, <1>2, <1>4, HandlerSteps
<1>6. n \in 1 .. MaxWinds
  <2>1. payload[i][c].winds \in 0 .. MaxWinds
    BY <1>1, <1>3 DEF TypeOK
  <2> QED BY <1>2, <2>1
<1>7. Wind(n) \in Chains /\ next \in Jobs
  BY <1>3, <1>6, ChainsAre, JobsOf
<1>8. st'[next] # "absent" /\ \A j \in Jobs \ {next} : st'[j] = st[j]
  BY <1>1, <1>2, <1>7 DEF Enqueue, Table!Offer, TypeOK
<1>9. doing[w] = Implement(i, c)
  BY <1>2, <1>3, JobParts DEF Item, Chain
<1>10. payload' \in Payloads /\ payload \in Payloads
  BY <1>1 DEF IInv, TypeOK
<1>11. \A j \in Items, d \in Chains :
         payload'[j][d] = payload[j][d] \/ (j = i /\ d = Wind(n) /\ st[next] = "absent")
  BY <1>2, <1>3, <1>7, <1>10
<1>12. Lasting
  <2>1. \A j \in Jobs : st[j] # "absent" => st'[j] # "absent"
    BY <1>5
  <2> QED BY <1>2, <1>11, <2>1 DEF Lasting
<1>13. \A j \in Items, d \in Chains :
         payload'[j][d].finding # NoFinding => st'[Implement(j, d)] # "absent"
  <2> SUFFICES ASSUME NEW j \in Items, NEW d \in Chains, payload'[j][d].finding # NoFinding
               PROVE  st'[Implement(j, d)] # "absent"
    OBVIOUS
  <2>1. Implement(j, d) \in Jobs
    BY JobsOf
  <2>2. CASE payload'[j][d] = payload[j][d]
    BY <1>1, <1>12, <2>1, <2>2 DEF Mending, Mended, Lasting
  <2>3. CASE j = i /\ d = Wind(n)
    BY <1>8, <2>3
  <2> QED BY <1>11, <2>2, <2>3
<1>14. \A j \in Items, k \in Findings :
         st'[Implement(j, Repair(k))] # "absent" => st[Implement(j, Repair(k))] # "absent"
  <2>1. \A j \in Items, k \in Findings :
          Implement(j, Repair(k)) \in Jobs /\ Implement(j, Repair(k)) # next
    BY <1>3, <1>6, <1>7, JobsOf, ChainsAre DEF next, Implement
  <2> QED BY <1>8, <2>1
<1>15. run'[w].at \in {"unlock", "settle"}
  BY <1>1, <1>2 DEF Return, RunRecords
<1>16. Wound(i, c)'
  <2>1. payload'[i][c] = payload[i][c]
    BY <1>3, <1>9, <1>12 DEF Lasting
  <2>2. Item(w)' = i /\ Chain(w)' = c
    BY <1>5 DEF Item, Chain
  <2> QED BY <1>2, <1>8, <2>1, <2>2 DEF Wound
<1>17. Mends(w)' /\ ~Raising(w)'
  <2>1. Item(w)' = i /\ Chain(w)' = c
    BY <1>5 DEF Item, Chain
  <2> QED BY <1>15, <1>16, <2>1 DEF Mends, Raising, At
<1>18. faults' = 0 => AllTracked'
  <2>1. \A v \in Workers \ {w} : run'[v] = run[v] /\ doing'[v] = doing[v]
    BY <1>5
  <2> QED BY <1>1, <1>2, <1>4, <1>12, <2>1, TrackSafe DEF Mending
<1> QED BY <1>4, <1>5, <1>12, <1>13, <1>14, <1>17, <1>18, MendSafe

\* A finding that is raised is a new one.
LEMMA RaiseFindingMends ==
  ASSUME MendInv, IInv', NEW w \in Workers, RaiseFinding(w)
  PROVE  Mending'
<1> DEFINE i == Item(w)
           k == Len(findings[i]) + 1
<1>1. IInv /\ Mending /\ TypeOK /\ run[w] \in RunRecords /\ run \in [Workers -> RunRecords]
  BY LedgerIs DEF MendInv, IInv
<1>2. /\ run[w].at = "failed" /\ Handle(w) /\ Len(findings[i]) < MaxFindings
      /\ findings' = [findings EXCEPT ![i] = Append(@, Kind(doing[w]))]
      /\ UNCHANGED <<table, closed, payload, faults>>
  BY DEF RaiseFinding, Handle
<1>3. /\ doing[w] # NoJob /\ i \in Items /\ Kind(doing[w]) \in Classes
  BY <1>1, <1>2, AtWork DEF Placed
<1>4. /\ Len(findings'[i]) = k /\ \A j \in Items \ {i} : findings'[j] = findings[j]
      /\ \A j \in Items : DOMAIN findings[j] \subseteq DOMAIN findings'[j]
      /\ DOMAIN findings[i] = 1 .. Len(findings[i]) /\ Len(findings[i]) \in Nat
      /\ DOMAIN findings'[i] = 1 .. Len(findings'[i])
  <2> DEFINE class == Kind(doing[w])
  <2>1. class \in Classes /\ findings' = [findings EXCEPT ![i] = Append(@, class)]
    BY <1>2, <1>3
  <2> HIDE DEF class
  <2>2. /\ Len(findings'[i]) = k /\ \A j \in Items \ {i} : findings'[j] = findings[j]
        /\ \A j \in Items : DOMAIN findings[j] \subseteq DOMAIN findings'[j]
        /\ findings' \in [Items -> Seq(Classes)]
    BY <1>1, <1>3, <2>1, Appending
  <2> QED BY <1>1, <1>3, <2>2, Positions
<1>5. /\ run'[w].at = "raised" /\ run'[w].arg = k
      /\ \A v \in Workers \ {w} : run'[v] = run[v] /\ doing'[v] = doing[v]
      /\ Item(w)' = i
  BY <1>1, <1>2, <1>4 DEF RaiseFinding, RunRecords, Item
<1>6. k \notin DOMAIN findings[i] /\ k \in Findings
  BY <1>2, <1>4
<1>7. Lasting
  BY <1>2, <1>4 DEF Lasting
<1>8. \A j \in Items, c \in Chains :
        payload'[j][c].finding # NoFinding => st'[Implement(j, c)] # "absent"
  BY <1>1, <1>2 DEF Mending, Mended
<1>9. st[Implement(i, Repair(k))] = "absent"
  BY <1>1, <1>3, <1>6 DEF Mending, Numbered
<1>10. Mends(w)'
  BY <1>2, <1>5, <1>9 DEF Mends, At
<1>11. ASSUME faults' = 0 PROVE AllTracked'
  <2> SUFFICES ASSUME NEW j \in Items, NEW m \in DOMAIN findings'[j] \ closed[j]
               PROVE  Tracked(j, m)'
    BY <1>2 DEF AllTracked
  <2>1. CASE m \in DOMAIN findings[j]
    <3>1. Tracked(j, m)
      BY <1>1, <1>2, <1>11, <2>1 DEF Mending, AllTracked
    <3>2. \A v \in Workers : Raising(v) => Raising(v)' /\ Item(v)' = Item(v) /\ run'[v] = run[v]
      BY <1>2, <1>5 DEF Raising, Item
    <3> QED BY <1>2, <3>1, <3>2 DEF Tracked
  <2>2. CASE m \notin DOMAIN findings[j]
    <3>1. j = i /\ m = k
      BY <1>4, <2>2
    <3> QED BY <1>5, <3>1 DEF Tracked, Raising
  <2> QED BY <2>1, <2>2
<1> QED BY <1>2, <1>5, <1>6, <1>7, <1>8, <1>10, <1>11, MendSafe

\* The repair of a finding that was just raised is enqueued with it.
LEMMA EnqueueRepairMends ==
  ASSUME MendInv, IInv', NEW w \in Workers, EnqueueRepair(w)
  PROVE  Mending'
<1> DEFINE i == Item(w)
           k == run[w].arg
           next == Implement(i, Repair(k))
<1>1. IInv /\ Mending /\ TypeOK /\ run[w] \in RunRecords /\ run \in [Workers -> RunRecords]
  BY LedgerIs DEF MendInv, IInv
<1>2. /\ run[w].at = "raised" /\ Handle(w) /\ Enqueue(next) /\ Return(w, "ready")
      /\ payload' = [payload EXCEPT ![i][Repair(k)] = [payload[i][Chain(w)] EXCEPT !.finding = k]]
      /\ UNCHANGED <<ledger, faults>>
  BY DEF EnqueueRepair, Handle, Carried
<1>3. /\ doing[w] # NoJob /\ Kind(doing[w]) \in Classes /\ i \in Items /\ Chain(w) \in Chains
      /\ k \in DOMAIN findings[i]
  BY <1>1, <1>2, AtWork DEF Placed, Informed
<1>4. ~Settle(w) /\ Raising(w)
  BY <1>2 DEF Settle, Raising
<1>5. /\ UNCHANGED <<holder, doing>>
      /\ \A v \in Workers \ {w} : run'[v] = run[v]
      /\ \A j \in Jobs : st'[j] = st[j] \/ (st[j] = "absent" /\ st'[j] = "ready")
  BY <1>1, <1>2, <1>4, HandlerSteps
<1>6. k \in Findings /\ Repair(k) \in Chains /\ next \in Jobs
  <2>1. k \in Findings
    BY <1>1, <1>3, Positions
  <2> QED BY <1>3, <2>1, ChainsAre, JobsOf
<1>7. st[next] = "absent"
  BY <1>1, <1>4 DEF Mending, Mends
<1>8. st'[next] # "absent" /\ \A j \in Jobs \ {next} : st'[j] = st[j]
  BY <1>1, <1>2, <1>6 DEF Enqueue, Table!Offer, TypeOK
<1>9. payload \in Payloads
  BY <1>1 DEF TypeOK
<1>10. /\ payload'[i][Repair(k)].finding = k
       /\ \A j \in Items, d \in Chains :
            payload'[j][d] = payload[j][d] \/ (j = i /\ d = Repair(k))
  BY <1>2, <1>3, <1>6, <1>9
<1>11. Lasting
  <2>1. \A j \in Jobs : st[j] # "absent" => st'[j] # "absent"
    BY <1>5
  <2> QED BY <1>2, <1>7, <1>10, <2>1 DEF Lasting
<1>12. \A j \in Items, d \in Chains :
         payload'[j][d].finding # NoFinding => st'[Implement(j, d)] # "absent"
  <2> SUFFICES ASSUME NEW j \in Items, NEW d \in Chains, payload'[j][d].finding # NoFinding
               PROVE  st'[Implement(j, d)] # "absent"
    OBVIOUS
  <2>1. Implement(j, d) \in Jobs
    BY JobsOf
  <2>2. CASE payload'[j][d] = payload[j][d]
    BY <1>1, <1>11, <2>1, <2>2 DEF Mending, Mended, Lasting
  <2>3. CASE j = i /\ d = Repair(k)
    BY <1>8, <2>3
  <2> QED BY <1>10, <2>2, <2>3
<1>13. \A j \in Items, m \in Findings :
         st'[Implement(j, Repair(m))] # "absent" =>
           st[Implement(j, Repair(m))] # "absent" \/ (i = j /\ k = m)
  <2>1. \A j \in Items, m \in Findings :
          /\ Implement(j, Repair(m)) \in Jobs
          /\ Implement(j, Repair(m)) = next => i = j /\ k = m
    BY <1>3, <1>6, JobsOf, ChainsAre DEF next, Implement, Repair
  <2> QED BY <1>8, <2>1
<1>14. run'[w].at \in {"unlock", "settle"} /\ Kind(doing'[w]) # "implement"
  BY <1>1, <1>2, <1>3, <1>5 DEF Return, RunRecords
<1>15. Mends(w)' /\ ~Raising(w)'
  BY <1>14 DEF Mends, Raising, At
<1>16. ASSUME faults' = 0 PROVE AllTracked'
  <2> SUFFICES ASSUME NEW j \in Items, NEW m \in DOMAIN findings[j] \ closed[j]
               PROVE  Tracked(j, m)'
    BY <1>2 DEF AllTracked
  <2>1. Tracked(j, m)
    BY <1>1, <1>2, <1>16 DEF Mending, AllTracked
  <2>2. CASE j = i /\ m = k
    BY <1>6, <1>10, <2>2 DEF Tracked
  <2>3. CASE \E v \in Workers \ {w} : Raising(v) /\ Item(v) = j /\ run[v].arg = m
    BY <1>5, <2>3 DEF Tracked, Raising, Item
  <2>4. CASE \E c \in Chains : payload[j][c].finding = m
    <3>1. PICK c \in Chains : payload[j][c].finding = m
      BY <2>4
    <3>2. m # NoFinding
      BY <1>1 DEF TypeOK
    <3>3. payload'[j][c] = payload[j][c]
      BY <1>1, <1>11, <3>1, <3>2 DEF Lasting, Mending, Mended
    <3> QED BY <3>1, <3>3 DEF Tracked
  <2> QED BY <2>1, <2>2, <2>3, <2>4 DEF Tracked
<1> QED BY <1>4, <1>5, <1>11, <1>12, <1>13, <1>15, <1>16, MendSafe

\* A row that a worker settles as succeeded is of a session that was finished or wound
\* down; crashes and exceptions leave the rows, and may lose what was raised.
LEMMA EndMends ==
  ASSUME MendInv, IInv', NEW w \in Workers, Settle(w) \/ Raise(w) \/ Crash(w)
  PROVE  Mending'
<1>1. IInv /\ Mending /\ TypeOK /\ run[w] \in RunRecords /\ run \in [Workers -> RunRecords]
  BY LedgerIs DEF MendInv, IInv
<1>2. UNCHANGED <<ledger, payload>>
  BY DEF Settle, Raise, Crash
<1>3. \A v \in Workers \ {w} : run'[v] = run[v] /\ doing'[v] = doing[v]
  BY <1>1 DEF Settle, Raise, Crash, Return, Table!Report, Table!Forget, TypeOK
<1>4. doing[w] \in Jobs /\ st[doing[w]] # "absent"
  <2>1. run[w].at # "idle"
    BY <1>1 DEF Settle, Raise, Crash, Table!Forget, TypeOK
  <2> QED BY <1>1, <2>1, AtWork
<1>5. /\ \A j \in Jobs : st[j] = "absent" <=> st'[j] = "absent"
      /\ \A j \in Jobs : st'[j] = "succeeded" =>
           \/ st[j] = "succeeded"
           \/ w \in Workers /\ j = doing[w] /\ run[w].at = "settle" /\ run[w].out = "succeeded"
  <2>1. CASE Settle(w)
    <3>1. CASE st' = st
      BY <3>1
    <3>2. CASE Table!Report(w, doing[w]) /\ st'[doing[w]] = run[w].out
      <4>1. /\ \A j \in Jobs \ {doing[w]} : st'[j] = st[j]
            /\ st'[doing[w]] # "absent"
        BY <1>1, <1>4, <3>2 DEF Table!Report, TypeOK
      <4> QED BY <1>4, <2>1, <3>2, <4>1 DEF Settle
    <3> QED BY <2>1, <3>1, <3>2 DEF Settle, Table!Forget
  <2>2. CASE Raise(w) \/ Crash(w)
    BY <2>2 DEF Raise, Crash, Table!Forget
  <2> QED BY <2>1, <2>2
<1>6. Lasting
  BY <1>2, <1>5 DEF Lasting
<1>7. \A i \in Items, c \in Chains : Implement(i, c) \in Jobs
  BY JobsOf
<1>8. \A i \in Items, c \in Chains :
        payload'[i][c].finding # NoFinding => st'[Implement(i, c)] # "absent"
  BY <1>1, <1>2, <1>5, <1>7 DEF Mending, Mended
<1>9. \A i \in Items, k \in Findings :
        st'[Implement(i, Repair(k))] # "absent" => st[Implement(i, Repair(k))] # "absent"
  BY <1>5, <1>7, ChainsAre
<1>10. Mends(w)' /\ ~Raising(w)'
  <2>1. CASE Settle(w) \/ Crash(w)
    <3>1. run'[w].at = "idle"
      BY <1>1, <2>1 DEF Settle, Crash, Idle
    <3> QED BY <3>1 DEF Mends, Raising, At
  <2>2. CASE Raise(w)
    <3>1. PICK s \in NackedAs(doing[w]) : Return(w, s)
      BY <2>2 DEF Raise
    <3>2. run'[w].at \in {"unlock", "settle"} /\ run'[w].out = s /\ s # "succeeded"
      BY <1>1, <3>1 DEF Return, RunRecords, NackedAs
    <3> QED BY <3>2 DEF Mends, Raising, At
  <2> QED BY <2>1, <2>2
<1>11. ASSUME faults' = 0 PROVE AllTracked'
  <2>1. faults = 0 /\ ~Raising(w)
    BY <1>1, <1>11 DEF Settle, Raise, Crash, Raising, TypeOK
  <2>2. UNCHANGED findings /\ AllTracked
    BY <1>1, <1>2, <2>1 DEF Mending
  <2> QED BY <1>3, <1>6, <2>1, <2>2, TrackSafe
<1> QED BY <1>3, <1>5, <1>6, <1>8, <1>9, <1>10, <1>11, MendSafe

\* The worker loop writes neither findings nor payloads.
LEMMA LoopMends ==
  ASSUME MendInv, IInv',
         \/ Kickoff
         \/ \E j \in Jobs : Answer(j) \/ Reap(j) \/ LoseLease(j)
         \/ \E w \in Workers, j \in Jobs : Claim(w, j)
         \/ UNCHANGED vars
  PROVE  Mending'
<1>1. IInv /\ Mending /\ TypeOK /\ run \in [Workers -> RunRecords]
  BY LedgerIs DEF MendInv, IInv
<1>2. UNCHANGED <<ledger, payload>>
  BY DEF Kickoff, Answer, Reap, LoseLease, Claim, vars
<1>3. faults' = 0 => faults = 0
  <2>1. faults \in Nat
    BY <1>1 DEF TypeOK
  <2>2. faults' = faults \/ faults' = faults + 1
    BY DEF Kickoff, Answer, Reap, LoseLease, Claim, vars
  <2> QED BY <2>1, <2>2
<1>4. \A j \in Jobs : /\ st[j] # "absent" => st'[j] # "absent"
                      /\ st'[j] # "absent" => st[j] # "absent" \/ j = Decompose
                      /\ st'[j] = "succeeded" => st[j] = "succeeded"
  <2>1. ASSUME NEW k \in Jobs, st' = [st EXCEPT ![k] = "ready"], st[k] # "absent" \/ k = Decompose
        PROVE  \A j \in Jobs : /\ st[j] # "absent" => st'[j] # "absent"
                               /\ st'[j] # "absent" => st[j] # "absent" \/ j = Decompose
                               /\ st'[j] = "succeeded" => st[j] = "succeeded"
    BY <1>1, <2>1 DEF TypeOK
  <2>2. CASE Kickoff
    BY <2>1, <2>2, DecomposeIs DEF Kickoff, Table!Offer
  <2>3. ASSUME NEW k \in Jobs, Answer(k)
        PROVE  st[k] # "absent" /\ st' = [st EXCEPT ![k] = "ready"]
    BY <2>3 DEF Answer, Table!Resume
  <2>4. ASSUME NEW k \in Jobs, Reap(k) \/ LoseLease(k)
        PROVE  st[k] # "absent" /\ st' = [st EXCEPT ![k] = "ready"]
    BY <1>1, <2>4 DEF Reap, LoseLease, Table!Revoke, TypeOK
  <2>5. ASSUME NEW v \in Workers, NEW k \in Jobs, Claim(v, k)
        PROVE  \A j \in Jobs : /\ st[j] # "absent" => st'[j] # "absent"
                               /\ st'[j] # "absent" => st[j] # "absent" \/ j = Decompose
                               /\ st'[j] = "succeeded" => st[j] = "succeeded"
    BY <1>1, <2>5 DEF Claim, Table!Grant, TypeOK
  <2>6. CASE UNCHANGED vars
    BY <2>6 DEF vars
  <2> QED BY <2>1, <2>2, <2>3, <2>4, <2>5, <2>6
<1>5. Lasting
  BY <1>2, <1>4 DEF Lasting
<1>6. \A i \in Items, c \in Chains : Implement(i, c) \in Jobs \ {Decompose}
  BY JobsOf
<1>7. \A i \in Items, c \in Chains :
        payload'[i][c].finding # NoFinding => st'[Implement(i, c)] # "absent"
  BY <1>1, <1>2, <1>4, <1>6 DEF Mending, Mended
<1>8. \A i \in Items, k \in Findings :
        st'[Implement(i, Repair(k))] # "absent" => st[Implement(i, Repair(k))] # "absent"
  BY <1>4, <1>6, ChainsAre
<1>9. CASE UNCHANGED <<run, doing>>
  <2>1. \A v \in Workers \ {NoWorker} : run'[v] = run[v] /\ doing'[v] = doing[v]
    BY <1>9
  <2>2. faults' = 0 => AllTracked'
    BY <1>1, <1>2, <1>3, <1>5, <2>1, NullAssumption, TrackSafe DEF Mending
  <2> QED BY <1>4, <1>5, <1>7, <1>8, <2>1, <2>2, NullAssumption, MendSafe
<1>10. ASSUME NEW w \in Workers, NEW j \in Jobs, Claim(w, j) PROVE Mending'
  <2>1. /\ doing[w] = NoJob /\ run' = [run EXCEPT ![w] = [Idle EXCEPT !.at = "start"]]
        /\ doing' = [doing EXCEPT ![w] = j]
    BY <1>10 DEF Claim, Table!Grant
  <2>2. \A v \in Workers \ {w} : run'[v] = run[v] /\ doing'[v] = doing[v]
    BY <1>1, <2>1 DEF TypeOK
  <2>3. run'[w].at = "start" /\ ~Raising(w)
    BY <1>1, <2>1 DEF Idle, Raising, TypeOK
  <2>4. Mends(w)' /\ ~Raising(w)'
    BY <2>3 DEF Mends, Raising, At
  <2>5. faults' = 0 => AllTracked'
    BY <1>1, <1>2, <1>3, <1>5, <2>2, <2>3, TrackSafe DEF Mending
  <2> QED BY <1>4, <1>5, <1>7, <1>8, <2>2, <2>4, <2>5, MendSafe
<1>11. UNCHANGED <<run, doing>> \/ \E w \in Workers, j \in Jobs : Claim(w, j)
  BY DEF Kickoff, Answer, Reap, LoseLease, Table!Offer, Table!Resume, Table!Revoke, vars
<1> QED BY <1>9, <1>10, <1>11

\* No step loses track of a finding or mends it by halves.
LEMMA MendNext ==
  ASSUME MendInv, [Next]_vars
  PROVE  MendInv'
<1>1. IInv'
  BY InvNext DEF MendInv
<1>2. ASSUME NEW w \in Workers, Handle(w) PROVE Mending'
  BY <1>1, <1>2, ReturnMends, GoMends, CompleteMends, WindDownMends, RaiseFindingMends,
     EnqueueRepairMends, EndMends DEF Handle
<1>3. ASSUME NEW w \in Workers, Raise(w) \/ Crash(w) PROVE Mending'
  BY <1>1, <1>3, EndMends
<1>4. Mending'
  BY <1>1, <1>2, <1>3, LoopMends DEF Next
<1> QED BY <1>1, <1>4 DEF MendInv

\* Of the chains that carry an open finding, and have all come to an end, the one that
\* was handed on most often was given up, or its successor's key was another's.
LEMMA LastCarrier ==
  ASSUME MendInv, faults = 0, NEW i \in Items, NEW k \in DOMAIN findings[i] \ closed[i]
  PROVE  InRepair(i, k) \/ GivenUp(i, k) \/ Displaced(i, k)
<1> SUFFICES ASSUME ~InRepair(i, k), ~GivenUp(i, k) PROVE Displaced(i, k)
  OBVIOUS
<1>1. IInv /\ Mending /\ TypeOK /\ Tracked(i, k)
  BY DEF MendInv, IInv, Mending, AllTracked
<1>2. k # NoFinding
  BY <1>1 DEF TypeOK
<1> DEFINE C == {c \in Chains : payload[i][c].finding = k}
           T == {payload[i][c].winds : c \in C}
<1>3. C # {}
  BY <1>1 DEF Tracked, InRepair, Raising
<1>4. \A c \in C : st[Implement(i, c)] = "succeeded" /\ payload[i][c].winds \in 0 .. MaxWinds
  <2>1. \A c \in C : st[Implement(i, c)] # "absent"
    BY <1>1, <1>2 DEF Mending, Mended
  <2>2. \A c \in C : ~Unsettled(Implement(i, c)) /\ st[Implement(i, c)] # "failed"
    BY DEF InRepair, GivenUp
  <2>3. \A c \in Chains : Implement(i, c) \in Jobs
    BY JobsOf
  <2>4. \A c \in Chains : st[Implement(i, c)] \in RowStates
    BY <1>1, <2>3 DEF TypeOK, RowStates
  <2> QED BY <1>1, <2>1, <2>2, <2>4 DEF Unsettled, RowStates, TypeOK
<1>5. \A c \in C : Wound(i, c)
  <2>1. \A c \in C : ~Repaired(i, c)
    BY <1>2 DEF Repaired
  <2> QED BY <1>1, <1>4, <2>1 DEF Mending, Mended
<1>6. PICK c \in C : \A d \in C : payload[i][d].winds <= payload[i][c].winds
  <2>1. CASE \A c \in C : payload[i][c].winds = 0
    BY <1>3, <2>1
  <2>2. CASE \E c \in C : payload[i][c].winds # 0
    <3> DEFINE P == T \ {0}
    <3>1. P \in SUBSET (1 .. MaxWinds) /\ P # {} /\ MaxWinds \in Nat
      <4>1. \A m \in 0 .. MaxWinds : m # 0 => m \in 1 .. MaxWinds
        OBVIOUS
      <4>2. P # {} /\ \A m \in P : m \in 1 .. MaxWinds
        BY <1>4, <2>2, <4>1
      <4> QED BY <4>2
    <3>2. PICK m \in P : \A n \in P : n <= m
      BY <3>1, Greatest
    <3>3. PICK c \in C : payload[i][c].winds = m
      BY <3>2
    <3>4. \A d \in C : payload[i][d].winds <= m
      <4> SUFFICES ASSUME NEW d \in C PROVE payload[i][d].winds <= m
        OBVIOUS
      <4>1. payload[i][d].winds \in Nat /\ m \in 1 .. MaxWinds
        BY <1>4, <3>1, <3>2
      <4>2. payload[i][d].winds # 0 => payload[i][d].winds \in P
        OBVIOUS
      <4> QED BY <3>2, <4>1, <4>2
    <3> QED BY <3>3, <3>4
  <2> QED BY <2>1, <2>2
<1> DEFINE n == payload[i][c].winds + 1
<1>7. n \in 1 .. MaxWinds /\ st[Implement(i, Wind(n))] # "absent"
  BY <1>4, <1>5, <1>6 DEF Wound
<1>8. payload[i][Wind(n)].winds = n
  BY <1>1, <1>7 DEF IInv, Carrying
<1>9. payload[i][Wind(n)].finding # k
  <2>1. Wind(n) \in Chains
    BY <1>7, ChainsAre
  <2>2. Wind(n) \notin C
    BY <1>4, <1>6, <1>8
  <2> QED BY <2>1, <2>2
<1> QED BY <1>4, <1>5, <1>6, <1>7, <1>9 DEF Displaced, Wound

\* Without a crash, an exception or a lost lease, every open finding is being repaired, or
\* its repair ran out of attempts, or was wound down and met a successor's key that was
\* another's: no other order of the handlers of an item leaves a finding behind.
THEOREM FindingsAreRepaired == Spec => []OpenFindingHasRepair
<1>1. Init => MendInv
  <2> SUFFICES ASSUME Init PROVE Mending
    BY InvInit DEF MendInv
  <2>1. /\ \A j \in Jobs : st[j] = "absent"
        /\ \A w \in Workers : run[w] = Idle
        /\ findings = [i \in Items |-> <<>>]
        /\ payload = [i \in Items |-> [c \in Chains |-> Blank]]
    BY DEF Init, Table!Init
  <2>2. Mended /\ Numbered
    <3>1. \A i \in Items, c \in Chains : Implement(i, c) \in Jobs /\ payload[i][c].finding = NoFinding
      BY <2>1, JobsOf
    <3> QED BY <2>1, <3>1, ChainsAre DEF Mended, Numbered
  <2>3. RaisedOnce /\ \A w \in Workers : Mends(w)
    BY <2>1 DEF RaisedOnce, Raising, Mends, At, Idle
  <2>4. AllTracked
    BY <2>1 DEF AllTracked
  <2> QED BY <2>2, <2>3, <2>4 DEF Mending
<1>2. MendInv /\ [Next]_vars => MendInv'
  BY MendNext
<1>3. MendInv => OpenFindingHasRepair
  BY LastCarrier DEF OpenFindingHasRepair
<1> QED BY <1>1, <1>2, <1>3, PTL DEF Spec

-----------------------------------------------------------------------------
(* One worker: a project in REVIEW gets its demo                           *)

\* A job is not settled while a worker has it: no other worker could.
Serial == \A w \in Workers : doing[w] # NoJob => Unsettled(doing[w])

\* Only a job whose dependencies have succeeded is ever claimed.
Ordered ==
  \A j \in Jobs : st[j] \notin {"absent", "ready"} => \A d \in DependsOn(j) : st[d] = "succeeded"

Unfailing ==
  GivesUp = {} => /\ \A w \in Workers : run[w].out # "failed"
                  /\ \A j \in Jobs : st[j] # "failed"

\* The two ends of a job that leave nothing to count: it ran out of attempts, or it was
\* wound down, for the key of its successor may be another's.
Blemished ==
  \/ \E j \in Jobs : st[j] = "failed"
  \/ \E i \in Items, n \in 1 .. MaxWinds : st[Implement(i, Wind(n))] # "absent"

\* Whoever leaves its handler with success leaves something to be counted.
LeavesMore(w) ==
  run[w].at \in {"unlock", "settle"} /\ run[w].out = "succeeded" =>
    \E k \in Jobs \ {doing[w]} : Unsettled(k)

Concluding ==
  phase = "REVIEW" /\ ~demo => /\ \A w \in Workers : LeavesMore(w)
                              /\ ReviewGetsItsDemo

DemoInv == IInv /\ Serial /\ Ordered /\ Unfailing /\ (Blemished \/ Concluding)

\* A row that a handler inserts keeps the order, and settles nothing.
LEMMA HandleOrder ==
  ASSUME DemoInv, NEW w \in Workers, Workers = {w}, Handle(w), ~Settle(w)
  PROVE  /\ Serial' /\ Ordered' /\ Unfailing'
         /\ Blemished => Blemished'
<1>1. /\ IInv /\ TypeOK /\ Serial /\ Ordered /\ Unfailing
      /\ run[w] \in RunRecords /\ run \in [Workers -> RunRecords]
  BY LedgerIs DEF DemoInv, IInv
<1>2. /\ doing[w] \in Jobs /\ doing[w] # NoJob /\ UNCHANGED doing
      /\ \A j \in Jobs : st'[j] = st[j] \/ (st[j] = "absent" /\ st'[j] = "ready")
  BY <1>1, HandlerSteps
<1>3. Serial'
  BY <1>1, <1>2 DEF Serial, Unsettled
<1>4. Ordered'
  <2>1. \A j \in Jobs : DependsOn(j) \subseteq Jobs
    BY JobParts, JobsOf, ChainsAre, ItemsAssumption DEF DependsOn, Kinds
  <2> QED BY <1>1, <1>2, <2>1 DEF Ordered
<1>5. Unfailing'
  <2>1. ASSUME GivesUp = {} PROVE run'[w].out # "failed"
    <3>1. run[w].out # "failed"
      BY <1>1, <2>1 DEF Unfailing
    <3>2. \A o : Return(w, o) => run'[w].out = o
      BY <1>1 DEF Return, RunRecords
    <3> QED BY <1>1, <2>1, <3>1, <3>2
         DEF Handle, StopEarly, NackedAs, ParkImplement, FanOut, FannedOut, Complete, EnqueueVerify,
             WindDown, LockBusy, TakeLock, Unlock, ChecksFail, RepairInFlight, RoundsExhausted,
             RaiseFinding, EnqueueRepair, ChecksPass, ResolveSeen, EnqueueIntegrate, CountUnsettled,
             EnterReview, EnqueueDemo, Goto, RunRecords
  <2> QED BY <1>1, <1>2, <2>1 DEF Unfailing
<1>6. Blemished => Blemished'
  <2>1. \A i \in Items, n \in 1 .. MaxWinds : Implement(i, Wind(n)) \in Jobs
    BY JobsOf, ChainsAre
  <2> QED BY <1>2, <2>1 DEF Blemished
<1> QED BY <1>3, <1>4, <1>5, <1>6

\* A handler that returns with success has inserted what comes next, has counted what is
\* left, or has enqueued the demo.
LEMMA HandleConcludes ==
  ASSUME DemoInv, IInv', NEW w \in Workers, Workers = {w}, Handle(w), ~Settle(w), ~Blemished'
  PROVE  Concluding'
<1>1. /\ IInv /\ TypeOK /\ Serial /\ Ordered /\ Concluding
      /\ run[w] \in RunRecords /\ run \in [Workers -> RunRecords]
  BY LedgerIs, HandleOrder DEF DemoInv, IInv
<1>2. /\ doing[w] \in Jobs /\ doing[w] # NoJob /\ UNCHANGED doing /\ run[w].at # "idle"
      /\ \A j \in Jobs : st'[j] = st[j] \/ (st[j] = "absent" /\ st'[j] = "ready")
  BY <1>1, HandlerSteps
<1>3. Serial' /\ Ordered'
  BY HandleOrder
<1>4. ReviewGetsItsDemo'
  BY <1>2, <1>3 DEF ReviewGetsItsDemo, Serial
<1> SUFFICES ASSUME phase' = "REVIEW", ~demo', run'[w].at \in {"unlock", "settle"},
                    run'[w].out = "succeeded"
             PROVE  \E k \in Jobs \ {doing[w]} : Unsettled(k)'
  BY <1>2, <1>4 DEF Concluding, LeavesMore
<1>5. ASSUME NEW j \in Jobs, doing[w] \in DependsOn(j), j # doing[w], st'[j] # "absent"
      PROVE  \E k \in Jobs \ {doing[w]} : Unsettled(k)'
  <2>1. Unsettled(j)'
    BY <1>2, <1>3, <1>5 DEF Serial, Ordered, Unsettled
  <2> QED BY <1>5, <2>1
<1>6. CASE FannedOut(w)
  <2>1. doing[w] = Decompose /\ phase = "REVIEW"
    BY <1>2, <1>6, JobParts DEF FannedOut, At
  <2>2. st[Decompose] \in {"succeeded", "failed"}
    BY <1>1, <2>1 DEF IInv, Earned
  <2> QED BY <1>1, <1>2, <2>1, <2>2 DEF Serial, Unsettled
<1>7. CASE EnqueueVerify(w) \/ EnqueueIntegrate(w)
  <2>1. Item(w) \in Items /\ Chain(w) \in Chains
    BY <1>1, <1>2, <1>7, AtWork DEF EnqueueVerify, EnqueueIntegrate, At
  <2> DEFINE j == IF Kind(doing[w]) = "implement" THEN Verify(Item(w), Chain(w))
                  ELSE Integrate(Item(w), Chain(w))
  <2>2. j \in Jobs /\ Enqueue(j)
    BY <1>7, <2>1, JobsOf DEF EnqueueVerify, EnqueueIntegrate, At
  <2>3. st'[j] # "absent"
    BY <1>1, <2>2 DEF Enqueue, Table!Offer, TypeOK
  <2>4. doing[w] \in DependsOn(j) /\ j # doing[w]
    <3>1. CASE EnqueueVerify(w)
      <4>1. Kind(doing[w]) = "implement"
        BY <3>1 DEF EnqueueVerify, At
      <4>2. doing[w] = Implement(Item(w), Chain(w))
        BY <1>2, <4>1, JobParts DEF Item, Chain
      <4>3. j = Verify(Item(w), Chain(w)) /\ Kind(j) = "verify" /\ j[2] = Item(w) /\ j[3] = Chain(w)
        BY <2>1, <4>1, JobsOf
      <4> QED BY <4>1, <4>2, <4>3 DEF DependsOn
    <3>2. CASE EnqueueIntegrate(w)
      <4>1. Kind(doing[w]) = "verify"
        BY <3>2 DEF EnqueueIntegrate, At
      <4>2. doing[w] = Verify(Item(w), Chain(w))
        BY <1>2, <4>1 DEF Jobs, Item, Chain, Verify, Kind, Decompose
      <4>3. /\ j = Integrate(Item(w), Chain(w)) /\ Kind(j) = "integrate"
            /\ j[2] = Item(w) /\ j[3] = Chain(w)
        BY <2>1, <4>1, JobsOf
      <4> QED BY <4>1, <4>2, <4>3 DEF DependsOn
    <3> QED BY <1>7, <3>1, <3>2
  <2> HIDE DEF j
  <2> QED BY <1>5, <2>2, <2>3, <2>4
<1>8. CASE WindDown(w)
  <2> DEFINE n == payload[Item(w)][Chain(w)].winds + 1
             next == Implement(Item(w), Wind(n))
  <2>1. Item(w) \in Items /\ Chain(w) \in Chains
    BY <1>1, <1>2, <1>8, AtWork DEF WindDown, At
  <2>2. payload[Item(w)][Chain(w)].winds < MaxWinds /\ Enqueue(next)
    BY <1>8 DEF WindDown, Carried
  <2>3. payload[Item(w)][Chain(w)].winds \in 0 .. MaxWinds
    BY <1>1, <2>1 DEF TypeOK
  <2>4. n \in 1 .. MaxWinds
    BY <2>2, <2>3
  <2>5. next \in Jobs
    BY <2>1, <2>4, JobsOf, ChainsAre
  <2>6. st'[next] # "absent"
    BY <1>1, <2>2, <2>5 DEF Enqueue, Table!Offer, TypeOK
  <2> QED BY <2>1, <2>4, <2>6 DEF Blemished
<1>9. CASE CountUnsettled(w)
  <2>1. /\ st' = st
        /\ Remaining(doing[w]) # {} \/ run'[w].at = "last"
    BY <1>1, <1>9 DEF CountUnsettled, Goto, RunRecords
  <2>2. PICK k \in Jobs : k # doing[w] /\ Unsettled(k)
    BY <2>1 DEF Remaining
  <2> QED BY <2>1, <2>2 DEF Unsettled
<1>10. CASE Unlock(w)
  <2>1. /\ run[w].at = "unlock" /\ run[w].out = "succeeded" /\ UNCHANGED <<st, phase, demo>>
    BY <1>1, <1>10 DEF Unlock, Goto, RunRecords
  <2>2. \E k \in Jobs \ {doing[w]} : Unsettled(k)
    BY <1>1, <2>1 DEF Concluding, LeavesMore
  <2> QED BY <2>1, <2>2 DEF Unsettled
<1>11. CASE EnqueueDemo(w)
  BY <1>11 DEF EnqueueDemo
<1>12. CASE \/ StopEarly(w) \/ ParkImplement(w) \/ LockBusy(w) \/ RepairInFlight(w)
            \/ RoundsExhausted(w) \/ EnqueueRepair(w)
  <2>1. \E o \in {"ready", "failed", "awaiting_human"} : Return(w, o)
    BY <1>12 DEF StopEarly, ParkImplement, LockBusy, RepairInFlight, RoundsExhausted, EnqueueRepair,
                 NackedAs
  <2>2. run'[w].out # "succeeded"
    BY <1>1, <2>1 DEF Return, RunRecords
  <2> QED BY <2>2
<1>13. CASE \/ FanOut(w) \/ Complete(w) \/ TakeLock(w) \/ ResolveSeen(w) \/ ChecksFail(w)
            \/ ChecksPass(w) \/ RaiseFinding(w) \/ EnterReview(w)
  <2>1. run'[w].at \in {"start", "built", "checking", "resolved", "failed", "passed", "raised",
                        "entered"}
    BY <1>1, <1>13 DEF FanOut, Complete, TakeLock, ResolveSeen, ChecksFail, ChecksPass,
                       RaiseFinding, EnterReview, Goto, At, RunRecords
  <2> QED BY <2>1
<1> QED BY <1>6, <1>7, <1>8, <1>9, <1>10, <1>11, <1>12, <1>13 DEF Handle

\* The worker settles its job, or loses it to an exception or its own death.
LEMMA EndConcludes ==
  ASSUME DemoInv, NEW w \in Workers, Workers = {w}, Settle(w) \/ Raise(w) \/ Crash(w)
  PROVE  /\ Serial' /\ Ordered' /\ Unfailing'
         /\ Blemished' \/ Concluding'
<1>1. /\ IInv /\ TypeOK /\ Tabled /\ Serial /\ Ordered /\ Unfailing
      /\ run[w] \in RunRecords /\ run \in [Workers -> RunRecords]
  BY LedgerIs DEF DemoInv, IInv
<1>2. doing[w] \in Jobs /\ doing[w] # NoJob /\ Unsettled(doing[w])
  <2>1. run[w].at # "idle"
    BY <1>1 DEF Settle, Raise, Crash, Table!Forget, TypeOK
  <2> QED BY <1>1, <2>1, AtWork DEF Serial
<1>3. \A j \in Jobs : DependsOn(j) \subseteq Jobs
  BY JobParts, JobsOf, ChainsAre, ItemsAssumption DEF DependsOn, Kinds
<1>4. \A i \in Items, n \in 1 .. MaxWinds : Implement(i, Wind(n)) \in Jobs
  BY JobsOf, ChainsAre
<1>5. CASE Raise(w)
  <2>1. PICK s \in NackedAs(doing[w]) : Return(w, s)
    BY <1>5 DEF Raise
  <2>2. UNCHANGED <<st, doing, phase, demo>> /\ run'[w].out = s /\ s # "succeeded"
    <3>1. s # "succeeded"
      BY <2>1 DEF NackedAs
    <3>2. UNCHANGED <<st, doing, phase, demo>>
      BY <1>5 DEF Raise
    <3>3. run'[w].out = s
      BY <1>1, <2>1 DEF Return, RunRecords
    <3> QED BY <3>1, <3>2, <3>3
  <2>3. Serial' /\ Ordered'
    BY <1>1, <2>2 DEF Serial, Ordered, Unsettled
  <2>4. Unfailing'
    BY <1>1, <2>1, <2>2 DEF Unfailing, NackedAs
  <2>5. Concluding'
    BY <1>2, <2>2 DEF Concluding, LeavesMore, ReviewGetsItsDemo, Unsettled
  <2> QED BY <2>3, <2>4, <2>5
<1>6. ASSUME Settle(w) \/ Crash(w), UNCHANGED st PROVE Serial' /\ Ordered' /\ Unfailing' /\ Concluding'
  <2>1. doing'[w] = NoJob /\ run'[w] = Idle
    BY <1>1, <1>6 DEF Settle, Crash, Table!Report, Table!Forget, TypeOK
  <2>2. Serial' /\ Ordered'
    BY <1>1, <1>6, <2>1 DEF Serial, Ordered
  <2>3. Unfailing'
    BY <1>1, <1>6, <2>1 DEF Unfailing, Idle
  <2>4. Concluding'
    BY <1>2, <1>6, <2>1 DEF Concluding, LeavesMore, ReviewGetsItsDemo, Unsettled, Idle
  <2> QED BY <2>2, <2>3, <2>4
<1>7. CASE Settle(w) /\ Table!Report(w, doing[w]) /\ st'[doing[w]] = run[w].out
  <2>1. /\ doing'[w] = NoJob /\ run'[w] = Idle /\ UNCHANGED <<phase, demo>>
        /\ \A j \in Jobs \ {doing[w]} : st'[j] = st[j]
        /\ st[doing[w]] = "leased" /\ st'[doing[w]] # "absent" /\ run[w].at = "settle"
    BY <1>1, <1>2, <1>7, NullAssumption DEF Settle, Table!Report, TypeOK, Tabled
  <2>2. Serial'
    BY <2>1 DEF Serial
  <2>3. Ordered'
    BY <1>1, <1>2, <1>3, <2>1 DEF Ordered
  <2>4. Unfailing'
    BY <1>1, <1>2, <1>7, <2>1 DEF Unfailing, Idle
  <2>5. Blemished => Blemished'
    BY <1>2, <1>4, <2>1 DEF Blemished
  <2>6. ASSUME run[w].out = "failed" PROVE Blemished'
    BY <1>2, <1>7, <2>6 DEF Blemished
  <2>7. ASSUME run[w].out \in {"ready", "leased", "awaiting_human"} PROVE Concluding'
    BY <1>2, <1>7, <2>1, <2>7 DEF Concluding, LeavesMore, ReviewGetsItsDemo, Unsettled, Idle
  <2>8. ASSUME run[w].out = "succeeded", Concluding PROVE Concluding'
    <3>1. phase = "REVIEW" /\ ~demo => \E k \in Jobs \ {doing[w]} : Unsettled(k)
      BY <2>1, <2>8 DEF Concluding, LeavesMore
    <3> QED BY <2>1, <3>1 DEF Concluding, LeavesMore, ReviewGetsItsDemo, Unsettled, Idle
  <2>9. run[w].out \in Outcomes /\ (Blemished \/ Concluding)
    BY <1>1 DEF RunRecords, DemoInv
  <2> QED BY <2>2, <2>3, <2>4, <2>5, <2>6, <2>7, <2>8, <2>9 DEF Outcomes
<1> QED BY <1>5, <1>6, <1>7 DEF Settle, Crash, Table!Forget

\* A claim, an answer, a reaped or revoked lease leave a job that is not settled so.
LEMMA LoopConcludes ==
  ASSUME DemoInv, NEW w \in Workers, Workers = {w},
         \/ Kickoff
         \/ \E j \in Jobs : Answer(j) \/ Reap(j) \/ LoseLease(j)
         \/ \E j \in Jobs : Claim(w, j)
         \/ UNCHANGED vars
  PROVE  /\ Serial' /\ Ordered' /\ Unfailing'
         /\ Blemished' \/ Concluding'
<1>1. /\ IInv /\ TypeOK /\ Serial /\ Ordered /\ Unfailing /\ (Blemished \/ Concluding)
      /\ run[w] \in RunRecords /\ run \in [Workers -> RunRecords]
  BY LedgerIs DEF DemoInv, IInv
<1>2. \A j \in Jobs : DependsOn(j) \subseteq Jobs
  BY JobParts, JobsOf, ChainsAre, ItemsAssumption DEF DependsOn, Kinds
<1>3. \A i \in Items, n \in 1 .. MaxWinds : Implement(i, Wind(n)) \in Jobs
  BY JobsOf, ChainsAre
<1>4. UNCHANGED <<phase, demo>>
  BY DEF Kickoff, Answer, Reap, LoseLease, Claim, vars
<1>5. ASSUME NEW j \in Jobs, st' = [st EXCEPT ![j] = "ready"], UNCHANGED <<doing, run>>,
             st[j] \in {"absent", "leased", "awaiting_human"}
      PROVE  Serial' /\ Ordered' /\ Unfailing' /\ (Blemished' \/ Concluding')
  <2>1. /\ st'[j] = "ready" /\ \A k \in Jobs \ {j} : st'[k] = st[k]
        /\ \A k \in Jobs : Unsettled(k) => Unsettled(k)'
    BY <1>1, <1>5 DEF TypeOK, Unsettled
  <2>2. Serial'
    BY <1>1, <1>5, <2>1 DEF Serial, TypeOK
  <2>3. Ordered'
    BY <1>1, <1>2, <1>5, <2>1 DEF Ordered
  <2>4. Unfailing'
    BY <1>1, <1>5, <2>1 DEF Unfailing
  <2>5. Blemished => Blemished'
    BY <1>3, <1>5, <2>1 DEF Blemished
  <2>6. Concluding => Concluding'
    BY <1>4, <1>5, <2>1 DEF Concluding, LeavesMore, ReviewGetsItsDemo, At
  <2> QED BY <1>1, <2>2, <2>3, <2>4, <2>5, <2>6
<1>6. CASE Kickoff
  BY <1>5, <1>6, DecomposeIs DEF Kickoff, Table!Offer
<1>7. ASSUME NEW j \in Jobs, Answer(j) \/ Reap(j) \/ LoseLease(j)
      PROVE  Serial' /\ Ordered' /\ Unfailing' /\ (Blemished' \/ Concluding')
  <2>1. /\ st[j] \in {"leased", "awaiting_human"} /\ st' = [st EXCEPT ![j] = "ready"]
        /\ UNCHANGED <<doing, run>>
    BY <1>1, <1>7 DEF Answer, Reap, LoseLease, Table!Resume, Table!Revoke, TypeOK
  <2> QED BY <1>5, <2>1
<1>8. ASSUME NEW j \in Jobs, Claim(w, j)
      PROVE  Serial' /\ Ordered' /\ Unfailing' /\ (Blemished' \/ Concluding')
  <2>1. /\ st[j] = "ready" /\ st'[j] = "leased" /\ \A k \in Jobs \ {j} : st'[k] = st[k]
        /\ doing'[w] = j /\ run'[w].at = "start" /\ run'[w].out = "ready"
    BY <1>1, <1>8 DEF Claim, Table!Grant, TypeOK, Idle
  <2>2. Serial'
    BY <2>1 DEF Serial, Unsettled
  <2>3. \A d \in DependsOn(j) : st[d] = "succeeded"
    BY <1>8 DEF Claim, Table!Grant
  <2>4. Ordered'
    BY <1>1, <1>2, <2>1, <2>3 DEF Ordered
  <2>5. Unfailing'
    BY <1>1, <2>1 DEF Unfailing
  <2>6. Concluding'
    BY <2>1 DEF Concluding, LeavesMore, ReviewGetsItsDemo, Unsettled
  <2> QED BY <2>2, <2>4, <2>5, <2>6
<1>9. CASE UNCHANGED vars
  BY <1>1, <1>9 DEF vars, Serial, Ordered, Unfailing, Blemished, Concluding, LeavesMore,
                    ReviewGetsItsDemo, Unsettled, At
<1> QED BY <1>6, <1>7, <1>8, <1>9

\* The invariant of a single worker.
LEMMA DemoInvariance ==
  ASSUME NEW w, Workers = {w}
  PROVE  Spec => []DemoInv
<1>1. Init => DemoInv
  <2> SUFFICES ASSUME Init PROVE DemoInv
    OBVIOUS
  <2>1. /\ \A j \in Jobs : st[j] = "absent"
        /\ \A v \in Workers : doing[v] = NoJob /\ run[v] = Idle
        /\ phase = "BUILD"
    BY DEF Init, Table!Init
  <2> QED BY <2>1, InvInit DEF DemoInv, Serial, Ordered, Unfailing, Concluding, Idle
<1>2. DemoInv /\ [Next]_vars => DemoInv'
  <2> SUFFICES ASSUME DemoInv, [Next]_vars PROVE DemoInv'
    OBVIOUS
  <2>1. IInv' /\ w \in Workers
    BY InvNext DEF DemoInv
  <2>2. ASSUME Handle(w), ~Settle(w)
        PROVE  Serial' /\ Ordered' /\ Unfailing' /\ (Blemished' \/ Concluding')
    BY <2>1, <2>2, HandleOrder, HandleConcludes
  <2>3. ASSUME Settle(w) \/ Raise(w) \/ Crash(w)
        PROVE  Serial' /\ Ordered' /\ Unfailing' /\ (Blemished' \/ Concluding')
    BY <2>1, <2>3, EndConcludes
  <2>4. ASSUME \/ Kickoff
               \/ \E j \in Jobs : Answer(j) \/ Reap(j) \/ LoseLease(j)
               \/ \E j \in Jobs : Claim(w, j)
               \/ UNCHANGED vars
        PROVE  Serial' /\ Ordered' /\ Unfailing' /\ (Blemished' \/ Concluding')
    BY <2>1, <2>4, LoopConcludes
  <2> QED BY <2>1, <2>2, <2>3, <2>4 DEF Next, DemoInv
<1> QED BY <1>1, <1>2, PTL DEF Spec

\* With one worker, whatever crashes, exceptions and lost leases there are, a project in
\* REVIEW has its demo or something left to count, unless a job ran out of attempts or a
\* session was wound down.
THEOREM DemoOrBlemish ==
  ASSUME NEW w, Workers = {w}
  PROVE  Spec => [](ReviewGetsItsDemo \/ Blemished)
<1>1. DemoInv => ReviewGetsItsDemo \/ Blemished
  BY DEF DemoInv, Concluding, ReviewGetsItsDemo
<1> QED BY <1>1, DemoInvariance, PTL

\* And where neither of these can happen, the demo is never lost.
THEOREM DemoIsNotLost ==
  ASSUME NEW w, Workers = {w}, GivesUp = {}, MaxWinds = 0
  PROVE  Spec => []ReviewGetsItsDemo
<1>1. DemoInv => ReviewGetsItsDemo
  <2> SUFFICES ASSUME DemoInv PROVE ReviewGetsItsDemo
    OBVIOUS
  <2>1. ~Blemished
    BY DEF DemoInv, Unfailing, Blemished
  <2> QED BY <2>1 DEF DemoInv, Concluding, ReviewGetsItsDemo
<1> QED BY <1>1, DemoInvariance, PTL
=============================================================================
