-------------------------- MODULE DeployStagesProofs --------------------------
(***************************************************************************)
(* The safety of DeployStages for any number of workers, targets, legs and *)
(* faults.  Basis holds whatever goes wrong.  Single, Designs and Accepts  *)
(* hold as long as the jobs they are about run once: there is one leg at   *)
(* work, it alone moves the phase, and what its human saw is what is       *)
(* stored.  Sound bounds what a single fault can do.                       *)
(***************************************************************************)
EXTENDS DeployStages, TLAPS

USE DEF table, project, files, Table!Open, Table!Settled

Routes == {"route demo", "route triage"}
The(kind, m) == <<kind, m>>

Present(j) == st[j] # "absent"
On(w, j, places) == doing[w] = j /\ run[w].at \in places
Leaving(w, j, out) == doing[w] = j /\ run[w].at = "settle" /\ run[w].out = out

\* The job whose answer a route carries, and the answer.
Asking(k) == IF k = "route demo" THEN "demo" ELSE "triage"
Reply(k, m) == gate[The(Asking(k), m)]
Onwards(k, m) == Target(Reply(k, m)) \in {"DEPLOY_DESIGN", "DEPLOY_EXECUTE"}

-----------------------------------------------------------------------------
(* What holds whatever goes wrong                                          *)

\* A row is leased exactly while somebody holds it, a worker's job is in the table,
\* and nobody else has a job that was never handed back.
Tabled ==
  /\ \A j \in Jobs : holder[j] # NoWorker <=> st[j] = "leased"
  /\ \A w \in Workers : doing[w] # NoJob => Present(doing[w])
  /\ \A j \in Jobs \ again, w \in Workers : doing[w] = j => st[j] = "leased" /\ holder[j] = w

\* A gate is opened by its job, and answered once, with what its kind may be answered.
Gated == \A j \in Jobs : gate[j] \in {"none", "open"} \cup RepliesTo(j)

Raised == \A j \in Jobs : gate[j] # "none" => Present(j)

\* Where a handler is tells what it has done and read.
Placed(w) ==
  /\ Leaving(w, doing[w], "awaiting_human") => gate[doing[w]] # "none"
  /\ At(w, "bridge", "crossed") => phase # "DEPLOY"
  /\ At(w, "interview", "elicited") => elicited # NoScope
  /\ At(w, "synthesize", "saved") => dspec # NoScope
  /\ run[w].at = "loaded" => run[w].target \in Scopes
  /\ Routing(w, "routed") => /\ Onwards(Kind(doing[w]), Of(w))
                             /\ Onward[Kind(doing[w])][Of(w)] # NoLeg

\* Who has come past an interview and a synthesis finds what they stored.
Stored ==
  \A j \in Jobs : Present(j) =>
    /\ Kind(j) \notin {"bridge", "interview"} => elicited # NoScope
    /\ Kind(j) \notin {"bridge", "interview", "synthesize"} => dspec # NoScope

\* A leg begins with the bridge or with a route.
Begun(n) == Present(The("interview", n)) \/ Present(The("execute", n))
Reached(n) == n = 0 \/ Begun(n)

\* Every job was inserted by the one before it.
Lineage ==
  /\ Present(Bridge)
  /\ ~Present(The("interview", 0)) =>
       /\ \A j \in Jobs \ {Bridge} : ~Present(j)
       /\ phase \in {"DEPLOY", "DEPLOY_DESIGN"}
  /\ \A m \in Legs :
       /\ Present(The("synthesize", m)) => Present(The("interview", m))
       /\ Present(The("spec", m)) => Present(The("synthesize", m))
       /\ Present(The("demo", m)) \/ Present(The("triage", m)) => Present(The("execute", m))
  /\ \A k \in Routes, m \in Legs :
       /\ Present(The(k, m)) => /\ Present(The(Asking(k), m))
                                /\ Reply(k, m) \notin {"none", "open"}
       /\ Onward[k][m] # NoLeg =>
            /\ Begun(Onward[k][m]) => Present(The(k, m))
            /\ Present(The("interview", Onward[k][m])) => Target(Reply(k, m)) = "DEPLOY_DESIGN"

\* A job that succeeded has left something behind that goes on, or the end.
Over(j) == st[j] = "succeeded" \/ \E w \in Workers : Leaving(w, j, "succeeded")
Followed(j) ==
  LET m == Leg(j)
  IN  /\ Kind(j) = "bridge" => Present(The("interview", 0))
      /\ Kind(j) = "interview" => Present(The("synthesize", m))
      /\ Kind(j) = "synthesize" => Present(The("spec", m))
      /\ Kind(j) = "spec" => Present(The("execute", m))
      /\ Kind(j) = "execute" => Present(The("demo", m))
      /\ Kind(j) = "demo" => Present(The("route demo", m))
      /\ Kind(j) = "triage" => Present(The("route triage", m))
      /\ Kind(j) \in Routes =>
           \/ phase \in {"DONE", "DESIGN"}
           \/ Onward[Kind(j)][m] # NoLeg /\ Begun(Onward[Kind(j)][m])
Continued == \A j \in Jobs : Over(j) => Followed(j)

\* What a job inserts, it inserts as the last thing it does.
Waiting(j) ==
  \/ st[j] \in {"ready", "awaiting_human"}
  \/ \E w \in Workers : /\ doing[w] = j
                        /\ run[w].at # "settle" \/ run[w].out = "awaiting_human"
Unborn(j) ==
  LET m == Leg(j)
  IN  /\ Kind(j) = "interview" => ~Present(The("synthesize", m))
      /\ Kind(j) = "synthesize" => ~Present(The("spec", m))
      /\ Kind(j) = "execute" => ~Present(The("demo", m)) /\ ~Present(The("triage", m))
Firstborn == \A j \in Jobs \ again : Waiting(j) => Unborn(j)

\* Nothing fails at once.
Lost(j) == st[j] = "failed" \/ \E w \in Workers : Leaving(w, j, "failed")
Retried == \A j \in Jobs : Lost(j) => j \in again

\* There is a leg that has gone on to no other.
Last(n) == Reached(n) /\ \A k \in Routes : Onward[k][n] # NoLeg => ~Begun(Onward[k][n])
Ends == \E n \in Legs : Last(n)

Basis ==
  /\ TypeOK /\ Tabled /\ Gated /\ Raised /\ Stored
  /\ Lineage /\ Continued /\ Firstborn /\ Retried /\ Ends
  /\ \A w \in Workers : doing[w] # NoJob => Placed(w)

\* Without a fault the jobs that do not move the phase run once, and nobody is gone;
\* with one of them they do not fail for good.
Sound ==
  /\ faults = 0 =>
       /\ \A j \in Jobs : st[j] = "leased" => doing[holder[j]] = j
       /\ \A j \in again : Kind(j) \in Movers
       /\ \A j \in Jobs, w \in Workers : Leaving(w, j, "ready") => Kind(j) \in Movers
  /\ faults \in {0, 1} => \A j \in Jobs : Lost(j) => Kind(j) \in Movers

-----------------------------------------------------------------------------
(* What holds as long as no execution runs a second time                   *)

\* The cloud is or may be touched for leg m, now or next.
Pending(m) ==
  /\ ~Present(The("execute", m))
  /\ \E w \in Workers :
       \/ At(w, "spec", "entered") /\ Of(w) = m
       \/ /\ Routing(w, "routed") /\ Onward[Kind(doing[w])][Of(w)] = m
          /\ Target(Reply(Kind(doing[w]), Of(w))) = "DEPLOY_EXECUTE"
Applying(m) ==
  \/ st[The("execute", m)] = "ready"
  \/ \E w \in Workers : On(w, The("execute", m), {"start", "loaded", "verified"})
  \/ Pending(m)

\* One leg is the last, and it alone is applied, in DEPLOY_EXECUTE.
Single ==
  /\ \A m, n \in Legs : Last(m) /\ Last(n) => m = n
  /\ \A m \in Legs : ~(Present(The("demo", m)) /\ Present(The("triage", m)))
  /\ \A m \in Legs : Applying(m) => phase = "DEPLOY_EXECUTE"

-----------------------------------------------------------------------------
(* What holds as long as no acceptance runs a second time                  *)

\* Leg m is being designed, or is about to be.
Unspecified(m) ==
  \/ st[The("spec", m)] \in {"absent", "ready", "awaiting_human"}
  \/ \E w \in Workers : \/ On(w, The("spec", m), {"start", "consented"})
                        \/ Leaving(w, The("spec", m), "awaiting_human")
Opening(m) ==
  \E w \in Workers :
    \/ m = 0 /\ At(w, "bridge", "crossed")
    \/ /\ Routing(w, "routed") /\ Onward[Kind(doing[w])][Of(w)] = m
       /\ Target(Reply(Kind(doing[w]), Of(w))) = "DEPLOY_DESIGN"
Designing(m) ==
  IF Present(The("interview", m)) THEN Unspecified(m) ELSE Opening(m)

\* One leg is designed, in DEPLOY_DESIGN.
Designs ==
  /\ \A m, n \in Legs : Designing(m) /\ Designing(n) => m = n
  /\ \A m \in Legs : Designing(m) => phase = "DEPLOY_DESIGN"

\* What the human of leg m is or will be asked about is stored.
Proposed(m) ==
  /\ Present(The("interview", m)) /\ Unspecified(m)
  /\ \/ Present(The("spec", m))
     \/ \E w \in Workers : On(w, The("synthesize", m), {"saved"})
Consenting(m) ==
  /\ gate[The("spec", m)] = "accept"
  /\ \/ st[The("spec", m)] = "ready"
     \/ \E w \in Workers : On(w, The("spec", m), {"start"})

\* The consent, once given, is of a target that was accepted, and so it is applied.
Accepts ==
  /\ ~RunAgain({"interview"}) => \A m \in Legs : Proposed(m) => dspec = elicited
  /\ \A m \in Legs : Consenting(m) => dspec \in accepted
  /\ consent \in accepted \cup {NoScope}
  /\ \A w \in Workers : run[w].at = "loaded" => run[w].target \in accepted
  /\ DeployedAsAccepted

Seldom == ~RunAgain({"spec"}) /\ ~(RunAgain({"interview"}) /\ RunAgain({"synthesize"}))

IInv ==
  /\ Basis /\ Sound
  /\ ~RunAgain({"execute"}) => Single
  /\ ~RunAgain({"spec"}) => Designs
  /\ Seldom => Accepts

-----------------------------------------------------------------------------
(* The jobs                                                                *)

\* A job is known by its kind and its leg.
LEMMA TheIs ==
  ASSUME NEW k \in Kinds, NEW m \in Legs
  PROVE  The(k, m) \in Jobs /\ Kind(The(k, m)) = k /\ Leg(The(k, m)) = m /\ The(k, m) # Bridge
BY DEF The, Jobs, Kind, Leg, Bridge, Kinds

\* Every job but the bridge is one.
LEMMA JobIs ==
  ASSUME NEW j \in Jobs
  PROVE  /\ Leg(j) \in Legs
         /\ j = Bridge \/ (Kind(j) \in Kinds /\ j = The(Kind(j), Leg(j)))
         /\ Kind(j) = "bridge" <=> j = Bridge
<1>1. CASE j = Bridge
  BY <1>1, LegAssumption DEF Bridge, Kind, Leg
<1>2. CASE j \in Kinds \X Legs
  <2>1. PICK k \in Kinds, m \in Legs : j = The(k, m)
    BY <1>2 DEF The
  <2>2. k # "bridge"
    BY DEF Kinds
  <2> QED BY <2>1, <2>2, TheIs
<1> QED BY <1>1, <1>2 DEF Jobs

\* The bridge is a job.
LEMMA BridgeIs == Bridge \in Jobs /\ Kind(Bridge) = "bridge" /\ Leg(Bridge) = 0
BY DEF Bridge, Jobs, Kind, Leg

\* The kinds by name.
LEMMA KindsAre ==
  /\ {"interview", "synthesize", "spec", "execute", "demo", "triage"} \subseteq Kinds
  /\ Routes \subseteq Kinds
  /\ \A k \in Routes : Asking(k) \in {"demo", "triage"} /\ Asking(k) \in Kinds
BY DEF Kinds, Routes, Asking

-----------------------------------------------------------------------------
(* The types                                                               *)

Outcomes == {"ready", "leased", "awaiting_human", "succeeded", "failed"}
RunRecords == [at : Places, out : Outcomes, target : Targets]
RowStates == Outcomes \cup {"absent"}
Gates == {"none", "open", "accept", "reject", "approve", "request_changes", "abort",
          "loop_code_fix", "loop_design", "retry_execute"} \cup Scopes

TableTyped ==
  /\ st \in [Jobs -> RowStates]
  /\ holder \in [Jobs -> Workers \cup {NoWorker}]
  /\ doing \in [Workers -> Jobs \cup {NoJob}]
StoresTyped ==
  /\ phase \in Machine!Phases /\ cycle = 1
  /\ gate \in [Jobs -> Gates]
  /\ elicited \in Targets /\ dspec \in Targets /\ consent \in Targets
  /\ deployed \subseteq Legs \X Scopes /\ accepted \subseteq Scopes
  /\ again \subseteq Jobs
  /\ faults \in 0 .. MaxFaults

\* The parts of the type invariant, by name.
LEMMA Typed ==
  TypeOK <=> /\ TableTyped /\ StoresTyped /\ run \in [Workers -> RunRecords]
             /\ \A w \in Workers : run[w].at = "idle" <=> doing[w] = NoJob
             /\ \A j \in Jobs : st[j] = "awaiting_human" => gate[j] # "none"
BY DEF TypeOK, TableTyped, StoresTyped, RowStates, Outcomes, RunRecords, Gates

\* The same of the next state.
LEMMA TypedNext ==
  ASSUME TableTyped', StoresTyped', run' \in [Workers -> RunRecords],
         \A w \in Workers : run'[w].at = "idle" <=> doing'[w] = NoJob,
         \A j \in Jobs : st'[j] = "awaiting_human" => gate'[j] # "none"
  PROVE  TypeOK'
BY DEF TypeOK, TableTyped, StoresTyped, RowStates, Outcomes, RunRecords, Gates

-----------------------------------------------------------------------------
(* The steps of a handler                                                  *)

\* Worker w, which executes j, goes on as r, and inserts the jobs N.
Steps(w, j, r, N) ==
  /\ run[w].at \notin {"idle", "settle"} /\ j = doing[w]
  /\ r \in RunRecords /\ r.at # "idle" /\ run' = [run EXCEPT ![w] = r]
  /\ UNCHANGED <<holder, doing, cycle, accepted, again>>
  /\ st' = [k \in Jobs |-> IF k \in N /\ st[k] = "absent" THEN "ready" ELSE st[k]]
  /\ faults' = faults \/ (faults < MaxFaults /\ faults' = faults + 1)

Quiet == UNCHANGED <<phase, gate, files, deployed>>

\* It gives up, for now or for good.
Gives(w, j, r) ==
  /\ r.at = "settle"
  /\ r.out = "ready" \/ (r.out = "failed" /\ j \in again)
  /\ Kind(j) \in Movers \/ faults' = faults + 1
GivesUp(w, j, r, N) == N = {} /\ Gives(w, j, r) /\ Quiet

\* It finds what it deployed broken.
Breaks(w, j, r, N) ==
  N = {} /\ run[w].at \in {"loaded", "verified", "reviewing"} /\ r.at = "broken" /\ Quiet

\* It loads the spec its consent is of.
Loads(w, j, r, N) ==
  /\ N = {} /\ Kind(j) = "execute" /\ run[w].at = "start"
  /\ consent = dspec /\ r.at = "loaded" /\ r.target = dspec /\ Quiet

\* It has inserted the next job, and is done.
Next1(w, j, n) ==
  \/ j = Bridge /\ run[w].at = "crossed" /\ n = The("interview", 0)
  \/ Kind(j) = "interview" /\ run[w].at = "elicited" /\ n = The("synthesize", Leg(j))
  \/ Kind(j) = "synthesize" /\ run[w].at = "saved" /\ n = The("spec", Leg(j))
  \/ Kind(j) = "spec" /\ run[w].at = "entered" /\ n = The("execute", Leg(j))
  \/ Kind(j) = "execute" /\ run[w].at = "reviewing" /\ n = The("demo", Leg(j))
Next2(w, j, n) ==
  \/ /\ Kind(j) = "demo" /\ run[w].at = "start" /\ gate[j] \notin {"none", "open"}
     /\ n = The("route demo", Leg(j))
  \/ /\ Kind(j) = "triage" /\ run[w].at = "start" /\ gate[j] \notin {"none", "open"}
     /\ n = The("route triage", Leg(j))
Next3(w, j, n) ==
  /\ Kind(j) \in Routes /\ run[w].at = "routed"
  /\ n = The(IF Target(Reply(Kind(j), Leg(j))) = "DEPLOY_DESIGN" THEN "interview" ELSE "execute",
             Onward[Kind(j)][Leg(j)])
Hands(w, j, r, N) ==
  /\ r.at = "settle" /\ r.out = "succeeded" /\ Quiet
  /\ \E n \in Jobs : N = {n} /\ (Next1(w, j, n) \/ Next2(w, j, n) \/ Next3(w, j, n))

\* It has inserted the triage, and gives up.
Triages(w, j, r, N) ==
  /\ Kind(j) = "execute" /\ run[w].at = "failing" /\ N = {The("triage", Leg(j))}
  /\ Gives(w, j, r) /\ Quiet

\* It asks its human.
Asks1(w, j, r, N) ==
  /\ N = {} /\ run[w].at = "start" /\ gate[j] \in {"none", "open"}
  /\ Asks(Kind(j))
  /\ r.at = "settle" /\ r.out = "awaiting_human"
  /\ gate' = [gate EXCEPT ![j] = "open"] /\ UNCHANGED <<phase, files, deployed>>

\* It writes the answer, the spec or the consent.
Writes(w, j, r, N) ==
  /\ N = {} /\ run[w].at = "start" /\ UNCHANGED <<phase, gate, deployed>>
  /\ \/ /\ Kind(j) = "interview" /\ r.at = "elicited" /\ gate[j] \in Scopes
        /\ elicited' = gate[j] /\ UNCHANGED <<dspec, consent>>
     \/ /\ Kind(j) = "synthesize" /\ r.at = "saved"
        /\ dspec' = elicited /\ UNCHANGED <<elicited, consent>>
     \/ /\ Kind(j) = "spec" /\ r.at = "consented" /\ gate[j] = "accept"
        /\ consent' = dspec /\ UNCHANGED <<elicited, dspec>>

\* It applies what it has loaded.
Applies(w, j, r, N) ==
  /\ N = {} /\ Kind(j) = "execute" /\ run[w].at = "loaded" /\ r.at \in {"verified", "broken"}
  /\ r.target = run[w].target
  /\ deployed' = deployed \cup {<<Leg(j), run[w].target>>} /\ UNCHANGED <<phase, gate, files>>

\* It moves the phase.
Moves(w, j, r, N) ==
  /\ N = {} /\ UNCHANGED <<gate, files, deployed>>
  /\ \/ /\ j = Bridge /\ run[w].at = "start" /\ r.at = "crossed"
        /\ IF phase = "DEPLOY" THEN phase' = "DEPLOY_DESIGN" ELSE phase' = phase
     \/ /\ Kind(j) = "spec" /\ run[w].at = "consented" /\ r.at = "entered"
        /\ phase = "DEPLOY_DESIGN" /\ phase' = "DEPLOY_EXECUTE"
     \/ /\ Kind(j) = "execute"
        /\ <<run[w].at, r.at>> \in {<<"verified", "reviewing">>, <<"broken", "failing">>}
        /\ phase = "DEPLOY_EXECUTE" /\ phase' = "DEPLOY_REVIEW"
     \/ /\ Kind(j) \in Routes /\ run[w].at = "start" /\ r.at = "settle" /\ r.out = "succeeded"
        /\ phase = "DEPLOY_REVIEW" /\ phase' \in {"DONE", "DESIGN"}
     \/ /\ Kind(j) \in Routes /\ run[w].at = "start" /\ r.at = "routed"
        /\ phase = "DEPLOY_REVIEW" /\ phase' = Target(Reply(Kind(j), Leg(j)))
        /\ Onwards(Kind(j), Leg(j))

Row(w, j, r, N) ==
  \/ GivesUp(w, j, r, N) \/ Breaks(w, j, r, N) \/ Loads(w, j, r, N) \/ Hands(w, j, r, N)
  \/ Triages(w, j, r, N) \/ Asks1(w, j, r, N) \/ Writes(w, j, r, N) \/ Applies(w, j, r, N)
  \/ Moves(w, j, r, N)

\* A worker in a handler has a job of the table, and its record is typed.
LEMMA AtWork ==
  ASSUME Basis, NEW w \in Workers, run[w].at # "idle"
  PROVE  /\ doing[w] \in Jobs /\ doing[w] # NoJob /\ Present(doing[w]) /\ Placed(w)
         /\ run[w] \in RunRecords /\ run \in [Workers -> RunRecords]
         /\ Of(w) = Leg(doing[w]) /\ Of(w) \in Legs
<1>1. doing[w] \in Jobs /\ doing[w] # NoJob /\ Present(doing[w]) /\ Placed(w)
  BY DEF Basis, TypeOK, Tabled
<1>2. run[w] \in RunRecords /\ run \in [Workers -> RunRecords]
  BY Typed DEF Basis
<1> QED BY <1>1, <1>2, JobIs DEF Of

\* The places a handler can go to, and how it can leave.
LEMMA PlacesAre ==
  /\ {"start", "crossed", "elicited", "saved", "consented", "entered", "loaded", "verified",
      "reviewing", "broken", "failing", "routed", "settle"} \subseteq Places \ {"idle"}
  /\ {"ready", "failed", "succeeded", "awaiting_human"} \subseteq Outcomes
BY DEF Places, Outcomes

\* A handler that goes on keeps what it has loaded.
LEMMA Going ==
  ASSUME Basis, NEW w \in Workers, run[w].at # "idle", NEW place \in Places \ {"idle"},
         Goto(w, place)
  PROVE  \E r \in RunRecords :
           run' = [run EXCEPT ![w] = r] /\ r.at = place /\ r.target = run[w].target
<1> DEFINE r == [run[w] EXCEPT !.at = place]
<1>1. run[w] \in RunRecords /\ run \in [Workers -> RunRecords]
  BY AtWork
<1>2. r \in RunRecords /\ r.at = place /\ r.target = run[w].target
  BY <1>1 DEF RunRecords
<1>3. run' = [run EXCEPT ![w] = r]
  BY <1>1 DEF Goto
<1> HIDE DEF r
<1> QED BY <1>2, <1>3

\* A handler that returns has nothing loaded.
LEMMA Returning ==
  ASSUME NEW w \in Workers, NEW o \in Outcomes, Return(w, o)
  PROVE  \E r \in RunRecords :
           run' = [run EXCEPT ![w] = r] /\ r.at = "settle" /\ r.out = o
<1> DEFINE r == [Idle EXCEPT !.at = "settle", !.out = o]
<1>1. r \in RunRecords /\ r.at = "settle" /\ r.out = o
  BY DEF RunRecords, Places, Idle, Targets
<1>2. run' = [run EXCEPT ![w] = r]
  BY DEF Return
<1> HIDE DEF r
<1> QED BY <1>1, <1>2

\* A step that leaves the table alone inserts nothing.
LEMMA SameTable ==
  ASSUME Basis, UNCHANGED table
  PROVE  st' = [k \in Jobs |-> IF k \in {} /\ st[k] = "absent" THEN "ready" ELSE st[k]]
BY Typed DEF Basis, TableTyped

\* An insertion adds a row or nothing.
LEMMA Adding ==
  ASSUME Basis, NEW n \in Jobs, Enqueue(n)
  PROVE  /\ st' = [k \in Jobs |-> IF k \in {n} /\ st[k] = "absent" THEN "ready" ELSE st[k]]
         /\ UNCHANGED <<holder, doing>>
<1>1. TableTyped
  BY Typed DEF Basis
<1>2. CASE Table!Offer(n)
  BY <1>1, <1>2 DEF Table!Offer, TableTyped
<1>3. CASE st[n] # "absent" /\ UNCHANGED table
  BY <1>1, <1>3 DEF TableTyped
<1> QED BY <1>2, <1>3 DEF Enqueue

\* What makes a step of a handler.
LEMMA Stepping ==
  ASSUME Basis, NEW w \in Workers, run[w].at \notin {"idle", "settle"},
         NEW r \in RunRecords, r.at # "idle", run' = [run EXCEPT ![w] = r], NEW N,
         \/ N = {} /\ UNCHANGED table
         \/ \E n \in Jobs : N = {n} /\ Enqueue(n),
         UNCHANGED <<cycle, accepted, again>>,
         faults' = faults \/ (faults < MaxFaults /\ faults' = faults + 1)
  PROVE  doing[w] \in Jobs /\ Steps(w, doing[w], r, N)
<1>1. doing[w] \in Jobs
  BY AtWork
<1>2. /\ st' = [k \in Jobs |-> IF k \in N /\ st[k] = "absent" THEN "ready" ELSE st[k]]
      /\ UNCHANGED <<holder, doing>>
  BY SameTable, Adding
<1> QED BY <1>1, <1>2 DEF Steps

\* Where a route leads, if anywhere, and from no other.
LEMMA OnwardIs ==
  ASSUME NEW k \in Routes, NEW m \in Legs, Onward[k][m] # NoLeg
  PROVE  /\ Onward[k][m] \in Legs \ {0}
         /\ \A l \in Routes, n \in Legs : Onward[l][n] = Onward[k][m] => k = l /\ m = n
<1>1. Onward[k] \in [Legs -> (Legs \ {0}) \cup {NoLeg}]
  BY LegAssumption DEF Routes
<1> QED BY <1>1, LegAssumption DEF Routes

Rowed(w) ==
  \E j \in Jobs, r \in RunRecords, N \in SUBSET Jobs : Steps(w, j, r, N) /\ Row(w, j, r, N)

\* Whoever gives up does so by a row of the table.
LEMMA RowGivesUp ==
  ASSUME Basis, NEW w \in Workers, run[w].at \notin {"idle", "settle"}, Fail(w),
         UNCHANGED <<table, project, gate, files, deployed, accepted, again>>,
         (Kind(doing[w]) \in Movers /\ faults' = faults)
           \/ (faults < MaxFaults /\ faults' = faults + 1)
  PROVE  Rowed(w)
<1>1. PICK o \in {"ready", "failed"} : Return(w, o) /\ (o = "failed" => doing[w] \in again)
  BY DEF Fail
<1>2. PICK r \in RunRecords : run' = [run EXCEPT ![w] = r] /\ r.at = "settle" /\ r.out = o
  BY <1>1, Returning, PlacesAre
<1>3. doing[w] \in Jobs /\ Steps(w, doing[w], r, {})
  BY <1>2, Stepping
<1>4. GivesUp(w, doing[w], r, {})
  BY <1>1, <1>2 DEF GivesUp, Gives, Quiet
<1> QED BY <1>3, <1>4 DEF Rowed, Row

\* Giving up, loading, and finding something broken write nothing.
LEMMA RowQuiet ==
  ASSUME Basis, NEW w \in Workers,
         \/ Reject(w) \/ Refuse(w) \/ Load(w) \/ Misses(w) \/ Raise(w)
  PROVE  Rowed(w)
<1>1. CASE Reject(w) \/ Refuse(w) \/ Misses(w)
  <2>1. /\ run[w].at \notin {"idle", "settle"} /\ Fail(w) /\ Kind(doing[w]) \in Movers
        /\ UNCHANGED <<table, project, gate, files, deployed, accepted, again, faults>>
    BY <1>1 DEF Reject, Refuse, Misses, At, Routing, Movers
  <2> QED BY <2>1, RowGivesUp
<1>2. CASE Load(w)
  <2> DEFINE r == [run[w] EXCEPT !.at = "loaded", !.target = dspec]
  <2>1. /\ At(w, "execute", "start") /\ consent = dspec
        /\ run' = [run EXCEPT ![w].at = "loaded", ![w].target = dspec]
        /\ UNCHANGED <<table, project, gate, files, deployed, accepted, again, faults>>
    BY <1>2 DEF Load
  <2>2. run[w] \in RunRecords /\ run \in [Workers -> RunRecords] /\ dspec \in Targets
    BY <2>1, AtWork, Typed DEF At, Basis, StoresTyped
  <2>3. r \in RunRecords /\ r.at = "loaded" /\ r.target = dspec
    BY <2>2, PlacesAre DEF RunRecords
  <2>4. run' = [run EXCEPT ![w] = r]
    BY <2>1, <2>2
  <2> HIDE DEF r
  <2>5. doing[w] \in Jobs /\ Steps(w, doing[w], r, {})
    BY <2>1, <2>3, <2>4, Stepping DEF At
  <2>6. Loads(w, doing[w], r, {})
    BY <2>1, <2>3 DEF Loads, At, Quiet
  <2>7. Row(w, doing[w], r, {})
    BY <2>6 DEF Row
  <2> QED BY <2>3, <2>5, <2>7 DEF Rowed
<1>3. CASE Raise(w)
  <2>1. /\ run[w].at \notin {"idle", "settle"} /\ faults < MaxFaults /\ faults' = faults + 1
        /\ UNCHANGED <<table, project, gate, files, deployed, accepted, again>>
    BY <1>3 DEF Raise, May
  <2>2. CASE Fail(w)
    BY <2>1, <2>2, RowGivesUp
  <2>3. CASE run[w].at \in {"loaded", "verified", "reviewing"} /\ Goto(w, "broken")
    <3>1. PICK r \in RunRecords : run' = [run EXCEPT ![w] = r] /\ r.at = "broken"
      BY <2>1, <2>3, Going, PlacesAre
    <3>2. doing[w] \in Jobs /\ Steps(w, doing[w], r, {})
      BY <2>1, <3>1, Stepping
    <3>3. Breaks(w, doing[w], r, {})
      BY <2>1, <2>3, <3>1 DEF Breaks, Quiet
    <3> QED BY <3>2, <3>3 DEF Rowed, Row
  <2> QED BY <1>3, <2>2, <2>3 DEF Raise
<1> QED BY <1>1, <1>2, <1>3

\* What a handler inserts before it returns.
LEMMA RowHands ==
  ASSUME Basis, NEW w \in Workers,
         \/ EnqueueInterview(w) \/ EnqueueSynthesize(w) \/ EnqueueSpec(w) \/ EnqueueExecute(w)
         \/ EnqueueDemo(w) \/ EnqueueRoute(w) \/ StartLeg(w)
  PROVE  Rowed(w)
<1>1. /\ run[w].at \notin {"idle", "settle"} /\ Return(w, "succeeded")
      /\ UNCHANGED <<project, gate, files, deployed, accepted, again, faults>>
  BY DEF EnqueueInterview, EnqueueSynthesize, EnqueueSpec, EnqueueExecute, EnqueueDemo,
         EnqueueRoute, StartLeg, At, Routing
<1>2. /\ doing[w] \in Jobs /\ Of(w) = Leg(doing[w]) /\ Of(w) \in Legs /\ Placed(w)
      /\ Kind(doing[w]) = "bridge" => doing[w] = Bridge
  BY <1>1, AtWork, JobIs
<1>3. PICK r \in RunRecords :
        run' = [run EXCEPT ![w] = r] /\ r.at = "settle" /\ r.out = "succeeded"
  BY <1>1, Returning, PlacesAre
<1>4. \E n \in Jobs : /\ Enqueue(n)
                      /\ \/ Next1(w, doing[w], n)
                         \/ Next2(w, doing[w], n)
                         \/ Next3(w, doing[w], n)
  <2>1. CASE EnqueueInterview(w)
    <3>1. Enqueue(The("interview", 0)) /\ Next1(w, doing[w], The("interview", 0))
      BY <1>2, <2>1 DEF EnqueueInterview, At, Next1, The
    <3> QED BY <3>1, TheIs, KindsAre, LegAssumption
  <2>2. CASE EnqueueSynthesize(w)
    <3>1. Enqueue(The("synthesize", Of(w))) /\ Next1(w, doing[w], The("synthesize", Of(w)))
      BY <1>2, <2>2 DEF EnqueueSynthesize, At, Next1, The
    <3> QED BY <1>2, <3>1, TheIs, KindsAre
  <2>3. CASE EnqueueSpec(w)
    <3>1. Enqueue(The("spec", Of(w))) /\ Next1(w, doing[w], The("spec", Of(w)))
      BY <1>2, <2>3 DEF EnqueueSpec, At, Next1, The
    <3> QED BY <1>2, <3>1, TheIs, KindsAre
  <2>4. CASE EnqueueExecute(w)
    <3>1. Enqueue(The("execute", Of(w))) /\ Next1(w, doing[w], The("execute", Of(w)))
      BY <1>2, <2>4 DEF EnqueueExecute, At, Next1, The
    <3> QED BY <1>2, <3>1, TheIs, KindsAre
  <2>5. CASE EnqueueDemo(w)
    <3>1. Enqueue(The("demo", Of(w))) /\ Next1(w, doing[w], The("demo", Of(w)))
      BY <1>2, <2>5 DEF EnqueueDemo, At, Next1, The
    <3> QED BY <1>2, <3>1, TheIs, KindsAre
  <2>6. CASE EnqueueRoute(w)
    <3>1. PICK k \in Routes : Enqueue(The(k, Of(w))) /\ Next2(w, doing[w], The(k, Of(w)))
      BY <1>2, <2>6 DEF EnqueueRoute, Next2, The, Routes
    <3> QED BY <1>2, <3>1, TheIs, KindsAre
  <2>7. CASE StartLeg(w)
    <3>1. Routing(w, "routed") /\ Kind(doing[w]) \in Routes /\ run[w].at = "routed"
      BY <2>7 DEF StartLeg, Routing, At, Routes
    <3>2. PICK m \in Legs : m = Onward[Kind(doing[w])][Of(w)]
      BY <1>2, <3>1, OnwardIs DEF Placed
    <3>3. Action(w) = Reply(Kind(doing[w]), Leg(doing[w]))
      BY <1>2, <3>1 DEF Action, Reply, Asking, The, Routes
    <3>4. PICK k \in {"interview", "execute"} :
            /\ k = IF Target(Action(w)) = "DEPLOY_DESIGN" THEN "interview" ELSE "execute"
            /\ Enqueue(The(k, m))
      BY <2>7, <3>2 DEF StartLeg, The
    <3>5. Next3(w, doing[w], The(k, m))
      BY <1>2, <3>1, <3>2, <3>3, <3>4 DEF Next3
    <3> QED BY <3>4, <3>5, TheIs, KindsAre
  <2> QED BY <2>1, <2>2, <2>3, <2>4, <2>5, <2>6, <2>7
<1>5. PICK n \in Jobs : /\ Enqueue(n)
                        /\ \/ Next1(w, doing[w], n)
                           \/ Next2(w, doing[w], n)
                           \/ Next3(w, doing[w], n)
  BY <1>4
<1>6. Steps(w, doing[w], r, {n})
  BY <1>1, <1>3, <1>5, Stepping
<1>7. Hands(w, doing[w], r, {n})
  BY <1>1, <1>3, <1>5 DEF Hands, Quiet
<1> QED BY <1>2, <1>6, <1>7 DEF Rowed, Row

\* Writing, applying and asking.
LEMMA RowWrites ==
  ASSUME Basis, NEW w \in Workers,
         \/ Ask(w) \/ Elicit(w) \/ SaveSpec(w) \/ SaveConsent(w) \/ Apply(w) \/ Refused(w)
         \/ EnqueueTriage(w)
  PROVE  Rowed(w)
<1>1. /\ run[w].at \notin {"idle", "settle"}
      /\ UNCHANGED <<project, accepted, again, faults>>
  BY DEF Ask, Elicit, SaveSpec, SaveConsent, Apply, Refused, EnqueueTriage, At
<1>2. doing[w] \in Jobs /\ Of(w) = Leg(doing[w]) /\ Of(w) \in Legs
  BY <1>1, AtWork
<1>3. CASE Ask(w)
  <2>1. /\ Return(w, "awaiting_human") /\ UNCHANGED table /\ run[w].at = "start"
        /\ gate[doing[w]] \in {"none", "open"} /\ Asks(Kind(doing[w]))
        /\ gate' = [gate EXCEPT ![doing[w]] = "open"] /\ UNCHANGED <<files, deployed>>
    BY <1>3 DEF Ask
  <2>2. PICK r \in RunRecords :
          run' = [run EXCEPT ![w] = r] /\ r.at = "settle" /\ r.out = "awaiting_human"
    BY <2>1, Returning, PlacesAre
  <2>3. Steps(w, doing[w], r, {})
    BY <1>1, <2>1, <2>2, Stepping
  <2>4. Asks1(w, doing[w], r, {})
    BY <1>1, <2>1, <2>2 DEF Asks1
  <2> QED BY <1>2, <2>3, <2>4 DEF Rowed, Row
<1>4. CASE Elicit(w) \/ SaveSpec(w) \/ SaveConsent(w)
  <2>1. PICK place \in {"elicited", "saved", "consented"} :
          /\ Goto(w, place) /\ UNCHANGED <<table, gate, deployed>> /\ run[w].at = "start"
          /\ \/ /\ place = "elicited" /\ Kind(doing[w]) = "interview" /\ gate[doing[w]] \in Scopes
                /\ elicited' = gate[doing[w]] /\ UNCHANGED <<dspec, consent>>
             \/ /\ place = "saved" /\ Kind(doing[w]) = "synthesize"
                /\ dspec' = elicited /\ UNCHANGED <<elicited, consent>>
             \/ /\ place = "consented" /\ Kind(doing[w]) = "spec" /\ gate[doing[w]] = "accept"
                /\ consent' = dspec /\ UNCHANGED <<elicited, dspec>>
    BY <1>4 DEF Elicit, SaveSpec, SaveConsent, At
  <2>2. PICK r \in RunRecords : run' = [run EXCEPT ![w] = r] /\ r.at = place
    BY <1>1, <2>1, Going, PlacesAre
  <2>3. Steps(w, doing[w], r, {})
    BY <1>1, <2>1, <2>2, PlacesAre, Stepping
  <2>4. Writes(w, doing[w], r, {})
    BY <1>1, <2>1, <2>2 DEF Writes
  <2> QED BY <1>2, <2>3, <2>4 DEF Rowed, Row
<1>5. CASE Apply(w)
  <2>1. PICK place \in {"verified", "broken"} : Goto(w, place)
    BY <1>5 DEF Apply
  <2>2. /\ UNCHANGED <<table, gate, files>> /\ At(w, "execute", "loaded")
        /\ deployed' = deployed \cup {<<Leg(doing[w]), run[w].target>>}
    BY <1>2, <1>5 DEF Apply
  <2>3. PICK r \in RunRecords :
          run' = [run EXCEPT ![w] = r] /\ r.at = place /\ r.target = run[w].target
    BY <1>1, <2>1, Going, PlacesAre
  <2>4. Steps(w, doing[w], r, {})
    BY <1>1, <2>2, <2>3, Stepping
  <2>5. Applies(w, doing[w], r, {})
    BY <1>1, <2>2, <2>3 DEF Applies, At
  <2> QED BY <1>2, <2>4, <2>5 DEF Rowed, Row
<1>6. CASE Refused(w)
  <2>1. Goto(w, "broken") /\ run[w].at = "loaded" /\ UNCHANGED <<table, gate, files, deployed>>
    BY <1>6 DEF Refused, At
  <2>2. PICK r \in RunRecords : run' = [run EXCEPT ![w] = r] /\ r.at = "broken"
    BY <1>1, <2>1, Going, PlacesAre
  <2>3. Steps(w, doing[w], r, {})
    BY <1>1, <2>1, <2>2, Stepping
  <2>4. Breaks(w, doing[w], r, {})
    BY <1>1, <2>1, <2>2 DEF Breaks, Quiet
  <2> QED BY <1>2, <2>3, <2>4 DEF Rowed, Row
<1>7. CASE EnqueueTriage(w)
  <2> DEFINE n == The("triage", Of(w))
  <2>1. /\ At(w, "execute", "failing") /\ Enqueue(n) /\ UNCHANGED <<gate, files, deployed>>
        /\ \E o \in {"ready", "failed"} : Return(w, o) /\ (o = "failed" => doing[w] \in again)
    BY <1>7 DEF EnqueueTriage, The, Fail
  <2>2. n \in Jobs
    BY <1>2, TheIs, KindsAre
  <2> HIDE DEF n
  <2>3. PICK o \in {"ready", "failed"} : Return(w, o) /\ (o = "failed" => doing[w] \in again)
    BY <2>1
  <2>4. PICK r \in RunRecords : run' = [run EXCEPT ![w] = r] /\ r.at = "settle" /\ r.out = o
    BY <2>3, Returning, PlacesAre
  <2>5. Steps(w, doing[w], r, {n})
    BY <1>1, <2>1, <2>2, <2>4, Stepping
  <2>6. Triages(w, doing[w], r, {n})
    BY <1>1, <1>2, <2>1, <2>3, <2>4 DEF Triages, Gives, Quiet, n, At, Movers
  <2>7. {n} \in SUBSET Jobs
    BY <2>2
  <2> QED BY <1>2, <2>4, <2>5, <2>6, <2>7 DEF Rowed, Row
<1> QED BY <1>3, <1>4, <1>5, <1>6, <1>7

\* The moves of the phase, and the misses of an execution.
LEMMA RowMoves ==
  ASSUME Basis, NEW w \in Workers,
         \/ Cross(w) \/ EnterExecute(w) \/ EnterReview(w) \/ EnterTriage(w) \/ Conclude(w)
         \/ Loop(w)
  PROVE  Rowed(w)
<1>1. /\ run[w].at \notin {"idle", "settle"}
      /\ UNCHANGED <<table, gate, files, deployed, accepted, again, faults>>
  BY DEF Cross, EnterExecute, EnterReview, EnterTriage, Conclude, Loop, At, Routing
<1>2. /\ doing[w] \in Jobs /\ Of(w) = Leg(doing[w]) /\ Of(w) \in Legs
      /\ Kind(doing[w]) = "bridge" => doing[w] = Bridge
  BY <1>1, AtWork, JobIs
<1>3. ASSUME Routing(w, "start")
      PROVE  /\ Kind(doing[w]) \in Routes /\ run[w].at = "start"
             /\ Action(w) = Reply(Kind(doing[w]), Leg(doing[w]))
  BY <1>2, <1>3 DEF Routing, At, Routes, Action, Reply, Asking, The
<1>4. ASSUME NEW place \in {"crossed", "entered", "reviewing", "failing", "routed"},
             Goto(w, place), UNCHANGED cycle,
             \A r \in RunRecords : r.at = place => Moves(w, doing[w], r, {})
      PROVE  Rowed(w)
  <2>1. PICK r \in RunRecords : run' = [run EXCEPT ![w] = r] /\ r.at = place
    BY <1>1, <1>4, Going, PlacesAre
  <2>2. Steps(w, doing[w], r, {})
    BY <1>1, <1>4, <2>1, Stepping
  <2> QED BY <1>2, <1>4, <2>1, <2>2 DEF Rowed, Row
<1>5. CASE Cross(w)
  <2>1. /\ Goto(w, "crossed") /\ UNCHANGED cycle /\ At(w, "bridge", "start")
        /\ IF phase = "DEPLOY" THEN phase' = "DEPLOY_DESIGN" ELSE phase' = phase
    BY <1>5 DEF Cross, Transition
  <2>2. \A r \in RunRecords : r.at = "crossed" => Moves(w, doing[w], r, {})
    BY <1>1, <1>2, <2>1 DEF Moves, At
  <2> QED BY <1>4, <2>1, <2>2
<1>6. CASE EnterExecute(w)
  <2>1. /\ Goto(w, "entered") /\ UNCHANGED cycle /\ At(w, "spec", "consented")
        /\ phase = "DEPLOY_DESIGN" /\ phase' = "DEPLOY_EXECUTE"
    BY <1>6 DEF EnterExecute, Transition
  <2>2. \A r \in RunRecords : r.at = "entered" => Moves(w, doing[w], r, {})
    BY <1>1, <1>2, <2>1 DEF Moves, At
  <2> QED BY <1>4, <2>1, <2>2
<1>7. CASE (EnterReview(w) \/ EnterTriage(w)) /\ phase = "DEPLOY_EXECUTE"
  <2>1. PICK place \in {"reviewing", "failing"} :
          /\ Goto(w, place) /\ UNCHANGED cycle /\ Kind(doing[w]) = "execute"
          /\ <<run[w].at, place>> \in {<<"verified", "reviewing">>, <<"broken", "failing">>}
          /\ phase' = "DEPLOY_REVIEW"
    BY <1>7 DEF EnterReview, EnterTriage, Transition, At
  <2>2. \A r \in RunRecords : r.at = place => Moves(w, doing[w], r, {})
    BY <1>1, <1>2, <1>7, <2>1 DEF Moves
  <2> QED BY <1>4, <2>1, <2>2
<1>8. CASE EnterReview(w) /\ phase # "DEPLOY_EXECUTE"
  <2>1. Goto(w, "broken") /\ run[w].at = "verified" /\ UNCHANGED project
    BY <1>8 DEF EnterReview, Transition, At
  <2>2. PICK r \in RunRecords : run' = [run EXCEPT ![w] = r] /\ r.at = "broken"
    BY <1>1, <2>1, Going, PlacesAre
  <2>3. Steps(w, doing[w], r, {})
    BY <1>1, <2>1, <2>2, Stepping
  <2>4. Breaks(w, doing[w], r, {})
    BY <1>1, <2>1, <2>2 DEF Breaks, Quiet
  <2> QED BY <1>2, <2>3, <2>4 DEF Rowed, Row
<1>9. CASE EnterTriage(w) /\ phase # "DEPLOY_EXECUTE"
  <2>1. Fail(w) /\ UNCHANGED project /\ Kind(doing[w]) \in Movers
    BY <1>9 DEF EnterTriage, Transition, At, Movers
  <2> QED BY <1>1, <2>1, RowGivesUp
<1>10. CASE Conclude(w)
  <2>1. /\ Return(w, "succeeded") /\ UNCHANGED cycle /\ Routing(w, "start")
        /\ phase = "DEPLOY_REVIEW" /\ phase' \in {"DONE", "DESIGN"}
    BY <1>10 DEF Conclude, Transition
  <2>2. PICK r \in RunRecords :
          run' = [run EXCEPT ![w] = r] /\ r.at = "settle" /\ r.out = "succeeded"
    BY <2>1, Returning, PlacesAre
  <2>3. Steps(w, doing[w], r, {})
    BY <1>1, <2>1, <2>2, Stepping
  <2>4. Moves(w, doing[w], r, {})
    BY <1>1, <1>3, <2>1, <2>2 DEF Moves
  <2> QED BY <1>2, <2>3, <2>4 DEF Rowed, Row
<1>11. CASE Loop(w)
  <2>1. /\ Goto(w, "routed") /\ UNCHANGED cycle /\ Routing(w, "start")
        /\ phase = "DEPLOY_REVIEW" /\ phase' = Target(Action(w))
        /\ Target(Action(w)) \in {"DEPLOY_DESIGN", "DEPLOY_EXECUTE"}
    BY <1>11 DEF Loop, Transition
  <2>2. \A r \in RunRecords : r.at = "routed" => Moves(w, doing[w], r, {})
    BY <1>1, <1>3, <2>1 DEF Moves, Onwards
  <2> QED BY <1>4, <2>1, <2>2
<1> QED BY <1>5, <1>6, <1>7, <1>8, <1>9, <1>10, <1>11

-----------------------------------------------------------------------------
(* Basis: a handler takes a step                                           *)

\* What a step leaves and what it changes.
LEMMA StepIs ==
  ASSUME Basis, NEW w \in Workers, NEW j \in Jobs, NEW r \in RunRecords, NEW N \in SUBSET Jobs,
         Steps(w, j, r, N)
  PROVE  /\ doing[w] = j /\ Present(j) /\ Leg(j) \in Legs /\ Placed(w)
         /\ run'[w] = r /\ run' \in [Workers -> RunRecords]
         /\ \A v \in Workers \ {w} : run'[v] = run[v]
         /\ UNCHANGED <<holder, doing, accepted, again>>
         /\ st' \in [Jobs -> RowStates]
         /\ \A k \in Jobs : /\ Present(k)' <=> Present(k) \/ k \in N
                            /\ st'[k] = st[k] \/ (st[k] = "absent" /\ st'[k] = "ready" /\ k \in N)
<1>1. TableTyped /\ run \in [Workers -> RunRecords]
  BY Typed DEF Basis
<1>2. run[w].at # "idle" /\ doing[w] = j
  BY DEF Steps
<1>3. Present(j) /\ Placed(w) /\ Leg(j) \in Legs
  BY <1>2, AtWork, JobIs
<1>4. run'[w] = r /\ run' \in [Workers -> RunRecords] /\ \A v \in Workers \ {w} : run'[v] = run[v]
  BY <1>1 DEF Steps
<1>5. /\ st' \in [Jobs -> RowStates]
      /\ \A k \in Jobs : /\ Present(k)' <=> Present(k) \/ k \in N
                         /\ st'[k] = st[k] \/ (st[k] = "absent" /\ st'[k] = "ready" /\ k \in N)
  BY <1>1 DEF Steps, TableTyped, RowStates, Outcomes, Present
<1>6. UNCHANGED <<holder, doing, accepted, again>>
  BY DEF Steps
<1> QED BY <1>2, <1>3, <1>4, <1>5, <1>6

\* No step takes back an answer or a phase.
Kept ==
  /\ \A k \in Jobs : /\ gate[k] # "none" => gate'[k] # "none"
                     /\ gate[k] \notin {"none", "open"} => gate'[k] = gate[k]
  /\ phase # "DEPLOY" => phase' # "DEPLOY"
  /\ phase \in {"DONE", "DESIGN"} => phase' = phase
  /\ elicited # NoScope => elicited' # NoScope
  /\ dspec # NoScope => dspec' # NoScope

\* What is stored by a step is of its type.
LEMMA RowStores ==
  ASSUME Basis, NEW w \in Workers, NEW j \in Jobs, NEW r \in RunRecords, NEW N \in SUBSET Jobs,
         Steps(w, j, r, N), Row(w, j, r, N)
  PROVE  StoresTyped' /\ Kept /\ Gated'
<1>1. /\ StoresTyped /\ Gated /\ Stored /\ Lineage /\ run[w] \in RunRecords
  BY Typed, AtWork DEF Basis, Steps
<1>2. /\ doing[w] = j /\ Present(j) /\ Leg(j) \in Legs /\ Placed(w)
      /\ UNCHANGED <<accepted, again>> /\ cycle' = cycle
  BY StepIs DEF Steps
<1>3. faults' \in 0 .. MaxFaults
  BY <1>1, FaultAssumption DEF Steps, StoresTyped
<1>4. CASE Asks1(w, j, r, N)
  <2>1. /\ gate' = [gate EXCEPT ![j] = "open"] /\ gate[j] \in {"none", "open"}
        /\ UNCHANGED <<phase, elicited, dspec, consent, deployed>>
    BY <1>4 DEF Asks1
  <2>2. \A k \in Jobs : gate'[k] = IF k = j THEN "open" ELSE gate[k]
    BY <1>1, <2>1 DEF StoresTyped
  <2>3. StoresTyped'
    BY <1>1, <1>2, <1>3, <2>1 DEF StoresTyped, Gates
  <2>4. Kept
    BY <2>1, <2>2 DEF Kept
  <2>5. Gated'
    BY <1>1, <2>2 DEF Gated, RepliesTo, Loops
  <2> QED BY <2>3, <2>4, <2>5
<1>5. CASE Writes(w, j, r, N)
  <2>1. Gated' /\ UNCHANGED <<gate, phase, deployed>>
    BY <1>1, <1>5 DEF Writes, Gated, RepliesTo, Loops
  <2>2. CASE UNCHANGED <<dspec, consent>> /\ elicited' \in Scopes
    BY <1>1, <1>2, <1>3, <2>1, <2>2, ScopeAssumption DEF StoresTyped, Kept, Targets
  <2>3. CASE UNCHANGED <<elicited, consent>> /\ dspec' = elicited /\ Kind(j) = "synthesize"
    <3>1. elicited # NoScope
      BY <1>1, <1>2, <2>3 DEF Stored
    <3> QED BY <1>1, <1>2, <1>3, <2>1, <2>3, <3>1 DEF StoresTyped, Kept
  <2>4. CASE UNCHANGED <<elicited, dspec>> /\ consent' = dspec
    BY <1>1, <1>2, <1>3, <2>1, <2>4 DEF StoresTyped, Kept
  <2> QED BY <1>5, <2>2, <2>3, <2>4 DEF Writes
<1>6. CASE Applies(w, j, r, N)
  <2>1. run[w].target \in Scopes
    BY <1>2, <1>6 DEF Applies, Placed
  <2>2. Gated' /\ UNCHANGED <<gate, phase, files>>
    BY <1>1, <1>6 DEF Applies, Gated, RepliesTo, Loops
  <2>3. deployed' \subseteq Legs \X Scopes
    BY <1>1, <1>2, <1>6, <2>1 DEF Applies, StoresTyped
  <2> QED BY <1>1, <1>2, <1>3, <2>2, <2>3 DEF StoresTyped, Kept
<1>7. CASE Moves(w, j, r, N)
  <2>1. Gated' /\ UNCHANGED <<gate, files, deployed>>
    BY <1>1, <1>7 DEF Moves, Gated, RepliesTo, Loops
  <2>2. \/ phase' = phase
        \/ /\ phase \in {"DEPLOY", "DEPLOY_DESIGN", "DEPLOY_EXECUTE", "DEPLOY_REVIEW"}
           /\ phase' \in {"DEPLOY_DESIGN", "DEPLOY_EXECUTE", "DEPLOY_REVIEW", "DONE", "DESIGN"}
    BY <1>7 DEF Moves, Onwards
  <2>3. phase' \in Machine!Phases
    BY <1>1, <2>2 DEF StoresTyped, Machine!Phases, Machine!Edges
  <2> QED BY <1>1, <1>2, <1>3, <2>1, <2>2, <2>3 DEF StoresTyped, Kept
<1>8. CASE Quiet
  <2>1. Gated'
    BY <1>1, <1>8 DEF Quiet, Gated, RepliesTo, Loops
  <2> QED BY <1>1, <1>2, <1>3, <1>8, <2>1 DEF Quiet, StoresTyped, Kept
<1> QED BY <1>4, <1>5, <1>6, <1>7, <1>8
      DEF Row, GivesUp, Breaks, Loads, Hands, Triages

\* The types, and who has what.
LEMMA RowTyped ==
  ASSUME Basis, NEW w \in Workers, NEW j \in Jobs, NEW r \in RunRecords, NEW N \in SUBSET Jobs,
         Steps(w, j, r, N), Row(w, j, r, N)
  PROVE  TypeOK' /\ Tabled'
<1>1. /\ TypeOK /\ Tabled /\ TableTyped
  BY Typed DEF Basis
<1>2. /\ doing[w] = j /\ run'[w] = r /\ run' \in [Workers -> RunRecords] /\ Present(j)
      /\ \A v \in Workers \ {w} : run'[v] = run[v]
      /\ UNCHANGED <<holder, doing, again>> /\ st' \in [Jobs -> RowStates]
      /\ \A k \in Jobs : /\ Present(k)' <=> Present(k) \/ k \in N
                         /\ st'[k] = st[k] \/ (st[k] = "absent" /\ st'[k] = "ready")
  BY StepIs
<1>3. StoresTyped' /\ Kept
  BY RowStores
<1>4. \A v \in Workers : run'[v].at = "idle" <=> doing'[v] = NoJob
  BY <1>1, <1>2 DEF Steps, TypeOK
<1>5. \A k \in Jobs : st'[k] = "awaiting_human" => gate'[k] # "none"
  BY <1>1, <1>2, <1>3 DEF TypeOK, Kept
<1>6. TypeOK'
  BY <1>1, <1>2, <1>3, <1>4, <1>5, TypedNext DEF TableTyped
<1>7. Tabled'
  <2>1. \A k \in Jobs : holder'[k] # NoWorker <=> st'[k] = "leased"
    BY <1>1, <1>2 DEF Tabled
  <2>2. \A v \in Workers : doing'[v] # NoJob => st'[doing'[v]] # "absent"
    <3> TAKE v \in Workers
    <3>1. doing'[v] = doing[v] /\ (doing[v] # NoJob => doing[v] \in Jobs /\ Present(doing[v]))
      BY <1>1, <1>2 DEF Tabled, TableTyped
    <3> QED BY <1>2, <3>1 DEF Present
  <2>3. \A k \in Jobs \ again', v \in Workers : doing'[v] = k => st'[k] = "leased" /\ holder'[k] = v
    <3> TAKE k \in Jobs \ again', v \in Workers
    <3>1. doing[v] = k => st[k] = "leased" /\ holder[k] = v
      BY <1>1, <1>2 DEF Tabled
    <3>2. st'[k] = st[k] \/ st[k] = "absent"
      BY <1>2
    <3> QED BY <1>2, <3>1, <3>2
  <2> QED BY <2>1, <2>2, <2>3 DEF Tabled, Present
<1> QED BY <1>6, <1>7

\* The handler of j, where it is, inserts n.
Child(w, j, n) ==
  \/ Next1(w, j, n) \/ Next2(w, j, n) \/ Next3(w, j, n)
  \/ Kind(j) = "execute" /\ run[w].at = "failing" /\ n = The("triage", Leg(j))

\* What a step inserts, it inserts as the last thing the handler does.
LEMMA Inserts ==
  ASSUME NEW w \in Workers, NEW j \in Jobs, NEW r \in RunRecords, NEW N \in SUBSET Jobs,
         Row(w, j, r, N), N # {}
  PROVE  \E n \in Jobs :
           /\ N = {n} /\ r.at = "settle" /\ r.out # "awaiting_human" /\ Quiet
           /\ Child(w, j, n)
<1>1. CASE Hands(w, j, r, N)
  BY <1>1 DEF Hands, Child
<1>2. CASE Triages(w, j, r, N)
  BY <1>2 DEF Triages, Gives, Child
<1> QED BY <1>1, <1>2 DEF Row, GivesUp, Breaks, Loads, Asks1, Writes, Applies, Moves

\* A route that leads on has a leg to lead to.
LEMMA RoutesOn ==
  ASSUME Gated, NEW k \in Routes, NEW m \in Legs, Reply(k, m) \notin {"none", "open"},
         Onwards(k, m)
  PROVE  Onward[k][m] # NoLeg
<1>1. CASE k = "route demo"
  <2> DEFINE j == The("demo", m)
  <2>1. j \in Jobs /\ Kind(j) = "demo" /\ Leg(j) = m
    BY TheIs, KindsAre
  <2>2. gate[j] = Reply(k, m)
    BY <1>1 DEF Reply, Asking
  <2> HIDE DEF j
  <2>3. gate[j] = "approve" \/ gate[j] \in Loops(j, "route demo", {"request_changes"})
    BY <2>1, <2>2 DEF Gated, RepliesTo
  <2>4. gate[j] # "approve"
    BY <2>2 DEF Onwards, Target
  <2> QED BY <1>1, <2>1, <2>3, <2>4 DEF Loops
<1>2. CASE k = "route triage"
  <2> DEFINE j == The("triage", m)
  <2>1. j \in Jobs /\ Kind(j) = "triage" /\ Leg(j) = m
    BY TheIs, KindsAre
  <2>2. gate[j] = Reply(k, m)
    BY <1>2 DEF Reply, Asking
  <2> HIDE DEF j
  <2>3. \/ gate[j] \in {"abort", "loop_code_fix"}
        \/ gate[j] \in Loops(j, "route triage", {"loop_design", "retry_execute"})
    BY <2>1, <2>2 DEF Gated, RepliesTo
  <2>4. gate[j] \notin {"abort", "loop_code_fix"}
    BY <2>2 DEF Onwards, Target
  <2> QED BY <1>2, <2>1, <2>3, <2>4 DEF Loops
<1> QED BY <1>1, <1>2 DEF Routes

\* Where a route is at work, its answer has been given.
LEMMA RouteIs ==
  ASSUME Basis, NEW w \in Workers, doing[w] # NoJob, Kind(doing[w]) \in Routes
  PROVE  /\ Of(w) \in Legs /\ Of(w) = Leg(doing[w]) /\ doing[w] = The(Kind(doing[w]), Of(w))
         /\ Present(The(Kind(doing[w]), Of(w)))
         /\ Reply(Kind(doing[w]), Of(w)) \notin {"none", "open"}
         /\ The(Asking(Kind(doing[w])), Of(w)) \in Jobs
<1>1. doing[w] \in Jobs /\ Present(doing[w])
  BY DEF Basis, TypeOK, Tabled
<1>2. Of(w) \in Legs /\ Of(w) = Leg(doing[w]) /\ doing[w] = The(Kind(doing[w]), Of(w))
  BY <1>1, JobIs, BridgeIs DEF Of, Routes
<1>3. The(Asking(Kind(doing[w])), Of(w)) \in Jobs
  BY <1>2, TheIs, KindsAre
<1> QED BY <1>1, <1>2, <1>3 DEF Basis, Lineage

\* Whoever has stored what he read is followed by jobs that find it.
LEMMA RowStored ==
  ASSUME Basis, NEW w \in Workers, NEW j \in Jobs, NEW r \in RunRecords, NEW N \in SUBSET Jobs,
         Steps(w, j, r, N), Row(w, j, r, N)
  PROVE  Stored'
<1>1. Stored /\ Placed(w) /\ Present(j) /\ doing[w] = j /\ Leg(j) \in Legs
  BY StepIs DEF Basis
<1>2. Kept
  BY RowStores
<1>3. j # NoJob
  BY NullAssumption
<1>4. ASSUME NEW n \in Jobs, n \in N
      PROVE  /\ Kind(n) \notin {"bridge", "interview"} => elicited # NoScope
             /\ Kind(n) \notin {"bridge", "interview", "synthesize"} => dspec # NoScope
  <2>1. \/ Next1(w, j, n) \/ Next2(w, j, n) \/ Next3(w, j, n)
        \/ Kind(j) = "execute"
    BY <1>4, Inserts DEF Child
  <2>2. CASE Kind(j) \notin {"bridge", "interview", "synthesize"}
    BY <1>1, <2>2 DEF Stored
  <2>3. CASE Kind(j) \in {"bridge", "interview", "synthesize"}
    <3>1. Next1(w, j, n)
      BY <2>1, <2>3 DEF Next2, Next3, Routes
    <3>2. CASE n = The("interview", 0)
      BY <3>2, TheIs, KindsAre, LegAssumption
    <3>3. CASE Kind(j) = "interview" /\ run[w].at = "elicited" /\ n = The("synthesize", Leg(j))
      <4>1. elicited # NoScope
        BY <1>1, <1>3, <3>3 DEF Placed, At
      <4> QED BY <1>1, <3>3, <4>1, TheIs, KindsAre
    <3>4. CASE Kind(j) = "synthesize" /\ run[w].at = "saved"
      <4>1. dspec # NoScope
        BY <1>1, <1>3, <3>4 DEF Placed, At
      <4>2. elicited # NoScope
        BY <1>1, <3>4 DEF Stored
      <4> QED BY <4>1, <4>2
    <3> QED BY <2>3, <3>1, <3>2, <3>3, <3>4 DEF Next1
  <2> QED BY <2>2, <2>3
<1>5. \A k \in Jobs : Present(k)' <=> Present(k) \/ k \in N
  BY StepIs
<1> QED BY <1>1, <1>2, <1>4, <1>5 DEF Stored, Kept

\* A worker who goes on with his job is where he was.
LEMMA PlacedStays ==
  ASSUME Basis, Kept, NEW v \in Workers, doing'[v] # NoJob, doing'[v] = doing[v], run'[v] = run[v]
  PROVE  Placed(v)'
<1>1. run'[v] = run[v] /\ doing'[v] = doing[v] /\ Placed(v) /\ doing[v] \in Jobs
  BY DEF Basis, TypeOK
<1>2. Kind(doing[v]) \in Routes =>
        Reply(Kind(doing[v]), Of(v))' = Reply(Kind(doing[v]), Of(v)) /\ Of(v)' = Of(v)
  BY <1>1, RouteIs DEF Kept, Reply, Of
<1>3. Leaving(v, doing[v], "awaiting_human")' => gate'[doing[v]] # "none"
  BY <1>1 DEF Placed, Kept, Leaving
<1>4. Routing(v, "routed")' => /\ Onwards(Kind(doing[v]), Of(v))'
                               /\ Onward[Kind(doing[v])][Of(v)]' # NoLeg
  <2> SUFFICES ASSUME Routing(v, "routed")'
               PROVE  /\ Onwards(Kind(doing[v]), Of(v))'
                      /\ Onward[Kind(doing[v])][Of(v)]' # NoLeg
    OBVIOUS
  <2>1. Routing(v, "routed") /\ Kind(doing[v]) \in Routes
    BY <1>1 DEF Routing, At, Routes
  <2> QED BY <1>1, <1>2, <2>1 DEF Placed, Onwards
<1> QED BY <1>1, <1>3, <1>4 DEF Placed, Kept, At

\* Where a handler is still tells what it has done.
LEMMA RowPlaced ==
  ASSUME Basis, NEW w \in Workers, NEW j \in Jobs, NEW r \in RunRecords, NEW N \in SUBSET Jobs,
         Steps(w, j, r, N), Row(w, j, r, N), NEW v \in Workers, doing'[v] # NoJob
  PROVE  Placed(v)'
<1>1. /\ doing[w] = j /\ run'[w] = r /\ run[w].at \notin {"idle", "settle"}
      /\ \A u \in Workers \ {w} : run'[u] = run[u]
      /\ UNCHANGED <<holder, doing, accepted, again>> /\ Present(j) /\ Leg(j) \in Legs
      /\ Stored /\ Gated /\ Lineage
  BY StepIs DEF Basis, Steps
<1>2. StoresTyped /\ StoresTyped' /\ Kept
  BY RowStores, Typed DEF Basis
<1>3. CASE v # w
  BY <1>1, <1>2, <1>3, PlacedStays
<1>4. CASE v = w
  <2>1. doing'[v] = j /\ run'[v] = r /\ Of(v)' = Leg(j)
    BY <1>1, <1>4 DEF Of
  <2>2. r.at = "settle" /\ r.out = "awaiting_human" => gate'[j] # "none"
    <3>1. r.at = "settle" /\ r.out = "awaiting_human" => Asks1(w, j, r, N)
      BY DEF Row, GivesUp, Gives, Breaks, Loads, Hands, Triages, Writes, Applies, Moves
    <3>2. Asks1(w, j, r, N) => gate'[j] = "open"
      BY <1>2 DEF Asks1, StoresTyped
    <3> QED BY <3>1, <3>2
  <2>3. Kind(j) = "bridge" /\ r.at = "crossed" => phase' # "DEPLOY"
    BY DEF Row, GivesUp, Gives, Breaks, Loads, Hands, Triages, Writes, Applies, Moves, Asks1,
           Onwards
  <2>4. r.at = "elicited" => elicited' # NoScope
    BY ScopeAssumption
       DEF Row, GivesUp, Gives, Breaks, Loads, Hands, Triages, Writes, Applies, Moves, Asks1
  <2>5. r.at = "saved" => dspec' # NoScope
    <3>1. Kind(j) = "synthesize" => elicited # NoScope
      BY <1>1 DEF Stored
    <3> QED BY <3>1
        DEF Row, GivesUp, Gives, Breaks, Loads, Hands, Triages, Writes, Applies, Moves, Asks1
  <2>6. r.at = "loaded" => r.target \in Scopes
    <3>1. Kind(j) = "execute" => dspec \in Scopes
      BY <1>1, <1>2 DEF Stored, StoresTyped, Targets
    <3> QED BY <3>1
        DEF Row, GivesUp, Gives, Breaks, Loads, Hands, Triages, Writes, Applies, Moves, Asks1
  <2>7. r.at = "routed" => /\ Onwards(Kind(j), Leg(j))' /\ Onward[Kind(j)][Leg(j)] # NoLeg
    <3> SUFFICES ASSUME r.at = "routed"
                 PROVE  Onwards(Kind(j), Leg(j))' /\ Onward[Kind(j)][Leg(j)] # NoLeg
      OBVIOUS
    <3>1. Kind(j) \in Routes /\ Onwards(Kind(j), Leg(j)) /\ UNCHANGED gate
      BY DEF Row, GivesUp, Gives, Breaks, Loads, Hands, Triages, Writes, Applies, Moves, Asks1
    <3>2. Reply(Kind(j), Leg(j)) \notin {"none", "open"}
      BY <1>1, <3>1, RouteIs, NullAssumption
    <3>3. Onward[Kind(j)][Leg(j)] # NoLeg
      BY <1>1, <3>1, <3>2, RoutesOn
    <3> QED BY <3>1, <3>3 DEF Onwards, Reply
  <2>8. Routing(v, "routed")' => r.at = "routed"
    BY <2>1 DEF Routing, At
  <2> QED BY <2>1, <2>2, <2>3, <2>4, <2>5, <2>6, <2>7, <2>8 DEF Placed, At, Leaving
<1> QED BY <1>3, <1>4

\* No two kinds or legs share a job.
LEMMA TheSame ==
  ASSUME NEW k, NEW m, NEW l, NEW n, The(k, m) = The(l, n)
  PROVE  k = l /\ m = n
BY DEF The

\* Whose job has a spec, a synthesis or an execution, and where it began.
LEMMA Begins ==
  ASSUME Lineage, NEW m \in Legs
  PROVE  /\ Present(The("synthesize", m)) \/ Present(The("spec", m)) => Present(The("interview", m))
         /\ Present(The("demo", m)) \/ Present(The("triage", m)) => Begun(m)
         /\ \A k \in Routes : Present(The(k, m)) => Begun(m)
<1>1. ASSUME NEW k \in Routes
      PROVE  Present(The(k, m)) => Present(The("demo", m)) \/ Present(The("triage", m))
  BY DEF Lineage, Asking
<1> QED BY <1>1 DEF Lineage, Begun

\* Who inserts what.
LEMMA Children ==
  ASSUME NEW w \in Workers, NEW j \in Jobs, NEW n \in Jobs, Child(w, j, n)
  PROVE  /\ Kind(n) = "interview" => n = The("interview", 0) \/ Next3(w, j, n)
         /\ Kind(n) = "synthesize" => j = The("interview", Leg(n))
         /\ Kind(n) = "spec" => j = The("synthesize", Leg(n))
         /\ Kind(n) = "execute" => j = The("spec", Leg(n)) \/ Next3(w, j, n)
         /\ Kind(n) \in {"demo", "triage"} => j = The("execute", Leg(n))
         /\ Kind(n) \in Routes => /\ j = The(Asking(Kind(n)), Leg(n))
                                  /\ gate[j] \notin {"none", "open"} /\ run[w].at = "start"
         /\ n # Bridge
<1>1. Leg(j) \in Legs /\ (j = Bridge \/ j = The(Kind(j), Leg(j))) /\ Kind(Bridge) = "bridge"
  BY JobIs, BridgeIs
<1>2. 0 \in Legs
  BY LegAssumption
<1>3. ASSUME NEW k \in Kinds, n = The(k, Leg(j))
      PROVE  Kind(n) = k /\ Leg(n) = Leg(j) /\ n # Bridge
  BY <1>1, <1>3, TheIs
<1>4. CASE n = The("interview", 0)
  <2>1. Kind(n) = "interview" /\ n # Bridge
    BY <1>2, <1>4, TheIs, KindsAre
  <2> QED BY <1>4, <2>1 DEF Routes
<1>5. CASE Next1(w, j, n) /\ n # The("interview", 0)
  <2>1. CASE Kind(j) = "interview" /\ n = The("synthesize", Leg(j))
    <3>1. Kind(n) = "synthesize" /\ Leg(n) = Leg(j) /\ n # Bridge
      BY <1>3, <2>1, KindsAre
    <3> QED BY <1>1, <2>1, <3>1 DEF Routes
  <2>2. CASE Kind(j) = "synthesize" /\ n = The("spec", Leg(j))
    <3>1. Kind(n) = "spec" /\ Leg(n) = Leg(j) /\ n # Bridge
      BY <1>3, <2>2, KindsAre
    <3> QED BY <1>1, <2>2, <3>1 DEF Routes
  <2>3. CASE Kind(j) = "spec" /\ n = The("execute", Leg(j))
    <3>1. Kind(n) = "execute" /\ Leg(n) = Leg(j) /\ n # Bridge
      BY <1>3, <2>3, KindsAre
    <3> QED BY <1>1, <2>3, <3>1 DEF Routes
  <2>4. CASE Kind(j) = "execute" /\ n = The("demo", Leg(j))
    <3>1. Kind(n) = "demo" /\ Leg(n) = Leg(j) /\ n # Bridge
      BY <1>3, <2>4, KindsAre
    <3> QED BY <1>1, <2>4, <3>1 DEF Routes
  <2> QED BY <1>5, <2>1, <2>2, <2>3, <2>4 DEF Next1
<1>6. CASE Next2(w, j, n)
  <2>1. ASSUME NEW k \in Routes, Kind(j) = Asking(k), n = The(k, Leg(j)),
               gate[j] \notin {"none", "open"}, run[w].at = "start"
        PROVE  /\ j = The(Asking(Kind(n)), Leg(n)) /\ Kind(n) \in Routes /\ n # Bridge
    <3>1. Kind(n) = k /\ Leg(n) = Leg(j) /\ n # Bridge
      BY <1>3, <2>1, KindsAre
    <3>2. Kind(j) # "bridge"
      BY <2>1 DEF Asking
    <3> QED BY <1>1, <2>1, <3>1, <3>2
  <2>2. \E k \in Routes : Kind(j) = Asking(k) /\ n = The(k, Leg(j))
    BY <1>6 DEF Next2, Routes, Asking
  <2>3. gate[j] \notin {"none", "open"} /\ run[w].at = "start"
    BY <1>6 DEF Next2
  <2> QED BY <2>1, <2>2, <2>3 DEF Routes
<1>7. CASE Next3(w, j, n)
  <2>1. PICK k \in {"interview", "execute"} :
          n = The(k, Onward[Kind(j)][Leg(j)])
    BY <1>7 DEF Next3
  <2>2. Kind(n) = k /\ n # Bridge
    BY <2>1 DEF The, Kind, Bridge
  <2> QED BY <1>7, <2>2 DEF Routes
<1>8. CASE Kind(j) = "execute" /\ n = The("triage", Leg(j))
  <2>1. Kind(n) = "triage" /\ Leg(n) = Leg(j) /\ n # Bridge
    BY <1>3, <1>8, KindsAre
  <2> QED BY <1>1, <1>8, <2>1 DEF Routes
<1> QED BY <1>4, <1>5, <1>6, <1>7, <1>8 DEF Child

\* Every job is inserted by the one before it.
LEMMA RowLineage ==
  ASSUME Basis, NEW w \in Workers, NEW j \in Jobs, NEW r \in RunRecords, NEW N \in SUBSET Jobs,
         Steps(w, j, r, N), Row(w, j, r, N)
  PROVE  Lineage'
<1>1. /\ Lineage /\ Kept /\ Present(j) /\ Leg(j) \in Legs /\ doing[w] = j
      /\ \A k \in Jobs : Present(k)' <=> Present(k) \/ k \in N
  BY StepIs, RowStores DEF Basis
<1>2. 0 \in Legs
  BY LegAssumption
<1>3. ASSUME NEW k \in Kinds, NEW m \in Legs
      PROVE  The(k, m) \in Jobs /\ (Present(The(k, m)) => Present(The(k, m))')
  BY <1>1, TheIs
<1>4. Present(Bridge)'
  BY <1>1, BridgeIs DEF Lineage
<1>5. CASE N = {}
  <2>1. \A k \in Jobs : Present(k)' <=> Present(k)
    BY <1>1, <1>5
  <2>2. ASSUME ~Present(The("interview", 0))
        PROVE  /\ \A k \in Jobs \ {Bridge} : ~Present(k)'
               /\ phase' \in {"DEPLOY", "DEPLOY_DESIGN"}
    <3>1. j = Bridge /\ phase \in {"DEPLOY", "DEPLOY_DESIGN"}
      BY <1>1, <2>2 DEF Lineage
    <3>2. Kind(j) = "bridge"
      BY <3>1, BridgeIs
    <3>3. phase' \in {"DEPLOY", "DEPLOY_DESIGN"}
      BY <3>1, <3>2 DEF Row, GivesUp, Breaks, Loads, Hands, Triages, Writes, Applies, Moves, Asks1,
                        Quiet, Routes
    <3> QED BY <1>1, <2>1, <2>2, <3>3 DEF Lineage
  <2>3. ASSUME NEW m \in Legs
        PROVE  /\ Present(The("synthesize", m))' => Present(The("interview", m))'
               /\ Present(The("spec", m))' => Present(The("synthesize", m))'
               /\ Present(The("demo", m))' \/ Present(The("triage", m))'
                    => Present(The("execute", m))'
    BY <1>1, <1>3, <2>1, KindsAre DEF Lineage
  <2>4. ASSUME NEW k \in Routes, NEW m \in Legs
        PROVE  /\ Present(The(k, m))' => /\ Present(The(Asking(k), m))'
                                         /\ Reply(k, m)' \notin {"none", "open"}
               /\ Onward[k][m] # NoLeg =>
                    /\ Begun(Onward[k][m])' => Present(The(k, m))'
                    /\ Present(The("interview", Onward[k][m]))'
                         => Target(Reply(k, m))' = "DEPLOY_DESIGN"
    <3>1. The(k, m) \in Jobs /\ The(Asking(k), m) \in Jobs
      BY <1>3, KindsAre
    <3>2. Present(The(k, m)) => /\ Present(The(Asking(k), m))
                                /\ Reply(k, m) \notin {"none", "open"}
      BY <1>1 DEF Lineage
    <3>3. Present(The(k, m)) => Reply(k, m)' = Reply(k, m)
      BY <1>1, <3>1, <3>2 DEF Kept, Reply
    <3>4. ASSUME Onward[k][m] # NoLeg
          PROVE  /\ Begun(Onward[k][m])' => Begun(Onward[k][m])
                 /\ Present(The("interview", Onward[k][m]))'
                      => Present(The("interview", Onward[k][m])) /\ Begun(Onward[k][m])
      <4>1. Onward[k][m] \in Legs
        BY <3>4, OnwardIs
      <4> QED BY <1>3, <2>1, <4>1, KindsAre DEF Begun
    <3>5. ASSUME Onward[k][m] # NoLeg
          PROVE  /\ Begun(Onward[k][m]) => Present(The(k, m))
                 /\ Present(The("interview", Onward[k][m]))
                      => Target(Reply(k, m)) = "DEPLOY_DESIGN"
      BY <1>1, <3>5 DEF Lineage
    <3>6. Target(Reply(k, m))' = Target(Reply(k, m)')
      BY DEF Target
    <3> QED BY <2>1, <3>1, <3>2, <3>3, <3>4, <3>5, <3>6
  <2> QED BY <1>2, <1>3, <1>4, <2>1, <2>2, <2>3, <2>4, KindsAre DEF Lineage
<1>6. CASE N # {}
  <2>1. PICK n \in Jobs :
          N = {n} /\ Quiet /\ Child(w, j, n)
    BY <1>6, Inserts
  <2>2. j = Bridge \/ j = The(Kind(j), Leg(j))
    BY JobIs
  <2>3. \A k \in Jobs : Present(k)' <=> Present(k) \/ k = n
    BY <1>1, <2>1
  <2>4. Present(The("interview", 0))'
    <3>1. CASE Present(The("interview", 0))
      BY <1>2, <1>3, <3>1, KindsAre
    <3>2. CASE ~Present(The("interview", 0))
      <4>1. j = Bridge /\ Kind(j) = "bridge"
        BY <1>1, <3>2, BridgeIs DEF Lineage
      <4>2. n = The("interview", 0)
        BY <2>1, <4>1 DEF Child, Next1, Next2, Next3, Routes
      <4> QED BY <2>3, <4>2
    <3> QED BY <3>1, <3>2
  <2>5. ASSUME NEW m \in Legs
        PROVE  /\ n = The("synthesize", m) => Present(The("interview", m))
               /\ n = The("spec", m) => Present(The("synthesize", m))
               /\ n = The("demo", m) => Present(The("execute", m))
               /\ n = The("triage", m) => Present(The("execute", m))
               /\ n = The("execute", m) => \/ Present(The("spec", m))
                                           \/ Next3(w, j, n)
               /\ n = The("interview", m) => m = 0 \/ Next3(w, j, n)
    <3>1. ASSUME NEW k \in Kinds, n = The(k, m)
          PROVE  Kind(n) = k /\ Leg(n) = m
      BY <3>1, TheIs
    <3>2. n = The("synthesize", m) => j = The("interview", m)
      BY <2>1, <3>1, Children, KindsAre
    <3>3. n = The("spec", m) => j = The("synthesize", m)
      BY <2>1, <3>1, Children, KindsAre
    <3>4. n = The("demo", m) \/ n = The("triage", m) => j = The("execute", m)
      BY <2>1, <3>1, Children, KindsAre
    <3>5. n = The("execute", m) => j = The("spec", m) \/ Next3(w, j, n)
      BY <2>1, <3>1, Children, KindsAre
    <3>6. n = The("interview", m) => m = 0 \/ Next3(w, j, n)
      BY <2>1, <3>1, Children, KindsAre, TheSame
    <3> QED BY <1>1, <3>2, <3>3, <3>4, <3>5, <3>6
  <2>6. ASSUME NEW m \in Legs
        PROVE  /\ Present(The("synthesize", m))' => Present(The("interview", m))'
               /\ Present(The("spec", m))' => Present(The("synthesize", m))'
               /\ Present(The("demo", m))' \/ Present(The("triage", m))'
                    => Present(The("execute", m))'
    BY <1>1, <1>3, <2>3, <2>5, KindsAre DEF Lineage
  <2>7. ASSUME NEW k \in Routes, NEW m \in Legs
        PROVE  /\ Present(The(k, m))' => /\ Present(The(Asking(k), m))'
                                         /\ Reply(k, m)' \notin {"none", "open"}
               /\ Onward[k][m] # NoLeg =>
                    /\ Begun(Onward[k][m])' => Present(The(k, m))'
                    /\ Present(The("interview", Onward[k][m]))'
                         => Target(Reply(k, m))' = "DEPLOY_DESIGN"
    <3>1. /\ The(k, m) \in Jobs /\ The(Asking(k), m) \in Jobs /\ Asking(k) \in Kinds
          /\ k \in Kinds /\ Reply(k, m)' = Reply(k, m)
      BY <1>3, <2>1, KindsAre DEF Quiet, Reply
    <3>2. n = The(k, m) => /\ Present(The(Asking(k), m))
                           /\ Reply(k, m) \notin {"none", "open"}
      <4>1. n = The(k, m) => Kind(n) = k /\ Leg(n) = m
        BY <3>1, TheIs
      <4>2. n = The(k, m) => j = The(Asking(k), m) /\ gate[j] \notin {"none", "open"}
        BY <2>1, <4>1, Children
      <4> QED BY <1>1, <4>2 DEF Reply
    <3>3. Present(The(k, m))' => /\ Present(The(Asking(k), m))'
                                 /\ Reply(k, m)' \notin {"none", "open"}
      BY <1>1, <1>3, <2>3, <3>1, <3>2 DEF Lineage
    <3>4. ASSUME Onward[k][m] # NoLeg
          PROVE  /\ Begun(Onward[k][m])' => Present(The(k, m))'
                 /\ Present(The("interview", Onward[k][m]))'
                      => Target(Reply(k, m))' = "DEPLOY_DESIGN"
      <4>1. PICK q \in Legs \ {0} : q = Onward[k][m]
        BY <3>4, OnwardIs
      <4>2. Next3(w, j, n) /\ n \in {The("interview", q), The("execute", q)} =>
              /\ j = The(k, m)
              /\ n = The("interview", q) => Target(Reply(k, m)) = "DEPLOY_DESIGN"
        <5> SUFFICES ASSUME Next3(w, j, n), n \in {The("interview", q), The("execute", q)}
                     PROVE  /\ j = The(k, m)
                            /\ n = The("interview", q) => Target(Reply(k, m)) = "DEPLOY_DESIGN"
          OBVIOUS
        <5>1. /\ Kind(j) \in Routes /\ Onward[Kind(j)][Leg(j)] = q
              /\ n = The("interview", q)
                   => Target(Reply(Kind(j), Leg(j))) = "DEPLOY_DESIGN"
          BY TheSame DEF Next3
        <5>2. Kind(j) = k /\ Leg(j) = m
          BY <1>1, <3>4, <4>1, <5>1, OnwardIs
        <5> QED BY <2>2, <5>1, <5>2, BridgeIs DEF Routes
      <4>3. Begun(q) => Present(The(k, m))
        BY <1>1, <3>4, <4>1 DEF Lineage
      <4>4. Present(The("interview", q)) => Target(Reply(k, m)) = "DEPLOY_DESIGN"
        BY <1>1, <3>4, <4>1 DEF Lineage
      <4>5. n = The("execute", q) => Begun(q) \/ Next3(w, j, n)
        BY <1>1, <2>5, <4>1, Begins DEF Begun
      <4>6. n = The("interview", q) => Next3(w, j, n)
        BY <2>5, <4>1
      <4>7. Begun(q)' => Present(The(k, m))
        BY <1>1, <1>3, <2>3, <4>1, <4>2, <4>3, <4>5, <4>6, KindsAre DEF Begun
      <4>8. Present(The("interview", q))' => Target(Reply(k, m)) = "DEPLOY_DESIGN"
        BY <1>3, <2>3, <4>1, <4>2, <4>4, <4>6, KindsAre
      <4>9. Target(Reply(k, m))' = Target(Reply(k, m)')
        BY DEF Target
      <4> QED BY <1>3, <3>1, <4>1, <4>7, <4>8, <4>9
    <3> QED BY <3>3, <3>4
  <2> QED BY <1>4, <2>4, <2>6, <2>7 DEF Lineage
<1> QED BY <1>5, <1>6

\* What a handler leaves behind goes on.
LEMMA RowContinued ==
  ASSUME Basis, NEW w \in Workers, NEW j \in Jobs, NEW r \in RunRecords, NEW N \in SUBSET Jobs,
         Steps(w, j, r, N), Row(w, j, r, N)
  PROVE  Continued'
<1>1. /\ Continued /\ Lineage /\ Kept /\ Placed(w) /\ doing[w] = j /\ Leg(j) \in Legs
      /\ UNCHANGED doing /\ run'[w] = r /\ \A v \in Workers \ {w} : run'[v] = run[v]
      /\ \A k \in Jobs : /\ Present(k)' <=> Present(k) \/ k \in N
                         /\ st'[k] = st[k] \/ (st[k] = "absent" /\ st'[k] = "ready" /\ k \in N)
  BY StepIs, RowStores DEF Basis
<1>2. 0 \in Legs
  BY LegAssumption
<1>3. ASSUME NEW k \in Kinds, NEW m \in Legs
      PROVE  Present(The(k, m)) => Present(The(k, m))'
  BY <1>1, TheIs
<1>4. ASSUME NEW k \in Jobs, Followed(k) PROVE Followed(k)'
  <2>1. Leg(k) \in Legs
    BY JobIs
  <2>2. Kind(k) \in Routes /\ Onward[Kind(k)][Leg(k)] # NoLeg =>
          (Begun(Onward[Kind(k)][Leg(k)]) => Begun(Onward[Kind(k)][Leg(k)])')
    BY <1>3, <2>1, OnwardIs, KindsAre DEF Begun
  <2>3. /\ Present(The("interview", 0)) => Present(The("interview", 0))'
        /\ \A kind \in Kinds : Present(The(kind, Leg(k))) => Present(The(kind, Leg(k)))'
    BY <1>2, <1>3, <2>1, KindsAre
  <2>4. Kind(k) \in Routes =>
          \/ phase' \in {"DONE", "DESIGN"}
          \/ Onward[Kind(k)][Leg(k)] # NoLeg /\ Begun(Onward[Kind(k)][Leg(k)])'
    BY <1>1, <1>4, <2>2 DEF Followed, Kept
  <2> QED BY <1>4, <2>3, <2>4, KindsAre DEF Followed, Routes
<1>5. ASSUME r.at = "settle", r.out = "succeeded" PROVE Followed(j)'
  <2>1. CASE Hands(w, j, r, N)
    <3>1. PICK n \in Jobs : N = {n} /\ (Next1(w, j, n) \/ Next2(w, j, n) \/ Next3(w, j, n))
      BY <2>1 DEF Hands
    <3>2. n \in N /\ Present(n)'
      BY <1>1, <3>1
    <3>3. CASE Kind(j) \in Routes
      <4>1. Next3(w, j, n)
        BY <3>1, <3>3, BridgeIs DEF Next1, Next2, Routes
      <4>2. Routing(w, "routed")
        BY <1>1, <3>3, <4>1, NullAssumption DEF Next3, Routing, At, Routes
      <4>3. Onward[Kind(j)][Leg(j)] # NoLeg
        BY <1>1, <4>2 DEF Placed, Of
      <4>4. Begun(Onward[Kind(j)][Leg(j)])'
        BY <3>2, <4>1 DEF Next3, Begun
      <4> QED BY <3>3, <4>3, <4>4 DEF Followed, Routes
    <3>4. CASE Kind(j) \notin Routes
      BY <3>1, <3>2, <3>4, BridgeIs DEF Next1, Next2, Next3, Followed
    <3> QED BY <3>3, <3>4
  <2>2. CASE Moves(w, j, r, N)
    <3>1. Kind(j) \in Routes /\ phase' \in {"DONE", "DESIGN"}
      BY <1>5, <2>2 DEF Moves
    <3> QED BY <3>1 DEF Followed, Routes
  <2> QED BY <1>5, <2>1, <2>2
      DEF Row, GivesUp, Gives, Breaks, Loads, Triages, Writes, Applies, Asks1
<1>6. ASSUME NEW k \in Jobs, Over(k)' PROVE Followed(k)'
  <2>1. CASE Over(k)
    BY <1>1, <1>4, <2>1 DEF Continued
  <2>2. CASE ~Over(k)
    <3>1. PICK v \in Workers : Leaving(v, k, "succeeded")'
      BY <1>1, <1>6, <2>2 DEF Over
    <3>2. v = w /\ k = j
      BY <1>1, <2>2, <3>1 DEF Over, Leaving
    <3> QED BY <1>1, <1>5, <3>1, <3>2 DEF Leaving
  <2> QED BY <2>1, <2>2
<1> QED BY <1>6 DEF Continued

\* What a job inserts, it inserts as the last thing it does; and it fails again only.
LEMMA RowFirstborn ==
  ASSUME Basis, NEW w \in Workers, NEW j \in Jobs, NEW r \in RunRecords, NEW N \in SUBSET Jobs,
         Steps(w, j, r, N), Row(w, j, r, N)
  PROVE  Firstborn' /\ Retried'
<1>1. /\ Firstborn /\ Retried /\ Lineage /\ Tabled /\ doing[w] = j /\ Leg(j) \in Legs
      /\ UNCHANGED <<doing, again, holder>> /\ run'[w] = r /\ run[w].at # "settle"
      /\ \A v \in Workers \ {w} : run'[v] = run[v]
      /\ \A k \in Jobs : /\ Present(k)' <=> Present(k) \/ k \in N
                         /\ st'[k] = st[k] \/ (st[k] = "absent" /\ st'[k] = "ready" /\ k \in N)
  BY StepIs DEF Basis, Steps
<1>2. ASSUME N # {}, j \notin again PROVE ~Waiting(j)'
  <2>1. r.at = "settle" /\ r.out # "awaiting_human"
    BY <1>2, Inserts
  <2>2. st[j] = "leased" /\ holder[j] = w /\ \A v \in Workers : doing[v] = j => v = w
    BY <1>1, <1>2 DEF Tabled
  <2>3. st'[j] = "leased"
    BY <1>1, <2>2
  <2> QED BY <1>1, <2>1, <2>2, <2>3 DEF Waiting
<1>3. ASSUME NEW k \in Jobs, Waiting(k)', Present(k) PROVE Waiting(k)
  BY <1>1, <1>3 DEF Waiting, Present
<1>4. ASSUME NEW k \in Jobs \ again, Waiting(k)', NEW o \in Jobs,
             Present(o) => Present(k) /\ (Waiting(k) => ~Present(o)),
             o \in N => k = j
      PROVE  ~Present(o)'
  BY <1>1, <1>2, <1>3, <1>4
<1>5. ASSUME NEW k \in Jobs \ again, Waiting(k)' PROVE Unborn(k)'
  <2>1. Leg(k) \in Legs /\ (Waiting(k) => Unborn(k))
    BY <1>1, JobIs DEF Firstborn
  <2>2. \A kind \in Kinds : Kind(k) = kind => k = The(kind, Leg(k))
    BY JobIs, BridgeIs DEF Kinds
  <2>3. ASSUME NEW kind \in Kinds
        PROVE  /\ The(kind, Leg(k)) \in Jobs /\ Kind(The(kind, Leg(k))) = kind
               /\ Leg(The(kind, Leg(k))) = Leg(k)
    BY <2>1, TheIs
  <2>4. ASSUME NEW o \in Jobs, o \in N PROVE Child(w, j, o)
    BY <2>4, Inserts
  <2>5. ASSUME Kind(k) = "interview" PROVE ~Present(The("synthesize", Leg(k)))'
    <3> DEFINE o == The("synthesize", Leg(k))
    <3>1. o \in Jobs /\ Kind(o) = "synthesize" /\ Leg(o) = Leg(k) /\ k = The("interview", Leg(k))
      BY <2>2, <2>3, <2>5, KindsAre
    <3>2. Present(o) => Present(k) /\ (Waiting(k) => ~Present(o))
      BY <1>1, <2>1, <2>5, <3>1 DEF Lineage, Unborn
    <3> HIDE DEF o
    <3>3. o \in N => k = j
      BY <2>4, <3>1, Children
    <3> QED BY <1>4, <1>5, <3>1, <3>2, <3>3 DEF o
  <2>6. ASSUME Kind(k) = "synthesize" PROVE ~Present(The("spec", Leg(k)))'
    <3> DEFINE o == The("spec", Leg(k))
    <3>1. o \in Jobs /\ Kind(o) = "spec" /\ Leg(o) = Leg(k) /\ k = The("synthesize", Leg(k))
      BY <2>2, <2>3, <2>6, KindsAre
    <3>2. Present(o) => Present(k) /\ (Waiting(k) => ~Present(o))
      BY <1>1, <2>1, <2>6, <3>1 DEF Lineage, Unborn
    <3> HIDE DEF o
    <3>3. o \in N => k = j
      BY <2>4, <3>1, Children
    <3> QED BY <1>4, <1>5, <3>1, <3>2, <3>3 DEF o
  <2>7. ASSUME Kind(k) = "execute", NEW kind \in {"demo", "triage"}
        PROVE  ~Present(The(kind, Leg(k)))'
    <3> DEFINE o == The(kind, Leg(k))
    <3>1. o \in Jobs /\ Kind(o) = kind /\ Leg(o) = Leg(k) /\ k = The("execute", Leg(k))
      BY <2>2, <2>3, <2>7, KindsAre
    <3>2. Present(o) => Present(k) /\ (Waiting(k) => ~Present(o))
      BY <1>1, <2>1, <2>7, <3>1 DEF Lineage, Unborn
    <3> HIDE DEF o
    <3>3. o \in N => k = j
      BY <2>4, <3>1, Children
    <3> QED BY <1>4, <1>5, <3>1, <3>2, <3>3 DEF o
  <2> QED BY <2>5, <2>6, <2>7 DEF Unborn
<1>6. Retried'
  <2> SUFFICES ASSUME NEW k \in Jobs, Lost(k)' PROVE k \in again
    BY <1>1 DEF Retried
  <2>1. CASE Lost(k)
    BY <1>1, <2>1 DEF Retried
  <2>2. CASE ~Lost(k)
    <3>1. PICK v \in Workers : Leaving(v, k, "failed")'
      BY <1>1, <2>2 DEF Lost
    <3>2. v = w /\ k = j /\ r.at = "settle" /\ r.out = "failed"
      BY <1>1, <2>2, <3>1 DEF Lost, Leaving
    <3> QED BY <3>2
        DEF Row, GivesUp, Gives, Breaks, Loads, Hands, Triages, Writes, Applies, Moves, Asks1
  <2> QED BY <2>1, <2>2
<1> QED BY <1>1, <1>5, <1>6 DEF Firstborn

\* A leg that begins is a last one.
LEMMA RowEnds ==
  ASSUME Basis, NEW w \in Workers, NEW j \in Jobs, NEW r \in RunRecords, NEW N \in SUBSET Jobs,
         Steps(w, j, r, N), Row(w, j, r, N)
  PROVE  Ends'
<1>1. Ends /\ Lineage /\ Lineage' /\ \A k \in Jobs : Present(k)' <=> Present(k) \/ k \in N
  BY StepIs, RowLineage DEF Basis
<1>2. ASSUME NEW k \in Kinds, NEW m \in Legs
      PROVE  Present(The(k, m))' <=> Present(The(k, m)) \/ The(k, m) \in N
  BY <1>1, TheIs
<1>3. \A n \in Legs : Begun(n) => Begun(n)'
  BY <1>2, KindsAre DEF Begun
<1>4. CASE \A n \in Legs : Begun(n)' => Begun(n)
  <2>1. PICK n \in Legs : Last(n)
    BY <1>1 DEF Ends
  <2>2. \A k \in Routes : Onward[k][n] # NoLeg => ~Begun(Onward[k][n])'
    BY <1>4, <2>1, OnwardIs DEF Last
  <2>3. Reached(n)'
    BY <1>3, <2>1 DEF Last, Reached
  <2> QED BY <2>2, <2>3 DEF Last, Ends
<1>5. ASSUME NEW n \in Legs, Begun(n)', ~Begun(n) PROVE Last(n)'
  <2>1. N # {} /\ (The("interview", n) \in N \/ The("execute", n) \in N)
    BY <1>2, <1>5, KindsAre DEF Begun
  <2>2. PICK i \in Jobs : N = {i}
    BY <2>1, Inserts
  <2>3. Kind(i) \in {"interview", "execute"}
    BY <2>1, <2>2, TheIs, KindsAre
  <2>4. ASSUME NEW k \in Routes, Onward[k][n] # NoLeg, Begun(Onward[k][n])' PROVE FALSE
    <3>1. Present(The(k, n))'
      BY <1>1, <2>4 DEF Lineage
    <3>2. The(k, n) # i
      <4>1. Kind(The(k, n)) = k
        BY TheIs, KindsAre
      <4> QED BY <2>3, <4>1 DEF Routes
    <3>3. Present(The(k, n))
      BY <1>2, <2>2, <3>1, <3>2, KindsAre
    <3> QED BY <1>1, <1>5, <3>3, Begins
  <2> QED BY <1>5, <2>4 DEF Last, Reached
<1> QED BY <1>4, <1>5 DEF Ends

\* Nobody opens the gate of a job that is not in the table.
LEMMA RowRaised ==
  ASSUME Basis, NEW w \in Workers, NEW j \in Jobs, NEW r \in RunRecords, NEW N \in SUBSET Jobs,
         Steps(w, j, r, N), Row(w, j, r, N)
  PROVE  Raised'
<1>1. /\ Raised /\ StoresTyped /\ Present(j)
      /\ \A k \in Jobs : Present(k)' <=> Present(k) \/ k \in N
  BY StepIs, Typed DEF Basis
<1>2. \A k \in Jobs : gate'[k] # "none" => gate[k] # "none" \/ k = j
  <2>1. UNCHANGED gate \/ gate' = [gate EXCEPT ![j] = "open"]
    BY DEF Row, GivesUp, Gives, Breaks, Loads, Hands, Triages, Writes, Applies, Moves, Asks1, Quiet
  <2> QED BY <1>1, <2>1 DEF StoresTyped
<1> QED BY <1>1, <1>2 DEF Raised

\* A step of a handler preserves Basis.
LEMMA BasisRow ==
  ASSUME Basis, NEW w \in Workers, Rowed(w)
  PROVE  Basis'
<1>1. PICK j \in Jobs, r \in RunRecords, N \in SUBSET Jobs :
        Steps(w, j, r, N) /\ Row(w, j, r, N)
  BY DEF Rowed
<1>2. TypeOK' /\ Tabled' /\ Gated' /\ Raised' /\ Stored' /\ Lineage'
  BY <1>1, RowTyped, RowStores, RowRaised, RowStored, RowLineage
<1>3. Continued' /\ Firstborn' /\ Retried' /\ Ends'
  BY <1>1, RowContinued, RowFirstborn, RowEnds
<1>4. \A v \in Workers : doing'[v] # NoJob => Placed(v)'
  BY <1>1, RowPlaced
<1> QED BY <1>2, <1>3, <1>4 DEF Basis

-----------------------------------------------------------------------------
(* Basis: the table                                                        *)

\* How a job that was never handed back comes to be ready, or to wait for its human.
Renewed(k) ==
  /\ st'[k] = "ready" =>
       st[k] = "ready" \/ (st[k] = "awaiting_human" /\ gate[k] = "open" /\ Asks(Kind(k)))
  /\ st'[k] = "awaiting_human" =>
       st[k] = "awaiting_human" \/ \E v \in Workers : Leaving(v, k, "awaiting_human")

\* Nothing is inserted or withdrawn, and no job gets further than it was.
Rests ==
  /\ UNCHANGED <<phase, elicited, dspec, consent, deployed>>
  /\ again \subseteq again' /\ accepted \subseteq accepted'
  /\ \A k \in Jobs : /\ gate'[k] # "none" => gate[k] # "none"
                     /\ gate'[k] = "accept" => gate[k] = "accept" \/ dspec \in accepted'
  /\ \A k \in Jobs : /\ Present(k)' <=> Present(k)
                     /\ Over(k)' => Over(k)
                     /\ Lost(k)' => Lost(k)
                     /\ k \notin again' => /\ Waiting(k)' => Waiting(k)
                                           /\ Renewed(k)
  /\ \A v \in Workers : doing'[v] # NoJob =>
       \/ doing'[v] = doing[v] /\ run'[v] = run[v]
       \/ run'[v].at = "start" /\ st[doing'[v]] = "ready"

\* What a step of the table has to show for Basis.
LEMMA BasisRests ==
  ASSUME Basis, TypeOK', Tabled', Gated', Kept, Rests
  PROVE  Basis'
<1>1. /\ Stored /\ Raised /\ Lineage /\ Continued /\ Firstborn /\ Retried /\ Ends
      /\ \A k \in Jobs : Present(k)' <=> Present(k)
  BY DEF Basis, Rests
<1>2. ASSUME NEW k \in Kinds, NEW m \in Legs
      PROVE  Present(The(k, m))' <=> Present(The(k, m))
  BY <1>1, TheIs
<1>3. 0 \in Legs
  BY LegAssumption
<1>4. \A m \in Legs : Begun(m)' <=> Begun(m)
  BY <1>2, KindsAre DEF Begun
<1>5. Stored'
  BY <1>1 DEF Stored, Rests
<1>6. Lineage'
  <2>1. /\ Present(Bridge)' /\ UNCHANGED phase
        /\ ~Present(The("interview", 0))' =>
             /\ \A j \in Jobs \ {Bridge} : ~Present(j)'
             /\ phase \in {"DEPLOY", "DEPLOY_DESIGN"}
    BY <1>1, <1>2, <1>3, BridgeIs, KindsAre DEF Lineage, Rests
  <2>2. ASSUME NEW m \in Legs
        PROVE  /\ Present(The("synthesize", m))' => Present(The("interview", m))'
               /\ Present(The("spec", m))' => Present(The("synthesize", m))'
               /\ Present(The("demo", m))' \/ Present(The("triage", m))'
                    => Present(The("execute", m))'
    BY <1>1, <1>2, KindsAre DEF Lineage
  <2>3. ASSUME NEW k \in Routes, NEW m \in Legs
        PROVE  /\ Present(The(k, m))' => /\ Present(The(Asking(k), m))'
                                         /\ Reply(k, m)' \notin {"none", "open"}
               /\ Onward[k][m] # NoLeg =>
                    /\ Begun(Onward[k][m])' => Present(The(k, m))'
                    /\ Present(The("interview", Onward[k][m]))'
                         => Target(Reply(k, m))' = "DEPLOY_DESIGN"
    <3>1. The(k, m) \in Jobs /\ The(Asking(k), m) \in Jobs
      BY TheIs, KindsAre
    <3>2. Present(The(k, m)) => /\ Present(The(Asking(k), m))
                                /\ Reply(k, m) \notin {"none", "open"}
      BY <1>1 DEF Lineage
    <3>3. Present(The(k, m)) => Reply(k, m)' = Reply(k, m)
      BY <3>1, <3>2 DEF Kept, Reply
    <3>4. ASSUME Onward[k][m] # NoLeg
          PROVE  /\ Begun(Onward[k][m])' => Begun(Onward[k][m])
                 /\ Present(The("interview", Onward[k][m]))'
                      => Present(The("interview", Onward[k][m])) /\ Begun(Onward[k][m])
      <4>1. Onward[k][m] \in Legs
        BY <3>4, OnwardIs
      <4> QED BY <1>2, <1>4, <4>1, KindsAre DEF Begun
    <3>5. ASSUME Onward[k][m] # NoLeg
          PROVE  /\ Begun(Onward[k][m]) => Present(The(k, m))
                 /\ Present(The("interview", Onward[k][m]))
                      => Target(Reply(k, m)) = "DEPLOY_DESIGN"
      BY <1>1, <3>5 DEF Lineage
    <3>6. Target(Reply(k, m))' = Target(Reply(k, m)')
      BY DEF Target
    <3> QED BY <1>1, <3>1, <3>2, <3>3, <3>4, <3>5, <3>6
  <2> QED BY <2>1, <2>2, <2>3 DEF Lineage
<1>7. Continued'
  <2> SUFFICES ASSUME NEW k \in Jobs, Over(k)' PROVE Followed(k)'
    BY DEF Continued
  <2>1. Followed(k) /\ Leg(k) \in Legs /\ UNCHANGED phase
    BY <1>1, JobIs DEF Continued, Rests
  <2>2. /\ Present(The("interview", 0))' <=> Present(The("interview", 0))
        /\ \A kind \in Kinds : Present(The(kind, Leg(k)))' <=> Present(The(kind, Leg(k)))
    BY <1>2, <1>3, <2>1, KindsAre
  <2>3. Kind(k) \in Routes /\ Onward[Kind(k)][Leg(k)] # NoLeg =>
          (Begun(Onward[Kind(k)][Leg(k)])' <=> Begun(Onward[Kind(k)][Leg(k)]))
    BY <1>4, <2>1, OnwardIs
  <2>4. Kind(k) \in Routes =>
          \/ phase' \in {"DONE", "DESIGN"}
          \/ Onward[Kind(k)][Leg(k)] # NoLeg /\ Begun(Onward[Kind(k)][Leg(k)])'
    BY <2>1, <2>3 DEF Followed
  <2> QED BY <2>1, <2>2, <2>4, KindsAre DEF Followed, Routes
<1>8. Firstborn'
  <2> SUFFICES ASSUME NEW k \in Jobs \ again', Waiting(k)' PROVE Unborn(k)'
    BY DEF Firstborn
  <2>0. k \notin again
    BY DEF Rests
  <2>1. Unborn(k) /\ Leg(k) \in Legs
    BY <1>1, <2>0, JobIs DEF Firstborn, Rests
  <2>2. \A kind \in Kinds : Present(The(kind, Leg(k)))' <=> Present(The(kind, Leg(k)))
    BY <1>2, <2>1
  <2> QED BY <2>1, <2>2, KindsAre DEF Unborn
<1>9. Retried'
  BY <1>1 DEF Retried, Rests
<1>10. Ends'
  <2>1. PICK n \in Legs : Last(n)
    BY <1>1 DEF Ends
  <2>2. Reached(n)' /\ \A k \in Routes : Onward[k][n] # NoLeg => ~Begun(Onward[k][n])'
    BY <1>4, <2>1, OnwardIs DEF Last, Reached
  <2> QED BY <2>2 DEF Last, Ends
<1>11. ASSUME NEW v \in Workers, doing'[v] # NoJob PROVE Placed(v)'
  <2>1. CASE doing'[v] = doing[v] /\ run'[v] = run[v]
    BY <1>11, <2>1, PlacedStays
  <2>2. CASE run'[v].at = "start"
    BY <2>2 DEF Placed, At, Routing, Leaving
  <2> QED BY <1>11, <2>1, <2>2 DEF Rests
<1>12. Raised'
  BY <1>1 DEF Raised, Rests
<1> QED BY <1>12, <1>5, <1>6, <1>7, <1>8, <1>9, <1>10, <1>11 DEF Basis

\* What the steps of the table come to.
Tables == TypeOK' /\ Tabled' /\ Gated' /\ Kept /\ Rests

\* The stores change at most in a gate and in the history.
LEMMA StoresRest ==
  ASSUME Basis, UNCHANGED <<project, files, deployed>>, accepted' \subseteq Scopes,
         again' \subseteq Jobs, faults' = faults \/ (faults < MaxFaults /\ faults' = faults + 1),
         gate' \in [Jobs -> Gates]
  PROVE  StoresTyped'
BY Typed, FaultAssumption DEF Basis, StoresTyped

\* A step that leaves the gates alone keeps what they are.
LEMMA GatesRest ==
  ASSUME Basis, UNCHANGED <<project, files, gate>>
  PROVE  Gated' /\ Kept
<1>1. Gated
  BY DEF Basis
<1> QED BY <1>1 DEF Gated, Kept, RepliesTo, Loops

\* A worker claims a job.
LEMMA TablesClaim ==
  ASSUME Basis, NEW w \in Workers, NEW j \in Jobs, Claim(w, j)
  PROVE  Tables
<1> DEFINE r == [Idle EXCEPT !.at = "start"]
<1>1. /\ TypeOK /\ Tabled /\ TableTyped /\ StoresTyped /\ run \in [Workers -> RunRecords]
      /\ j # NoJob /\ w # NoWorker
  BY Typed, NullAssumption DEF Basis
<1>2. r \in RunRecords /\ r.at = "start"
  BY DEF Idle, RunRecords, Places, Outcomes, Targets
<1>3. /\ doing[w] = NoJob /\ st[j] = "ready"
      /\ st' = [st EXCEPT ![j] = "leased"] /\ holder' = [holder EXCEPT ![j] = w]
      /\ doing' = [doing EXCEPT ![w] = j] /\ run' = [run EXCEPT ![w] = r]
      /\ UNCHANGED <<project, gate, files, deployed, accepted, again, faults>>
  BY DEF Claim, Table!Grant
<1> HIDE DEF r
<1>4. /\ run'[w] = r /\ doing'[w] = j /\ st'[j] = "leased" /\ holder'[j] = w
      /\ \A v \in Workers \ {w} : run'[v] = run[v] /\ doing'[v] = doing[v]
      /\ \A k \in Jobs \ {j} : st'[k] = st[k] /\ holder'[k] = holder[k]
  BY <1>1, <1>3 DEF TableTyped
<1>5. TableTyped' /\ run' \in [Workers -> RunRecords]
  BY <1>1, <1>2, <1>3 DEF TableTyped, RowStates, Outcomes
<1>6. StoresTyped' /\ Gated' /\ Kept
  BY <1>1, <1>3, StoresRest, GatesRest DEF StoresTyped
<1>7. \A v \in Workers : run'[v].at = "idle" <=> doing'[v] = NoJob
  BY <1>1, <1>2, <1>4 DEF TypeOK
<1>8. \A k \in Jobs : st'[k] = "awaiting_human" => gate'[k] # "none"
  BY <1>1, <1>3, <1>4 DEF TypeOK
<1>9. TypeOK'
  BY <1>5, <1>6, <1>7, <1>8, TypedNext
<1>10. Tabled'
  <2>1. \A k \in Jobs : holder'[k] # NoWorker <=> st'[k] = "leased"
    BY <1>1, <1>4 DEF Tabled
  <2>2. \A v \in Workers : doing'[v] # NoJob => st'[doing'[v]] # "absent"
    <3> TAKE v \in Workers
    <3>1. CASE v = w
      BY <1>4, <3>1
    <3>2. CASE v # w
      <4>1. /\ doing'[v] = doing[v]
            /\ doing[v] # NoJob => doing[v] \in Jobs /\ st[doing[v]] # "absent"
        BY <1>1, <1>4, <3>2 DEF TableTyped, Tabled, Present
      <4> QED BY <1>4, <4>1
    <3> QED BY <3>1, <3>2
  <2>3. \A k \in Jobs \ again', v \in Workers : doing'[v] = k => st'[k] = "leased" /\ holder'[k] = v
    <3> TAKE k \in Jobs \ again', v \in Workers
    <3>1. doing[v] = k => st[k] = "leased" /\ holder[k] = v
      BY <1>1, <1>3 DEF Tabled
    <3> QED BY <1>3, <1>4, <3>1
  <2> QED BY <2>1, <2>2, <2>3 DEF Tabled, Present
<1>11. Rests
  <2>1. \A k \in Jobs : /\ Present(k)' <=> Present(k)
                        /\ Over(k)' => Over(k)
                        /\ Lost(k)' => Lost(k)
                        /\ Waiting(k)' => Waiting(k)
    <3> TAKE k \in Jobs
    <3>1. \A v \in Workers, o \in {"succeeded", "failed", "awaiting_human"} :
            Leaving(v, k, o)' => Leaving(v, k, o)
      BY <1>2, <1>4 DEF Leaving
    <3>2. \A v \in Workers : doing'[v] = k /\ k # j => doing[v] = k /\ run'[v] = run[v]
      BY <1>4
    <3> QED BY <1>3, <1>4, <3>1, <3>2 DEF Present, Over, Lost, Waiting
  <2>2. \A k \in Jobs : Renewed(k)
    BY <1>4 DEF Renewed
  <2>3. \A v \in Workers : doing'[v] # NoJob =>
          \/ doing'[v] = doing[v] /\ run'[v] = run[v]
          \/ run'[v].at = "start" /\ st[doing'[v]] = "ready"
    BY <1>2, <1>3, <1>4
  <2> QED BY <1>3, <2>1, <2>2, <2>3 DEF Rests
<1> QED BY <1>6, <1>9, <1>10, <1>11 DEF Tables

\* A worker is done with its job, whether it is heard or not.
LEMMA TablesLeaves ==
  ASSUME Basis, NEW w \in Workers, Settle(w) \/ Crash(w)
  PROVE  Tables
<1>1. /\ TypeOK /\ Tabled /\ TableTyped /\ StoresTyped /\ run \in [Workers -> RunRecords]
  BY Typed DEF Basis
<1>2. Idle \in RunRecords /\ Idle.at = "idle"
  BY DEF Idle, RunRecords, Places, Outcomes, Targets
<1>3. /\ run' = [run EXCEPT ![w] = Idle] /\ doing' = [doing EXCEPT ![w] = NoJob]
      /\ UNCHANGED <<project, gate, files, deployed, accepted>> /\ doing[w] # NoJob
      /\ faults' = faults \/ (faults < MaxFaults /\ faults' = faults + 1)
  <2>1. CASE Settle(w)
    <3>1. doing[w] # NoJob
      BY <1>1, <2>1 DEF Settle, TypeOK
    <3> QED BY <1>1, <2>1, <3>1 DEF Settle, Table!Report, Table!Forget
  <2>2. CASE Crash(w)
    BY <2>2 DEF Crash, Table!Forget, May
  <2> QED BY <2>1, <2>2
<1>4. PICK j \in Jobs : j = doing[w]
  BY <1>1, <1>3 DEF TypeOK
<1>5. \/ UNCHANGED <<st, holder, again>>
      \/ /\ st' = [st EXCEPT ![j] = run[w].out] /\ holder' = [holder EXCEPT ![j] = NoWorker]
         /\ run[w].out \in {"ready", "awaiting_human", "succeeded", "failed"}
         /\ run[w].at = "settle" /\ holder[j] = w
         /\ again' = IF run[w].out = "ready" THEN again \cup {j} ELSE again
  <2>1. CASE Crash(w)
    BY <2>1 DEF Crash, Table!Forget
  <2>2. CASE Settle(w) /\ holder[j] # w
    BY <1>4, <2>2 DEF Settle, Table!Report, Table!Forget
  <2>3. CASE Settle(w) /\ holder[j] = w
    <3>1. \E s \in {"succeeded", "failed", "ready", "awaiting_human"} :
            st' = [st EXCEPT ![j] = s] /\ st'[j] = run[w].out
      BY <1>4, <2>3 DEF Settle, Table!Report
    <3>2. /\ st' = [st EXCEPT ![j] = run[w].out]
          /\ run[w].out \in {"ready", "awaiting_human", "succeeded", "failed"}
      BY <1>1, <3>1 DEF TableTyped
    <3> QED BY <1>4, <2>3, <3>2 DEF Settle, Table!Report
  <2> QED BY <2>1, <2>2, <2>3
<1>6. st[j] # "absent" /\ Placed(w)
  BY <1>3, <1>4 DEF Basis, Tabled, Present
<1>7. /\ run'[w] = Idle /\ doing'[w] = NoJob
      /\ \A v \in Workers \ {w} : run'[v] = run[v] /\ doing'[v] = doing[v]
  BY <1>1, <1>3 DEF TableTyped
<1>8. \A k \in Jobs : \/ st'[k] = st[k] /\ holder'[k] = holder[k] /\ (k \in again' <=> k \in again)
                      \/ /\ k = j /\ st'[k] = run[w].out /\ holder'[k] = NoWorker
                         /\ run[w].out \in {"ready", "awaiting_human", "succeeded", "failed"}
                         /\ run[w].at = "settle" /\ holder[j] = w
                         /\ run[w].out = "ready" => k \in again'
  BY <1>1, <1>5 DEF TableTyped
<1>9. again \subseteq again' /\ again' \subseteq Jobs
  BY <1>1, <1>5 DEF StoresTyped
<1>10. TableTyped' /\ run' \in [Workers -> RunRecords]
  BY <1>1, <1>2, <1>3, <1>5 DEF TableTyped, RowStates, Outcomes
<1>11. StoresTyped' /\ Gated' /\ Kept
  <2>1. accepted' \subseteq Scopes /\ gate' \in [Jobs -> Gates]
    BY <1>1, <1>3 DEF StoresTyped
  <2> QED BY <1>3, <1>9, <2>1, StoresRest, GatesRest
<1>12. \A v \in Workers : run'[v].at = "idle" <=> doing'[v] = NoJob
  BY <1>1, <1>2, <1>7 DEF TypeOK
<1>13. \A k \in Jobs : st'[k] = "awaiting_human" => gate'[k] # "none"
  BY <1>1, <1>3, <1>4, <1>6, <1>8 DEF TypeOK, Placed, Leaving
<1>14. TypeOK'
  BY <1>10, <1>11, <1>12, <1>13, TypedNext
<1>15. Tabled'
  <2>1. \A k \in Jobs : holder'[k] # NoWorker <=> st'[k] = "leased"
    BY <1>1, <1>8 DEF Tabled
  <2>2. \A v \in Workers : doing'[v] # NoJob => st'[doing'[v]] # "absent"
    <3> TAKE v \in Workers
    <3>1. doing'[v] # NoJob =>
            doing'[v] = doing[v] /\ doing[v] \in Jobs /\ st[doing[v]] # "absent"
      BY <1>1, <1>7 DEF TableTyped, Tabled, Present
    <3> QED BY <1>8, <3>1
  <2>3. \A k \in Jobs \ again', v \in Workers : doing'[v] = k => st'[k] = "leased" /\ holder'[k] = v
    <3> SUFFICES ASSUME NEW k \in Jobs \ again', NEW v \in Workers, doing'[v] = k
                 PROVE  st'[k] = "leased" /\ holder'[k] = v
      OBVIOUS
    <3>1. v # w /\ doing[v] = k
      BY <1>7, NullAssumption
    <3>2. st[k] = "leased" /\ holder[k] = v
      BY <1>1, <1>9, <3>1 DEF Tabled
    <3> QED BY <1>8, <3>1, <3>2
  <2> QED BY <2>1, <2>2, <2>3 DEF Tabled, Present
<1>16. Rests
  <2>1. \A v \in Workers, k \in Jobs, o \in {"succeeded", "failed"} :
          Leaving(v, k, o)' => Leaving(v, k, o)
    BY <1>2, <1>7, NullAssumption DEF Leaving
  <2>2. ASSUME NEW k \in Jobs, st'[k] # st[k]
        PROVE  st[k] # "absent" /\ st'[k] # "absent" /\ Leaving(w, k, st'[k])
    BY <1>4, <1>6, <1>8, <2>2 DEF Leaving
  <2>3. \A k \in Jobs : /\ Present(k)' <=> Present(k)
                        /\ Over(k)' => Over(k)
                        /\ Lost(k)' => Lost(k)
    BY <2>1, <2>2 DEF Present, Over, Lost
  <2>4. ASSUME NEW k \in Jobs, k \notin again' PROVE (Waiting(k)' => Waiting(k)) /\ Renewed(k)
    <3>1. st'[k] = "ready" => st[k] = "ready"
      BY <1>8, <2>4
    <3>2. st'[k] = "awaiting_human" =>
            st[k] = "awaiting_human" \/ Leaving(w, k, "awaiting_human")
      BY <2>2
    <3>3. ASSUME NEW v \in Workers, doing'[v] = k PROVE doing[v] = k /\ run'[v] = run[v]
      BY <1>7, <3>3, NullAssumption
    <3> QED BY <3>1, <3>2, <3>3 DEF Waiting, Renewed, Leaving
  <2>5. \A v \in Workers : doing'[v] # NoJob => doing'[v] = doing[v] /\ run'[v] = run[v]
    BY <1>7
  <2> QED BY <1>3, <1>9, <2>3, <2>4, <2>5 DEF Rests
<1> QED BY <1>11, <1>14, <1>15, <1>16 DEF Tables

\* The human answers.
LEMMA TablesAnswer ==
  ASSUME Basis, NEW j \in Jobs, Answer(j)
  PROVE  Tables
<1>1. /\ TypeOK /\ Tabled /\ Gated /\ Stored /\ TableTyped /\ StoresTyped
      /\ run \in [Workers -> RunRecords]
  BY Typed DEF Basis
<1>2. PICK reply \in RepliesTo(j) :
        /\ gate' = [gate EXCEPT ![j] = reply]
        /\ accepted' = IF reply = "accept" THEN accepted \cup {dspec} ELSE accepted
  BY DEF Answer
<1>3. /\ st[j] = "awaiting_human" /\ st' = [st EXCEPT ![j] = "ready"] /\ gate[j] = "open"
      /\ UNCHANGED <<holder, doing, project, files, run, deployed, again, faults>>
  BY DEF Answer, Table!Resume
<1>4. \A k \in Jobs : /\ st'[k] = IF k = j THEN "ready" ELSE st[k]
                      /\ gate'[k] = IF k = j THEN reply ELSE gate[k]
  BY <1>1, <1>2, <1>3 DEF TableTyped, StoresTyped
<1>5. /\ Asks(Kind(j)) /\ reply \in Gates \ {"none", "open"}
      /\ reply = "accept" => Kind(j) = "spec"
  BY <1>2, ScopeAssumption DEF RepliesTo, Loops, Asks, Gates
<1>6. TableTyped' /\ gate' \in [Jobs -> Gates]
  BY <1>1, <1>2, <1>3, <1>5 DEF TableTyped, RowStates, Outcomes, StoresTyped
<1>7. accepted' \subseteq Scopes
  <2>1. reply = "accept" => dspec # NoScope
    BY <1>1, <1>3, <1>5 DEF Stored, Present
  <2> QED BY <1>1, <1>2, <2>1 DEF StoresTyped, Targets
<1>8. StoresTyped'
  BY <1>1, <1>3, <1>6, <1>7, StoresRest DEF StoresTyped
<1>9. Kept
  BY <1>3, <1>4, <1>5 DEF Kept
<1>10. Gated'
  <2>1. ASSUME NEW k \in Jobs PROVE gate'[k] \in {"none", "open"} \cup RepliesTo(k)
    BY <1>1, <1>4 DEF Gated
  <2>2. ASSUME NEW k \in Jobs PROVE RepliesTo(k)' = RepliesTo(k)
    BY DEF RepliesTo, Loops
  <2> QED BY <2>1, <2>2 DEF Gated
<1>11. \A k \in Jobs : st'[k] = "awaiting_human" => gate'[k] # "none"
  BY <1>1, <1>4, <1>5 DEF TypeOK
<1>12. TypeOK'
  BY <1>1, <1>3, <1>6, <1>8, <1>11, TypedNext DEF TypeOK
<1>13. Tabled'
  <2>1. \A k \in Jobs : holder'[k] # NoWorker <=> st'[k] = "leased"
    BY <1>1, <1>3, <1>4 DEF Tabled
  <2>2. \A v \in Workers : doing'[v] # NoJob => st'[doing'[v]] # "absent"
    <3> TAKE v \in Workers
    <3>1. doing'[v] # NoJob =>
            doing'[v] = doing[v] /\ doing[v] \in Jobs /\ st[doing[v]] # "absent"
      BY <1>1, <1>3 DEF TableTyped, Tabled, Present
    <3> QED BY <1>4, <3>1
  <2>3. \A k \in Jobs \ again', v \in Workers : doing'[v] = k => st'[k] = "leased" /\ holder'[k] = v
    <3> TAKE k \in Jobs \ again', v \in Workers
    <3>1. doing[v] = k => st[k] = "leased" /\ holder[k] = v
      BY <1>1, <1>3 DEF Tabled
    <3> QED BY <1>3, <1>4, <3>1
  <2> QED BY <2>1, <2>2, <2>3 DEF Tabled, Present
<1>14. Rests
  <2>1. \A k \in Jobs : /\ Present(k)' <=> Present(k)
                        /\ Over(k)' => Over(k)
                        /\ Lost(k)' => Lost(k)
                        /\ Waiting(k)' => Waiting(k)
                        /\ Renewed(k)
    BY <1>3, <1>4, <1>5 DEF Present, Over, Lost, Waiting, Leaving, Renewed
  <2>2. \A k \in Jobs : /\ gate'[k] # "none" => gate[k] # "none"
                        /\ gate'[k] = "accept" => gate[k] = "accept" \/ dspec \in accepted'
    BY <1>2, <1>3, <1>4
  <2>3. accepted \subseteq accepted'
    BY <1>2
  <2> QED BY <1>3, <2>1, <2>2, <2>3 DEF Rests
<1> QED BY <1>9, <1>10, <1>12, <1>13, <1>14 DEF Tables

\* A lease expires, or is taken for expired.
LEMMA TablesRevokes ==
  ASSUME Basis, NEW j \in Jobs, Reap(j) \/ LoseLease(j)
  PROVE  Tables
<1>1. /\ TypeOK /\ Tabled /\ TableTyped /\ StoresTyped /\ run \in [Workers -> RunRecords]
  BY Typed DEF Basis
<1>2. /\ st[j] = "leased" /\ again' = again \cup {j}
      /\ st' = [k \in Jobs |-> IF k \in {j} THEN "ready" ELSE st[k]]
      /\ holder' = [k \in Jobs |-> IF k \in {j} THEN NoWorker ELSE holder[k]]
      /\ UNCHANGED <<doing, run, project, gate, files, deployed, accepted>>
      /\ faults' = faults \/ (faults < MaxFaults /\ faults' = faults + 1)
  BY DEF Reap, LoseLease, Table!Revoke, May
<1>3. \A k \in Jobs : /\ st'[k] = IF k = j THEN "ready" ELSE st[k]
                      /\ holder'[k] = IF k = j THEN NoWorker ELSE holder[k]
  BY <1>2
<1>4. TableTyped'
  BY <1>1, <1>2 DEF TableTyped, RowStates, Outcomes
<1>5. StoresTyped' /\ Gated' /\ Kept
  <2>1. accepted' \subseteq Scopes /\ gate' \in [Jobs -> Gates] /\ again' \subseteq Jobs
    BY <1>1, <1>2 DEF StoresTyped
  <2> QED BY <1>2, <2>1, StoresRest, GatesRest
<1>6. \A k \in Jobs : st'[k] = "awaiting_human" => gate'[k] # "none"
  BY <1>1, <1>2, <1>3 DEF TypeOK
<1>7. TypeOK'
  BY <1>1, <1>2, <1>4, <1>5, <1>6, TypedNext DEF TypeOK
<1>8. Tabled'
  <2>1. \A k \in Jobs : holder'[k] # NoWorker <=> st'[k] = "leased"
    BY <1>1, <1>3 DEF Tabled
  <2>2. \A v \in Workers : doing'[v] # NoJob => st'[doing'[v]] # "absent"
    <3> TAKE v \in Workers
    <3>1. doing'[v] # NoJob =>
            doing'[v] = doing[v] /\ doing[v] \in Jobs /\ st[doing[v]] # "absent"
      BY <1>1, <1>2 DEF TableTyped, Tabled, Present
    <3> QED BY <1>3, <3>1
  <2>3. \A k \in Jobs \ again', v \in Workers : doing'[v] = k => st'[k] = "leased" /\ holder'[k] = v
    <3> TAKE k \in Jobs \ again', v \in Workers
    <3>1. k # j /\ (doing[v] = k => st[k] = "leased" /\ holder[k] = v)
      BY <1>1, <1>2 DEF Tabled
    <3> QED BY <1>2, <1>3, <3>1
  <2> QED BY <2>1, <2>2, <2>3 DEF Tabled, Present
<1>9. Rests
  <2>1. \A k \in Jobs : /\ Present(k)' <=> Present(k)
                        /\ Over(k)' => Over(k)
                        /\ Lost(k)' => Lost(k)
                        /\ k \notin again' => (Waiting(k)' => Waiting(k)) /\ Renewed(k)
    BY <1>2, <1>3 DEF Present, Over, Lost, Waiting, Leaving, Renewed
  <2> QED BY <1>2, <2>1 DEF Rests
<1> QED BY <1>5, <1>7, <1>8, <1>9 DEF Tables

\* The steps of the table preserve Basis.
LEMMA BasisTables ==
  ASSUME Basis, Tables
  PROVE  Basis'
BY BasisRests DEF Tables

\* Nothing happens.
LEMMA TablesStutter ==
  ASSUME Basis, UNCHANGED vars
  PROVE  Tables
<1>1. /\ TypeOK /\ Tabled /\ TableTyped /\ StoresTyped /\ run \in [Workers -> RunRecords]
      /\ UNCHANGED <<st, holder, doing, phase, cycle, gate, elicited, dspec, consent, run, deployed,
                     accepted, again, faults>>
  BY Typed DEF Basis, vars
<1>2. Gated' /\ Kept
  BY <1>1, GatesRest
<1>3. StoresTyped'
  BY <1>1 DEF StoresTyped
<1>4. TypeOK'
  BY <1>1, <1>3, TypedNext DEF TypeOK, TableTyped
<1>5. Tabled'
  BY <1>1 DEF Tabled, Present
<1>6. \A k \in Jobs : /\ Present(k)' <=> Present(k)
                      /\ Over(k)' => Over(k)
                      /\ Lost(k)' => Lost(k)
                      /\ Waiting(k)' => Waiting(k)
                      /\ Renewed(k)
  BY <1>1 DEF Present, Over, Lost, Waiting, Leaving, Renewed
<1>7. Rests
  BY <1>1, <1>6 DEF Rests
<1> QED BY <1>2, <1>4, <1>5, <1>7 DEF Tables

\* A step is a handler's, or one of the table, or none.
LEMMA NextIs ==
  ASSUME Basis, [Next]_vars
  PROVE  Tables \/ \E w \in Workers : Rowed(w)
<1>1. CASE UNCHANGED vars
  BY <1>1, TablesStutter
<1>2. ASSUME NEW w \in Workers, Handle(w) \/ Raise(w) \/ Crash(w)
      PROVE  Tables \/ Rowed(w)
  BY <1>2, RowQuiet, RowHands, RowWrites, RowMoves, TablesLeaves DEF Handle
<1>3. ASSUME NEW w \in Workers, NEW j \in Jobs, Claim(w, j) PROVE Tables
  BY <1>3, TablesClaim
<1>4. ASSUME NEW j \in Jobs, Answer(j) \/ Reap(j) \/ LoseLease(j) PROVE Tables
  BY <1>4, TablesAnswer, TablesRevokes
<1> QED BY <1>1, <1>2, <1>3, <1>4 DEF Next

-----------------------------------------------------------------------------
(* Sound                                                                   *)

\* A handler gives up without a fault only if it moves the phase.
LEMMA SoundRow ==
  ASSUME Basis, Sound, NEW w \in Workers, Rowed(w)
  PROVE  Sound'
<1>1. PICK j \in Jobs, r \in RunRecords, N \in SUBSET Jobs :
        Steps(w, j, r, N) /\ Row(w, j, r, N)
  BY DEF Rowed
<1>2. /\ doing[w] = j /\ run'[w] = r /\ \A v \in Workers \ {w} : run'[v] = run[v]
      /\ UNCHANGED <<holder, doing, again>>
      /\ \A k \in Jobs : st'[k] = st[k] \/ st'[k] = "ready"
  BY <1>1, StepIs
<1>3. faults \in Nat /\ (faults' = faults \/ faults' = faults + 1)
  BY <1>1, Typed, FaultAssumption DEF Basis, StoresTyped, Steps
<1>4. r.at = "settle" /\ r.out \in {"ready", "failed"} =>
        /\ Kind(j) \in Movers \/ faults' = faults + 1
        /\ r.out = "failed" => j \in again
  BY <1>1 DEF Row, GivesUp, Gives, Breaks, Loads, Hands, Triages, Writes, Applies, Moves, Asks1
<1>5. ASSUME NEW k \in Jobs, NEW v \in Workers, NEW o, Leaving(v, k, o)', ~Leaving(v, k, o)
      PROVE  v = w /\ k = j /\ r.at = "settle" /\ r.out = o
  BY <1>2, <1>5 DEF Leaving
<1>6. ASSUME faults' = 0
      PROVE  /\ \A k \in Jobs : st'[k] = "leased" => doing'[holder'[k]] = k
             /\ \A k \in again' : Kind(k) \in Movers
             /\ \A k \in Jobs, v \in Workers : Leaving(v, k, "ready")' => Kind(k) \in Movers
  <2>1. faults = 0 /\ faults' # faults + 1
    BY <1>3, <1>6
  <2>2. /\ \A k \in Jobs : st[k] = "leased" => doing[holder[k]] = k
        /\ \A k \in again : Kind(k) \in Movers
        /\ \A k \in Jobs, v \in Workers : Leaving(v, k, "ready") => Kind(k) \in Movers
    BY <2>1 DEF Sound
  <2>3. \A k \in Jobs, v \in Workers : Leaving(v, k, "ready")' => Kind(k) \in Movers
    BY <1>4, <1>5, <2>1, <2>2
  <2> QED BY <1>2, <2>2, <2>3
<1>7. ASSUME faults' \in {0, 1}, NEW k \in Jobs, Lost(k)' PROVE Kind(k) \in Movers
  <2>1. CASE Lost(k)
    BY <1>3, <1>7, <2>1 DEF Sound
  <2>2. CASE ~Lost(k)
    <3>1. PICK v \in Workers : Leaving(v, k, "failed")' /\ ~Leaving(v, k, "failed")
      BY <1>2, <1>7, <2>2 DEF Lost
    <3>2. k = j /\ j \in again /\ (Kind(j) \in Movers \/ faults' = faults + 1)
      BY <1>4, <1>5, <3>1
    <3>3. CASE faults' = faults + 1
      <4>1. faults = 0
        BY <1>3, <1>7, <3>3
      <4> QED BY <3>2, <4>1 DEF Sound
    <3> QED BY <3>2, <3>3
  <2> QED BY <2>1, <2>2
<1> QED BY <1>6, <1>7 DEF Sound

\* Without a fault nobody is gone, and only those jobs are handed back.
LEMMA SoundTables ==
  ASSUME Basis, Sound, Tables, faults' = faults \/ faults' = faults + 1,
         faults' = 0 =>
           /\ \A k \in Jobs : st'[k] = "leased" => doing'[holder'[k]] = k
           /\ \A k \in again' : Kind(k) \in Movers
           /\ \A k \in Jobs, v \in Workers : Leaving(v, k, "ready")' => Kind(k) \in Movers
  PROVE  Sound'
<1>1. faults \in Nat /\ \A k \in Jobs : Lost(k)' => Lost(k)
  BY Typed, FaultAssumption DEF Basis, StoresTyped, Tables, Rests
<1>2. faults' \in {0, 1} => \A k \in Jobs : Lost(k)' => Kind(k) \in Movers
  BY <1>1 DEF Sound
<1> QED BY <1>2 DEF Sound

\* Every step keeps what holds without a fault.
LEMMA SoundNext ==
  ASSUME Basis, Sound, [Next]_vars
  PROVE  Sound'
<1>1. /\ TypeOK /\ Tabled /\ TableTyped /\ StoresTyped /\ run \in [Workers -> RunRecords]
      /\ faults \in Nat
  BY Typed, FaultAssumption DEF Basis, StoresTyped
<1>2. faults = 0 =>
        /\ \A k \in Jobs : st[k] = "leased" => doing[holder[k]] = k
        /\ \A k \in again : Kind(k) \in Movers
        /\ \A k \in Jobs, v \in Workers : Leaving(v, k, "ready") => Kind(k) \in Movers
  BY DEF Sound
<1>3. CASE UNCHANGED vars
  <2>1. UNCHANGED <<st, holder, doing, run, again, faults>>
    BY <1>3 DEF vars
  <2>2. \A k \in Jobs, v \in Workers : Leaving(v, k, "ready")' <=> Leaving(v, k, "ready")
    BY <2>1 DEF Leaving
  <2> QED BY <1>2, <1>3, <2>1, <2>2, TablesStutter, SoundTables
<1>4. ASSUME NEW w \in Workers, NEW j \in Jobs, Claim(w, j) PROVE Sound'
  <2>1. /\ doing[w] = NoJob /\ j # NoJob /\ st' = [st EXCEPT ![j] = "leased"]
        /\ holder' = [holder EXCEPT ![j] = w] /\ doing' = [doing EXCEPT ![w] = j]
        /\ run' = [run EXCEPT ![w] = [Idle EXCEPT !.at = "start"]] /\ UNCHANGED <<again, faults>>
    BY <1>4, NullAssumption DEF Claim, Table!Grant
  <2>2. \A k \in Jobs, v \in Workers : Leaving(v, k, "ready")' => Leaving(v, k, "ready")
    BY <1>1, <2>1 DEF Leaving, TableTyped
  <2>3. ASSUME NEW k \in Jobs, st'[k] = "leased", faults = 0 PROVE doing'[holder'[k]] = k
    <3>1. CASE k = j
      BY <1>1, <2>1, <3>1 DEF TableTyped
    <3>2. CASE k # j
      <4>1. st[k] = "leased" /\ holder'[k] = holder[k] /\ doing[holder[k]] = k
        BY <1>1, <1>2, <2>1, <2>3, <3>2 DEF TableTyped
      <4>2. holder[k] # w /\ holder[k] \in Workers
        BY <1>1, <2>1, <4>1, NullAssumption DEF Tabled, TableTyped
      <4> QED BY <1>1, <2>1, <4>1, <4>2 DEF TableTyped
    <3> QED BY <3>1, <3>2
  <2> QED BY <1>2, <1>4, <2>1, <2>2, <2>3, TablesClaim, SoundTables
<1>5. ASSUME NEW w \in Workers, Settle(w) PROVE Sound'
  <2>1. /\ run[w].at = "settle" /\ doing[w] \in Jobs
        /\ run' = [run EXCEPT ![w] = Idle] /\ doing' = [doing EXCEPT ![w] = NoJob]
        /\ faults' = faults
    BY <1>1, <1>5 DEF Settle, Table!Report, Table!Forget, TypeOK
  <2>2. PICK j \in Jobs : j = doing[w]
    BY <2>1
  <2>3. \/ holder[j] # w /\ UNCHANGED <<st, holder, again>>
        \/ /\ \E s \in {"succeeded", "failed", "ready", "awaiting_human"} :
                st' = [st EXCEPT ![j] = s]
           /\ holder' = [holder EXCEPT ![j] = NoWorker]
           /\ again' = IF run[w].out = "ready" THEN again \cup {j} ELSE again
    BY <1>5, <2>2 DEF Settle, Table!Report, Table!Forget
  <2>4. \A k \in Jobs, v \in Workers : Leaving(v, k, "ready")' => Leaving(v, k, "ready")
    BY <1>1, <2>1, NullAssumption DEF Leaving, TableTyped
  <2>5. again' \subseteq again \/ (again' = again \cup {j} /\ Leaving(w, j, "ready"))
    BY <2>1, <2>2, <2>3 DEF Leaving
  <2>6. ASSUME NEW k \in Jobs, st'[k] = "leased", faults = 0 PROVE doing'[holder'[k]] = k
    <3>1. /\ st[k] = "leased" /\ holder'[k] = holder[k] /\ doing[holder[k]] = k
          /\ ~(k = j /\ holder[j] = w)
      <4>1. CASE holder[j] # w /\ UNCHANGED <<st, holder>>
        BY <1>2, <2>6, <4>1
      <4>2. CASE k # j
        BY <1>1, <1>2, <2>3, <2>6, <4>2 DEF TableTyped
      <4>3. CASE k = j /\ \E s \in {"succeeded", "failed", "ready", "awaiting_human"} :
                            st' = [st EXCEPT ![j] = s]
        BY <1>1, <2>6, <4>3 DEF TableTyped
      <4> QED BY <2>3, <4>1, <4>2, <4>3
    <3>2. holder[k] # w /\ holder[k] \in Workers
      BY <1>1, <2>2, <3>1 DEF Tabled, TableTyped
    <3> QED BY <1>1, <2>1, <3>1, <3>2 DEF TableTyped
  <2>7. faults = 0 => \A k \in again' : Kind(k) \in Movers
    BY <1>2, <2>5
  <2> QED BY <1>2, <1>5, <2>1, <2>4, <2>6, <2>7, TablesLeaves, SoundTables
<1>6. ASSUME NEW w \in Workers, Crash(w) PROVE Sound'
  <2>1. faults' = faults + 1 /\ faults' # 0
    BY <1>1, <1>6 DEF Crash, May
  <2> QED BY <1>6, <2>1, TablesLeaves, SoundTables
<1>7. ASSUME NEW j \in Jobs, Answer(j) PROVE Sound'
  <2>1. /\ st' = [st EXCEPT ![j] = "ready"] /\ UNCHANGED <<holder, doing, run, again, faults>>
    BY <1>7 DEF Answer, Table!Resume
  <2>2. \A k \in Jobs : st'[k] = "leased" => st[k] = "leased"
    BY <1>1, <2>1 DEF TableTyped
  <2>3. \A k \in Jobs, v \in Workers : Leaving(v, k, "ready")' <=> Leaving(v, k, "ready")
    BY <2>1 DEF Leaving
  <2> QED BY <1>2, <1>7, <2>1, <2>2, <2>3, TablesAnswer, SoundTables
<1>8. ASSUME NEW j \in Jobs, Reap(j) \/ LoseLease(j) PROVE Sound'
  <2>1. faults' = faults + 1 \/ (faults' = faults /\ st[j] = "leased" /\ doing[holder[j]] # j)
    BY <1>8 DEF Reap, LoseLease, May
  <2>2. faults' # 0 /\ (faults' = faults \/ faults' = faults + 1)
    BY <1>1, <1>2, <2>1
  <2> QED BY <1>8, <2>2, TablesRevokes, SoundTables
<1>9. ASSUME NEW w \in Workers, Handle(w) \/ Raise(w) PROVE Sound'
  BY <1>5, <1>9, RowQuiet, RowHands, RowWrites, RowMoves, SoundRow DEF Handle
<1> QED BY <1>3, <1>4, <1>5, <1>6, <1>7, <1>8, <1>9 DEF Next

-----------------------------------------------------------------------------
(* Single                                                                  *)

\* No job of this kind was ever handed back.
Fresh(kind) == \A k \in again : Kind(k) # kind

\* What was handed back once stays so.
LEMMA FreshBefore ==
  ASSUME Basis, [Next]_vars, NEW kind, Fresh(kind)'
  PROVE  Fresh(kind)
<1>1. again \subseteq again'
  <2>1. CASE Tables
    BY <2>1 DEF Tables, Rests
  <2>2. CASE \E w \in Workers : Rowed(w)
    BY <2>2 DEF Rowed, Steps
  <2> QED BY <2>1, <2>2, NextIs
<1> QED BY <1>1 DEF Fresh

\* A leg whose execution inserted nothing, or that has none, has gone on to no other.
LEMMA NotGoneOn ==
  ASSUME Lineage, NEW m \in Legs, ~Present(The("demo", m)), ~Present(The("triage", m))
  PROVE  \A k \in Routes : /\ ~Present(The(k, m))
                           /\ Onward[k][m] # NoLeg => ~Begun(Onward[k][m])
BY DEF Lineage, Routes, Asking

\* A leg with a route has gone on by no other.
LEMMA GoneOnOnce ==
  ASSUME Basis, Single, NEW k \in Routes, NEW m \in Legs, Present(The(k, m)),
         Onward[k][m] # NoLeg, ~Begun(Onward[k][m])
  PROVE  Last(m)
<1>1. Lineage
  BY DEF Basis
<1>2. Reached(m)
  BY <1>1, Begins DEF Reached
<1>3. ASSUME NEW l \in Routes, l # k PROVE ~Present(The(l, m))
  <2>1. ~(Present(The("demo", m)) /\ Present(The("triage", m)))
    BY DEF Single
  <2>2. Present(The(Asking(k), m)) /\ (Present(The(l, m)) => Present(The(Asking(l), m)))
    BY <1>1 DEF Lineage
  <2>3. /\ k = "route demo" /\ l = "route triage" => Asking(k) = "demo" /\ Asking(l) = "triage"
        /\ k = "route triage" /\ l = "route demo" => Asking(k) = "triage" /\ Asking(l) = "demo"
    BY DEF Asking
  <2>4. \/ k = "route demo" /\ l = "route triage"
        \/ k = "route triage" /\ l = "route demo"
    BY <1>3 DEF Routes
  <2> QED BY <2>1, <2>2, <2>3, <2>4
<1>4. \A l \in Routes : Onward[l][m] # NoLeg /\ Begun(Onward[l][m]) => Present(The(l, m))
  BY <1>1 DEF Lineage
<1> QED BY <1>2, <1>3, <1>4 DEF Last

\* An execution that was never handed back and is still to be done is of the last leg.
LEMMA WaitingLast ==
  ASSUME Basis, Fresh("execute"), NEW m \in Legs, Waiting(The("execute", m)),
         Present(The("execute", m))
  PROVE  Last(m) /\ ~Present(The("demo", m)) /\ ~Present(The("triage", m))
<1>1. /\ The("execute", m) \in Jobs /\ Kind(The("execute", m)) = "execute"
      /\ Leg(The("execute", m)) = m
  BY TheIs, KindsAre
<1>2. Unborn(The("execute", m)) /\ Lineage
  BY <1>1 DEF Basis, Firstborn, Fresh
<1>3. ~Present(The("demo", m)) /\ ~Present(The("triage", m))
  BY <1>1, <1>2 DEF Unborn
<1> QED BY <1>2, <1>3, NotGoneOn DEF Last, Reached, Begun

\* The steps of the table keep Single.
LEMMA SingleTables ==
  ASSUME Basis, Single, Fresh("execute")', Tables
  PROVE  Single'
<1>1. /\ Lineage /\ Kept /\ Rests /\ TypeOK' /\ UNCHANGED phase
      /\ \A k \in Jobs : Present(k)' <=> Present(k)
  BY DEF Basis, Tables, Rests
<1>2. ASSUME NEW k \in Kinds, NEW m \in Legs
      PROVE  Present(The(k, m))' <=> Present(The(k, m))
  BY <1>1, TheIs
<1>3. \A m \in Legs : Begun(m)' <=> Begun(m)
  BY <1>2, KindsAre DEF Begun
<1>4. \A m \in Legs : Last(m)' <=> Last(m)
  BY <1>3, OnwardIs DEF Last, Reached
<1>5. ASSUME NEW m \in Legs, Applying(m)' PROVE Applying(m)
  <2> DEFINE x == The("execute", m)
  <2>1. x \in Jobs /\ Kind(x) = "execute" /\ x \notin again' /\ x # NoJob
    BY TheIs, KindsAre, NullAssumption DEF Fresh
  <2>2. CASE st'[x] = "ready"
    <3>1. st[x] = "ready"
      BY <1>1, <2>1, <2>2 DEF Rests, Renewed, Asks
    <3> QED BY <3>1 DEF Applying
  <2>3. ASSUME NEW v \in Workers, On(v, x, {"start", "loaded", "verified"})' PROVE Applying(m)
    <3>1. doing'[v] = x /\ run'[v].at \in {"start", "loaded", "verified"}
      BY <2>3 DEF On
    <3>2. (doing[v] = x /\ run'[v] = run[v]) \/ st[x] = "ready"
      BY <1>1, <2>1, <3>1 DEF Rests
    <3> QED BY <3>1, <3>2 DEF Applying, On
  <2>4. CASE Pending(m)'
    <3>1. ~Present(x)
      BY <1>2, <2>4, KindsAre DEF Pending
    <3>2. PICK v \in Workers :
            \/ At(v, "spec", "entered")' /\ Of(v)' = m
            \/ /\ Routing(v, "routed")' /\ Onward[Kind(doing'[v])][Of(v)'] = m
               /\ Target(Reply(Kind(doing[v]), Of(v)))' = "DEPLOY_EXECUTE"
      BY <2>4 DEF Pending
    <3>3. doing'[v] # NoJob /\ doing'[v] = doing[v] /\ run'[v] = run[v] /\ Of(v)' = Of(v)
      BY <1>1, <3>2 DEF At, Routing, Rests, Of
    <3>4. CASE At(v, "spec", "entered")' /\ Of(v)' = m
      BY <3>1, <3>3, <3>4 DEF Applying, Pending, At
    <3>5. CASE /\ Routing(v, "routed")' /\ Onward[Kind(doing'[v])][Of(v)'] = m
               /\ Target(Reply(Kind(doing[v]), Of(v)))' = "DEPLOY_EXECUTE"
      <4>1. Routing(v, "routed") /\ Kind(doing[v]) \in Routes /\ doing[v] # NoJob
        BY <3>3, <3>5 DEF Routing, At, Routes
      <4>2. Reply(Kind(doing[v]), Of(v))' = Reply(Kind(doing[v]), Of(v))
        BY <1>1, <3>3, <4>1, RouteIs DEF Kept, Reply
      <4>3. Target(Reply(Kind(doing[v]), Of(v))) = "DEPLOY_EXECUTE"
        <5>1. Target(Reply(Kind(doing[v]), Of(v)))' = Target(Reply(Kind(doing[v]), Of(v))')
          BY DEF Target
        <5> QED BY <3>5, <4>2, <5>1
      <4> QED BY <3>1, <3>3, <3>5, <4>1, <4>3 DEF Applying, Pending
    <3> QED BY <3>2, <3>4, <3>5
  <2> QED BY <1>5, <2>2, <2>3, <2>4 DEF Applying
<1>6. \A m \in Legs : ~(Present(The("demo", m))' /\ Present(The("triage", m))')
  BY <1>2, KindsAre DEF Single
<1> QED BY <1>1, <1>4, <1>5, <1>6 DEF Single

\* Which leg begins with a step, if any, and from where.
LEMMA BeginsWith ==
  ASSUME Basis, NEW w \in Workers, NEW j \in Jobs, NEW r \in RunRecords, NEW N \in SUBSET Jobs,
         Steps(w, j, r, N), Row(w, j, r, N), NEW q \in Legs, Begun(q)', ~Begun(q)
  PROVE  /\ \A m \in Legs \ {q} : Begun(m)' => Begun(m)
         /\ \/ q = 0 /\ \A m \in Legs : ~Begun(m)
            \/ /\ Kind(j) \in Routes /\ j = The(Kind(j), Leg(j)) /\ Leg(j) \in Legs
               /\ Present(j) /\ Onward[Kind(j)][Leg(j)] = q /\ q # 0
<1>1. /\ Lineage /\ Present(j) /\ Leg(j) \in Legs /\ doing[w] = j /\ Placed(w)
      /\ \A k \in Jobs : Present(k)' <=> Present(k) \/ k \in N
  BY StepIs DEF Basis
<1>2. ASSUME NEW k \in Kinds, NEW m \in Legs
      PROVE  Present(The(k, m))' <=> Present(The(k, m)) \/ The(k, m) \in N
  BY <1>1, TheIs
<1>3. The("interview", q) \in N \/ The("execute", q) \in N
  BY <1>2, KindsAre DEF Begun
<1>4. PICK n \in Jobs : N = {n} /\ Child(w, j, n)
  BY <1>3, Inserts
<1>5. n = The("interview", q) \/ n = The("execute", q)
  BY <1>3, <1>4
<1>6. \A m \in Legs \ {q} : Begun(m)' => Begun(m)
  BY <1>2, <1>4, <1>5, KindsAre, TheSame DEF Begun
<1>7. (Kind(n) = "interview" \/ Kind(n) = "execute") /\ Leg(n) = q
  BY <1>5, TheIs, KindsAre
<1>8. CASE Next3(w, j, n)
  <2>1. Kind(j) \in Routes /\ Onward[Kind(j)][Leg(j)] = q /\ run[w].at = "routed"
    BY <1>5, <1>8, TheSame DEF Next3
  <2>2. j = The(Kind(j), Leg(j))
    BY <2>1, JobIs, BridgeIs DEF Routes
  <2>3. q # 0
    BY <1>1, <2>1, OnwardIs, LegAssumption
  <2> QED BY <1>1, <1>6, <2>1, <2>2, <2>3
<1>9. CASE Kind(n) = "interview" /\ n = The("interview", 0)
  <2>1. q = 0 /\ ~Present(The("interview", 0))
    BY <1>5, <1>9, TheSame DEF Begun
  <2>2. \A k \in Jobs \ {Bridge} : ~Present(k)
    BY <1>1, <2>1 DEF Lineage
  <2>3. \A m \in Legs : ~Begun(m)
    BY <2>2, TheIs, KindsAre DEF Begun
  <2> QED BY <1>6, <2>1, <2>3
<1>10. CASE j = The("spec", q)
  BY <1>1, <1>10, Begins DEF Begun
<1> QED BY <1>4, <1>7, <1>8, <1>9, <1>10, Children

\* There is one last leg.
LEMMA SingleLast ==
  ASSUME Basis, Single, NEW w \in Workers, NEW j \in Jobs, NEW r \in RunRecords,
         NEW N \in SUBSET Jobs, Steps(w, j, r, N), Row(w, j, r, N), NEW m \in Legs, NEW n \in Legs,
         Last(m)', Last(n)'
  PROVE  m = n
<1>1. /\ Lineage /\ \A k \in Jobs : Present(k)' <=> Present(k) \/ k \in N
  BY StepIs DEF Basis
<1>2. \A p \in Legs : Begun(p) => Begun(p)'
  BY <1>1, TheIs, KindsAre DEF Begun
<1>3. ASSUME NEW p \in Legs, Last(p)', Begun(p)' => Begun(p) PROVE Last(p)
  BY <1>2, <1>3, OnwardIs DEF Last, Reached
<1>4. CASE \E q \in Legs : Begun(q)' /\ ~Begun(q)
  <2>1. PICK q \in Legs : Begun(q)' /\ ~Begun(q)
    BY <1>4
  <2>2. /\ \A p \in Legs \ {q} : Begun(p)' => Begun(p)
        /\ \/ q = 0 /\ \A p \in Legs : ~Begun(p)
           \/ /\ Kind(j) \in Routes /\ j = The(Kind(j), Leg(j)) /\ Leg(j) \in Legs
              /\ Present(j) /\ Onward[Kind(j)][Leg(j)] = q /\ q # 0
    BY <2>1, BeginsWith
  <2>3. ASSUME NEW p \in Legs, Last(p)', p # q PROVE FALSE
    <3>1. Last(p)
      BY <1>3, <2>2, <2>3
    <3>2. CASE q = 0 /\ \A l \in Legs : ~Begun(l)
      BY <2>3, <3>1, <3>2 DEF Last, Reached
    <3>3. CASE /\ Kind(j) \in Routes /\ j = The(Kind(j), Leg(j)) /\ Leg(j) \in Legs
               /\ Present(j) /\ Onward[Kind(j)][Leg(j)] = q
      <4>1. Onward[Kind(j)][Leg(j)] # NoLeg
        BY <3>3, LegAssumption
      <4>2. Last(Leg(j))
        BY <2>1, <3>3, <4>1, GoneOnOnce
      <4>3. p = Leg(j)
        BY <3>1, <3>3, <4>2 DEF Single
      <4> QED BY <2>1, <2>3, <3>3, <4>1, <4>3 DEF Last
    <3> QED BY <2>2, <3>2, <3>3
  <2> QED BY <2>3
<1>5. CASE \A q \in Legs : Begun(q)' => Begun(q)
  BY <1>3, <1>5 DEF Single
<1> QED BY <1>4, <1>5

\* What a handler begins to apply, it has moved the project for.
LEMMA ApplyingRow ==
  ASSUME Basis, NEW w \in Workers, NEW j \in Jobs, NEW r \in RunRecords, NEW N \in SUBSET Jobs,
         Steps(w, j, r, N), Row(w, j, r, N), NEW m \in Legs, Applying(m)'
  PROVE  Applying(m) \/ phase' = "DEPLOY_EXECUTE"
<1> DEFINE x == The("execute", m)
<1>1. /\ Lineage /\ Kept /\ Placed(w) /\ Present(j) /\ Leg(j) \in Legs
      /\ doing[w] = j /\ UNCHANGED doing /\ run'[w] = r /\ \A v \in Workers \ {w} : run'[v] = run[v]
      /\ \A k \in Jobs : /\ Present(k)' <=> Present(k) \/ k \in N
                         /\ st'[k] = st[k] \/ (st[k] = "absent" /\ st'[k] = "ready" /\ k \in N)
  BY StepIs, RowStores DEF Basis
<1>2. x \in Jobs /\ Kind(x) = "execute" /\ Leg(x) = m /\ j # NoJob
  BY TheIs, KindsAre, NullAssumption
<1>3. ASSUME x \in N, ~Present(x) PROVE Applying(m)
  <2>1. Child(w, j, x)
    BY <1>2, <1>3, Inserts
  <2>2. CASE j = The("spec", m)
    <3>1. Kind(j) = "spec"
      BY <2>2, TheIs, KindsAre
    <3>2. run[w].at = "entered"
      BY <2>1, <2>2, <3>1, <1>2, BridgeIs DEF Child, Next1, Next2, Next3, Routes
    <3>3. Of(w) = m
      BY <1>1, <2>2, TheIs, KindsAre DEF Of
    <3>4. At(w, "spec", "entered")
      BY <1>1, <1>2, <3>1, <3>2 DEF At
    <3> QED BY <1>3, <3>3, <3>4 DEF Applying, Pending
  <2>3. CASE Next3(w, j, x)
    <3>1. Kind(j) \in Routes /\ run[w].at = "routed"
      BY <2>3 DEF Next3
    <3>2. Routing(w, "routed") /\ Of(w) = Leg(j)
      BY <1>1, <1>2, <3>1 DEF Routing, At, Routes, Of
    <3>3. Onwards(Kind(j), Leg(j))
      <4>1. Onwards(Kind(doing[w]), Of(w))
        BY <1>1, <3>2 DEF Placed
      <4> QED BY <1>1, <3>2, <4>1
    <3>4. /\ Onward[Kind(j)][Leg(j)] = m
          /\ Target(Reply(Kind(j), Leg(j))) # "DEPLOY_DESIGN"
      BY <2>3, TheSame DEF Next3
    <3> QED BY <1>1, <1>3, <3>2, <3>3, <3>4 DEF Applying, Pending, Onwards
  <2> QED BY <1>2, <2>1, <2>2, <2>3, Children
<1>4. CASE st'[x] = "ready"
  BY <1>1, <1>2, <1>3, <1>4 DEF Applying, Present
<1>5. ASSUME NEW v \in Workers, On(v, x, {"start", "loaded", "verified"})' PROVE Applying(m)
  <2>1. CASE v # w
    BY <1>1, <1>5, <2>1 DEF Applying, On
  <2>2. CASE v = w
    <3>1. j = x /\ r.at \in {"start", "loaded", "verified"}
      BY <1>1, <1>5, <2>2 DEF On
    <3>2. run[w].at \in {"start", "loaded", "verified"}
      BY <3>1 DEF Row, GivesUp, Gives, Breaks, Loads, Hands, Triages, Writes, Applies, Moves, Asks1
    <3> QED BY <1>1, <3>1, <3>2 DEF Applying, On
  <2> QED BY <2>1, <2>2
<1>6. CASE Pending(m)'
  <2>1. ~Present(x)
    BY <1>1, <1>2, <1>6 DEF Pending
  <2>2. PICK v \in Workers :
          \/ At(v, "spec", "entered")' /\ Of(v)' = m
          \/ /\ Routing(v, "routed")' /\ Onward[Kind(doing'[v])][Of(v)'] = m
             /\ Target(Reply(Kind(doing[v]), Of(v)))' = "DEPLOY_EXECUTE"
    BY <1>6 DEF Pending
  <2>3. doing'[v] = doing[v] /\ Of(v)' = Of(v)
    BY <1>1 DEF Of
  <2>4. ASSUME Routing(v, "routed")'
        PROVE  Target(Reply(Kind(doing[v]), Of(v)))' = Target(Reply(Kind(doing[v]), Of(v)))
    <3>1. Kind(doing[v]) \in Routes /\ doing[v] # NoJob
      BY <2>3, <2>4 DEF Routing, At, Routes
    <3>2. Reply(Kind(doing[v]), Of(v))' = Reply(Kind(doing[v]), Of(v))
      BY <1>1, <2>3, <3>1, RouteIs DEF Kept, Reply
    <3>3. Target(Reply(Kind(doing[v]), Of(v)))' = Target(Reply(Kind(doing[v]), Of(v))')
      BY DEF Target
    <3> QED BY <3>2, <3>3
  <2>5. CASE v # w
    <3>1. run'[v] = run[v]
      BY <1>1, <2>5
    <3>2. /\ At(v, "spec", "entered")' => At(v, "spec", "entered")
          /\ Routing(v, "routed")' => Routing(v, "routed")
      BY <2>3, <3>1 DEF At, Routing
    <3> QED BY <2>1, <2>2, <2>3, <2>4, <3>2 DEF Applying, Pending
  <2>6. CASE v = w
    <3>1. CASE At(v, "spec", "entered")'
      <4>1. Kind(j) = "spec" /\ r.at = "entered"
        BY <1>1, <2>3, <2>6, <3>1 DEF At
      <4> QED BY <4>1
          DEF Row, GivesUp, Gives, Breaks, Loads, Hands, Triages, Writes, Applies, Moves, Asks1
    <3>2. CASE Routing(v, "routed")' /\ Target(Reply(Kind(doing[v]), Of(v)))' = "DEPLOY_EXECUTE"
      <4>1. r.at = "routed" /\ Of(w) = Leg(j)
        BY <1>1, <2>3, <2>6, <3>2 DEF At, Routing, Of
      <4>2. phase' = Target(Reply(Kind(j), Leg(j)))
        BY <4>1
           DEF Row, GivesUp, Gives, Breaks, Loads, Hands, Triages, Writes, Applies, Moves, Asks1
      <4> QED BY <1>1, <2>3, <2>4, <2>6, <3>2, <4>1, <4>2
    <3> QED BY <2>2, <3>1, <3>2
  <2> QED BY <2>5, <2>6
<1> QED BY <1>4, <1>5, <1>6 DEF Applying

\* The execution that moves the project is of the last leg, and nothing else is applied.
LEMMA NothingElseApplied ==
  ASSUME Basis, Single, Fresh("execute"), NEW w \in Workers, NEW j \in Jobs, NEW r \in RunRecords,
         NEW N \in SUBSET Jobs, Steps(w, j, r, N), N = {}, Kind(j) = "execute",
         r.at \in {"reviewing", "failing"}, UNCHANGED gate, NEW m \in Legs
  PROVE  ~Applying(m)'
<1> DEFINE x == The("execute", m)
<1>1. /\ Lineage /\ Tabled /\ Present(j) /\ Leg(j) \in Legs /\ doing[w] = j /\ UNCHANGED doing
      /\ run'[w] = r /\ \A v \in Workers \ {w} : run'[v] = run[v]
      /\ \A k \in Jobs : (Present(k)' <=> Present(k)) /\ st'[k] = st[k]
      /\ run[w].at # "settle"
  <2>1. \A k \in Jobs : /\ Present(k)' <=> Present(k) \/ k \in N
                        /\ st'[k] = st[k] \/ (st[k] = "absent" /\ st'[k] = "ready" /\ k \in N)
    BY StepIs
  <2>2. /\ Present(j) /\ Leg(j) \in Legs /\ doing[w] = j /\ UNCHANGED doing
        /\ run'[w] = r /\ \A v \in Workers \ {w} : run'[v] = run[v]
    BY StepIs
  <2> QED BY <2>1, <2>2 DEF Basis, Steps
<1>2. x \in Jobs /\ Kind(x) = "execute" /\ Leg(x) = m /\ j # NoJob
  BY TheIs, KindsAre, NullAssumption
<1>3. PICK p \in Legs : p = Leg(j) /\ j = The("execute", p)
  BY <1>1, JobIs, BridgeIs
<1>4. /\ st[j] = "leased" /\ holder[j] = w /\ \A v \in Workers : doing[v] = j => v = w
  BY <1>1 DEF Tabled, Fresh
<1>5. Last(p) /\ ~Present(The("demo", p)) /\ ~Present(The("triage", p))
  <2>1. Waiting(j)
    BY <1>1 DEF Waiting
  <2> QED BY <1>1, <1>3, <2>1, WaitingLast
<1>6. ASSUME Waiting(x), Present(x) PROVE x = j
  <2>1. Last(m)
    BY <1>6, WaitingLast
  <2> QED BY <1>3, <1>5, <2>1 DEF Single
<1>7. st'[x] # "ready"
  <2> SUFFICES ASSUME st[x] = "ready" PROVE FALSE
    BY <1>1, <1>2
  <2>1. x = j
    BY <1>2, <1>6 DEF Waiting, Present
  <2> QED BY <1>4, <2>1
<1>8. ASSUME NEW v \in Workers, On(v, x, {"start", "loaded", "verified"})' PROVE FALSE
  <2>1. v # w /\ doing[v] = x /\ run[v].at \in {"start", "loaded", "verified"}
    BY <1>1, <1>8 DEF On
  <2>2. Present(x)
    BY <1>1, <1>2, <2>1, NullAssumption DEF Tabled
  <2>3. x = j
    BY <1>6, <2>1, <2>2 DEF Waiting
  <2> QED BY <1>4, <2>1, <2>3
<1>9. ASSUME Pending(m)' PROVE FALSE
  <2>1. ~Present(x)
    BY <1>1, <1>2, <1>9 DEF Pending
  <2>2. PICK v \in Workers :
          \/ At(v, "spec", "entered")' /\ Of(v)' = m
          \/ /\ Routing(v, "routed")' /\ Onward[Kind(doing'[v])][Of(v)'] = m
             /\ Target(Reply(Kind(doing[v]), Of(v)))' = "DEPLOY_EXECUTE"
    BY <1>9 DEF Pending
  <2>3. doing'[v] = doing[v] /\ Of(v)' = Of(v) /\ doing[v] # NoJob
    BY <1>1, <2>2 DEF Of, At, Routing
  <2>4. CASE At(v, "spec", "entered")' /\ Of(v)' = m
    <3>1. doing[v] \in Jobs /\ Present(doing[v]) /\ Kind(doing[v]) = "spec" /\ Leg(doing[v]) = m
      BY <2>3, <2>4 DEF At, Of, Basis, TypeOK, Tabled
    <3>2. doing[v] = The("spec", m)
      BY <3>1, JobIs, BridgeIs
    <3>3. Present(The("interview", m)) /\ ~Present(The("demo", m)) /\ ~Present(The("triage", m))
      BY <1>1, <2>1, <3>1, <3>2, Begins DEF Lineage
    <3>4. Last(m)
      BY <1>1, <3>3, NotGoneOn DEF Last, Reached, Begun
    <3>5. m = p
      BY <1>5, <3>4 DEF Single
    <3> QED BY <1>1, <1>3, <2>1, <3>5
  <2>5. CASE /\ Routing(v, "routed")' /\ Onward[Kind(doing'[v])][Of(v)'] = m
             /\ Target(Reply(Kind(doing[v]), Of(v)))' = "DEPLOY_EXECUTE"
    <3>1. PICK k \in Routes : k = Kind(doing[v])
      BY <2>3, <2>5 DEF Routing, At, Routes
    <3>2. PICK q \in Legs : /\ q = Of(v) /\ Present(The(k, q)) /\ The(Asking(k), q) \in Jobs
                            /\ Onward[k][q] = m
      BY <2>3, <2>5, <3>1, RouteIs
    <3>3. Target(Reply(k, q)) = "DEPLOY_EXECUTE"
      <4>1. Reply(k, q)' = Reply(k, q)
        BY DEF Reply
      <4>2. Target(Reply(k, q))' = Target(Reply(k, q)')
        BY DEF Target
      <4> QED BY <2>3, <2>5, <3>1, <3>2, <4>1, <4>2
    <3>4. Onward[k][q] # NoLeg
      BY <3>2, LegAssumption
    <3>5. ~Begun(m)
      BY <1>1, <2>1, <3>2, <3>3, <3>4 DEF Lineage, Begun
    <3>6. Last(q)
      BY <3>2, <3>4, <3>5, GoneOnOnce
    <3>7. q = p
      BY <1>5, <3>6 DEF Single
    <3> QED BY <1>1, <1>5, <3>2, <3>7, NotGoneOn
  <2> QED BY <2>2, <2>4, <2>5
<1> QED BY <1>7, <1>8, <1>9 DEF Applying

\* A step of a handler keeps Single.
LEMMA SingleRow ==
  ASSUME Basis, Single, Fresh("execute"), NEW w \in Workers, Rowed(w)
  PROVE  Single'
<1>1. PICK j \in Jobs, r \in RunRecords, N \in SUBSET Jobs :
        Steps(w, j, r, N) /\ Row(w, j, r, N)
  BY DEF Rowed
<1>2. /\ doing[w] = j /\ run[w].at # "settle" /\ j # NoJob
      /\ \A k \in Jobs : Present(k)' <=> Present(k) \/ k \in N
  BY <1>1, StepIs, NullAssumption DEF Steps
<1>3. \A m, n \in Legs : Last(m)' /\ Last(n)' => m = n
  BY <1>1, SingleLast
<1>4. ASSUME NEW m \in Legs, Present(The("demo", m))', Present(The("triage", m))' PROVE FALSE
  <2>1. /\ The("demo", m) \in Jobs /\ Kind(The("demo", m)) = "demo" /\ Leg(The("demo", m)) = m
        /\ The("triage", m) \in Jobs /\ Kind(The("triage", m)) = "triage"
        /\ Leg(The("triage", m)) = m
    BY TheIs, KindsAre
  <2>2. ~(Present(The("demo", m)) /\ Present(The("triage", m)))
    BY DEF Single
  <2>3. PICK n \in Jobs : N = {n} /\ Child(w, j, n) /\ n \in {The("demo", m), The("triage", m)}
    BY <1>1, <1>2, <1>4, <2>1, <2>2, Inserts
  <2>4. j = The("execute", m)
    BY <2>1, <2>3, Children
  <2>5. ~Present(The("demo", m)) /\ ~Present(The("triage", m))
    <3>1. Waiting(j) /\ Present(j)
      BY <1>1, <1>2, StepIs DEF Waiting
    <3> QED BY <2>4, <3>1, WaitingLast
  <2> QED BY <1>2, <1>4, <2>1, <2>3, <2>5
<1>5. ASSUME NEW m \in Legs, Applying(m)' PROVE phase' = "DEPLOY_EXECUTE"
  <2> SUFFICES ASSUME Applying(m) PROVE phase' = "DEPLOY_EXECUTE"
    BY <1>1, <1>5, ApplyingRow
  <2>1. phase = "DEPLOY_EXECUTE"
    BY DEF Single
  <2>2. CASE Moves(w, j, r, N)
    <3>1. CASE phase' = phase \/ phase' = "DEPLOY_EXECUTE"
      BY <2>1, <3>1
    <3>2. CASE /\ Kind(j) = "execute" /\ r.at \in {"reviewing", "failing"}
      BY <1>1, <1>5, <2>2, <3>2, NothingElseApplied DEF Moves
    <3> QED BY <2>1, <2>2, <3>1, <3>2 DEF Moves
  <2>3. CASE UNCHANGED phase
    BY <2>1, <2>3
  <2> QED BY <1>1, <2>2, <2>3
      DEF Row, GivesUp, Breaks, Loads, Hands, Triages, Writes, Applies, Asks1, Quiet
<1> QED BY <1>3, <1>4, <1>5 DEF Single

\* Single is kept as long as no execution is handed back.
LEMMA SingleNext ==
  ASSUME Basis, [Next]_vars, Fresh("execute") => Single, Fresh("execute")'
  PROVE  Single'
<1>1. Fresh("execute") /\ Single
  BY FreshBefore
<1> QED BY <1>1, NextIs, SingleTables, SingleRow

-----------------------------------------------------------------------------
(* Designs                                                                 *)

\* The steps of the table bring no leg back to its design.
LEMMA UnspecifiedTables ==
  ASSUME Tables, Fresh("spec")', NEW m \in Legs, Unspecified(m)'
  PROVE  Unspecified(m)
<1> DEFINE x == The("spec", m)
<1>1. x \in Jobs /\ x \notin again' /\ x # NoJob
  BY TheIs, KindsAre, NullAssumption DEF Fresh
<1>2. CASE st'[x] \in {"absent", "ready", "awaiting_human"}
  <2>1. st'[x] = "absent" => st[x] = "absent"
    BY <1>1 DEF Tables, Rests, Present
  <2>2. st'[x] = "ready" => st[x] \in {"ready", "awaiting_human"}
    BY <1>1 DEF Tables, Rests, Renewed
  <2>3. st'[x] = "awaiting_human" =>
          st[x] = "awaiting_human" \/ \E v \in Workers : Leaving(v, x, "awaiting_human")
    BY <1>1 DEF Tables, Rests, Renewed
  <2> QED BY <1>2, <2>1, <2>2, <2>3 DEF Unspecified
<1>3. ASSUME NEW v \in Workers, doing'[v] = x
      PROVE  (doing[v] = x /\ run'[v] = run[v]) \/ (run'[v].at = "start" /\ st[x] = "ready")
  BY <1>1, <1>3 DEF Tables, Rests
<1>4. ASSUME NEW v \in Workers, On(v, x, {"start", "consented"})' PROVE Unspecified(m)
  BY <1>3, <1>4 DEF On, Unspecified
<1>5. ASSUME NEW v \in Workers, Leaving(v, x, "awaiting_human")' PROVE Unspecified(m)
  BY <1>3, <1>5 DEF Leaving, Unspecified
<1> QED BY <1>2, <1>4, <1>5 DEF Unspecified

\* Nor do they open one.
LEMMA OpeningTables ==
  ASSUME Basis, Tables, NEW m \in Legs, Opening(m)'
  PROVE  Opening(m)
<1>1. Rests /\ Kept
  BY DEF Tables
<1>2. PICK v \in Workers :
        \/ m = 0 /\ At(v, "bridge", "crossed")'
        \/ /\ Routing(v, "routed")' /\ Onward[Kind(doing'[v])][Of(v)'] = m
           /\ Target(Reply(Kind(doing[v]), Of(v)))' = "DEPLOY_DESIGN"
  BY DEF Opening
<1>3. doing'[v] # NoJob /\ doing'[v] = doing[v] /\ run'[v] = run[v] /\ Of(v)' = Of(v)
  BY <1>1, <1>2 DEF At, Routing, Rests, Of
<1>4. CASE m = 0 /\ At(v, "bridge", "crossed")'
  BY <1>3, <1>4 DEF Opening, At
<1>5. CASE /\ Routing(v, "routed")' /\ Onward[Kind(doing'[v])][Of(v)'] = m
           /\ Target(Reply(Kind(doing[v]), Of(v)))' = "DEPLOY_DESIGN"
  <2>1. Routing(v, "routed") /\ Kind(doing[v]) \in Routes /\ doing[v] # NoJob
    BY <1>3, <1>5 DEF Routing, At, Routes
  <2>2. Reply(Kind(doing[v]), Of(v))' = Reply(Kind(doing[v]), Of(v))
    BY <1>1, <1>3, <2>1, RouteIs DEF Kept, Reply
  <2>3. Target(Reply(Kind(doing[v]), Of(v)))' = Target(Reply(Kind(doing[v]), Of(v))')
    BY DEF Target
  <2> QED BY <1>3, <1>5, <2>1, <2>2, <2>3 DEF Opening
<1> QED BY <1>2, <1>4, <1>5

\* The steps of the table keep Designs.
LEMMA DesignsTables ==
  ASSUME Basis, Designs, Fresh("spec")', Tables
  PROVE  Designs'
<1>1. \A m \in Legs : Present(The("interview", m))' <=> Present(The("interview", m))
  BY TheIs, KindsAre DEF Tables, Rests
<1>2. ASSUME NEW m \in Legs, Designing(m)' PROVE Designing(m)
  BY <1>1, <1>2, UnspecifiedTables, OpeningTables DEF Designing
<1>3. UNCHANGED phase
  BY DEF Tables, Rests
<1> QED BY <1>2, <1>3 DEF Designs

\* Nor does a handler bring a leg back to its design.
LEMMA UnspecifiedRow ==
  ASSUME Basis, NEW w \in Workers, NEW j \in Jobs, NEW r \in RunRecords, NEW N \in SUBSET Jobs,
         Steps(w, j, r, N), Row(w, j, r, N), NEW m \in Legs, Unspecified(m)'
  PROVE  Unspecified(m)
<1> DEFINE x == The("spec", m)
<1>1. /\ doing[w] = j /\ UNCHANGED doing /\ run'[w] = r /\ \A v \in Workers \ {w} : run'[v] = run[v]
      /\ x \in Jobs /\ Kind(x) = "spec"
      /\ \A k \in Jobs : st'[k] = st[k] \/ (st[k] = "absent" /\ st'[k] = "ready" /\ k \in N)
  BY StepIs, TheIs, KindsAre
<1>2. CASE st'[x] \in {"absent", "ready", "awaiting_human"}
  BY <1>1, <1>2 DEF Unspecified
<1>3. ASSUME NEW v \in Workers, v # w,
             On(v, x, {"start", "consented"})' \/ Leaving(v, x, "awaiting_human")'
      PROVE  Unspecified(m)
  BY <1>1, <1>3 DEF On, Leaving, Unspecified
<1>4. ASSUME On(w, x, {"start", "consented"})' \/ Leaving(w, x, "awaiting_human")'
      PROVE  Unspecified(m)
  <2>1. /\ j = x
        /\ r.at \in {"start", "consented"} \/ (r.at = "settle" /\ r.out = "awaiting_human")
    BY <1>1, <1>4 DEF On, Leaving
  <2>2. run[w].at = "start"
    BY <2>1 DEF Row, GivesUp, Gives, Breaks, Loads, Hands, Triages, Writes, Applies, Moves, Asks1
  <2> QED BY <1>1, <2>1, <2>2 DEF On, Unspecified
<1> QED BY <1>2, <1>3, <1>4 DEF Unspecified

\* Worker w moves the project to the design of leg m.
OpensBridge(w, j, r, m) ==
  /\ m = 0 /\ ~Present(The("interview", 0)) /\ Kind(j) = "bridge" /\ r.at = "crossed"
  /\ phase' = IF phase = "DEPLOY" THEN "DEPLOY_DESIGN" ELSE phase
OpensRoute(w, j, r, m) ==
  /\ Kind(j) \in Routes /\ r.at = "routed" /\ Onward[Kind(j)][Leg(j)] = m
  /\ phase = "DEPLOY_REVIEW" /\ phase' = "DEPLOY_DESIGN"

\* What a handler begins to design, it has moved the project for.
LEMMA DesigningRow ==
  ASSUME Basis, NEW w \in Workers, NEW j \in Jobs, NEW r \in RunRecords, NEW N \in SUBSET Jobs,
         Steps(w, j, r, N), Row(w, j, r, N), NEW m \in Legs, Designing(m)'
  PROVE  Designing(m) \/ OpensBridge(w, j, r, m) \/ OpensRoute(w, j, r, m)
<1> DEFINE x == The("interview", m)
<1>1. /\ Kept /\ Placed(w) /\ Leg(j) \in Legs /\ doing[w] = j /\ UNCHANGED doing /\ run'[w] = r
      /\ \A v \in Workers \ {w} : run'[v] = run[v]
      /\ \A k \in Jobs : Present(k)' <=> Present(k) \/ k \in N
  BY StepIs, RowStores DEF Basis
<1>2. x \in Jobs /\ Kind(x) = "interview" /\ Leg(x) = m /\ j # NoJob
  BY TheIs, KindsAre, NullAssumption
<1>3. CASE Present(x)
  BY <1>1, <1>2, <1>3, UnspecifiedRow DEF Designing
<1>4. CASE ~Present(x) /\ x \in N
  <2>1. Child(w, j, x)
    BY <1>2, <1>4, Inserts
  <2>2. CASE Next3(w, j, x)
    <3>1. Kind(j) \in Routes /\ run[w].at = "routed"
      BY <2>2 DEF Next3
    <3>2. Routing(w, "routed") /\ Of(w) = Leg(j)
      BY <1>1, <1>2, <3>1 DEF Routing, At, Routes, Of
    <3>3. /\ Onward[Kind(j)][Leg(j)] = m
          /\ Target(Reply(Kind(j), Leg(j))) = "DEPLOY_DESIGN"
      BY <2>2, TheSame DEF Next3
    <3> QED BY <1>1, <1>4, <3>2, <3>3 DEF Designing, Opening
  <2>3. CASE j = Bridge /\ run[w].at = "crossed" /\ x = The("interview", 0)
    <3>1. At(w, "bridge", "crossed")
      BY <1>1, <1>2, <2>3, BridgeIs DEF At
    <3> QED BY <1>4, <2>3, <3>1, TheSame DEF Designing, Opening
  <2>4. \A k, n : x = The(k, n) => k = "interview"
    BY TheSame
  <2> HIDE DEF x
  <2> QED BY <2>1, <2>2, <2>3, <2>4 DEF Child, Next1, Next2
<1>5. CASE ~Present(x)'
  <2>1. Opening(m)' /\ ~Present(x)
    BY <1>1, <1>2, <1>5 DEF Designing
  <2>2. PICK v \in Workers :
          \/ m = 0 /\ At(v, "bridge", "crossed")'
          \/ /\ Routing(v, "routed")' /\ Onward[Kind(doing'[v])][Of(v)'] = m
             /\ Target(Reply(Kind(doing[v]), Of(v)))' = "DEPLOY_DESIGN"
    BY <2>1 DEF Opening
  <2>3. doing'[v] = doing[v] /\ Of(v)' = Of(v)
    BY <1>1 DEF Of
  <2>4. ASSUME Routing(v, "routed")'
        PROVE  Target(Reply(Kind(doing[v]), Of(v)))' = Target(Reply(Kind(doing[v]), Of(v)))
    <3>1. Kind(doing[v]) \in Routes /\ doing[v] # NoJob
      BY <2>3, <2>4 DEF Routing, At, Routes
    <3>2. Reply(Kind(doing[v]), Of(v))' = Reply(Kind(doing[v]), Of(v))
      BY <1>1, <2>3, <3>1, RouteIs DEF Kept, Reply
    <3>3. Target(Reply(Kind(doing[v]), Of(v)))' = Target(Reply(Kind(doing[v]), Of(v))')
      BY DEF Target
    <3> QED BY <3>2, <3>3
  <2>5. CASE v # w
    <3>1. run'[v] = run[v]
      BY <1>1, <2>5
    <3>2. /\ At(v, "bridge", "crossed")' => At(v, "bridge", "crossed")
          /\ Routing(v, "routed")' => Routing(v, "routed")
      BY <2>3, <3>1 DEF At, Routing
    <3> QED BY <2>1, <2>2, <2>3, <2>4, <3>2 DEF Designing, Opening
  <2>6. CASE v = w
    <3>1. CASE m = 0 /\ At(v, "bridge", "crossed")'
      <4>1. Kind(j) = "bridge" /\ r.at = "crossed"
        BY <1>1, <2>3, <2>6, <3>1 DEF At
      <4>2. phase' = IF phase = "DEPLOY" THEN "DEPLOY_DESIGN" ELSE phase
        BY <4>1
           DEF Row, GivesUp, Gives, Breaks, Loads, Hands, Triages, Writes, Applies, Moves, Asks1
      <4> QED BY <2>1, <3>1, <4>1, <4>2 DEF OpensBridge
    <3>2. CASE /\ Routing(v, "routed")' /\ Onward[Kind(doing'[v])][Of(v)'] = m
               /\ Target(Reply(Kind(doing[v]), Of(v)))' = "DEPLOY_DESIGN"
      <4>1. r.at = "routed" /\ Of(w) = Leg(j) /\ Kind(j) \in Routes
        BY <1>1, <2>3, <2>6, <3>2 DEF At, Routing, Of, Routes
      <4>2. phase = "DEPLOY_REVIEW" /\ phase' = Target(Reply(Kind(j), Leg(j)))
        BY <4>1
           DEF Row, GivesUp, Gives, Breaks, Loads, Hands, Triages, Writes, Applies, Moves, Asks1
      <4> QED BY <1>1, <2>3, <2>4, <2>6, <3>2, <4>1, <4>2 DEF OpensRoute
    <3> QED BY <2>2, <3>1, <3>2
  <2> QED BY <2>5, <2>6
<1> QED BY <1>1, <1>2, <1>3, <1>4, <1>5

\* A step of a handler keeps Designs.
LEMMA DesignsRow ==
  ASSUME Basis, Designs, Fresh("spec"), NEW w \in Workers, Rowed(w)
  PROVE  Designs'
<1>1. PICK j \in Jobs, r \in RunRecords, N \in SUBSET Jobs :
        Steps(w, j, r, N) /\ Row(w, j, r, N)
  BY DEF Rowed
<1>2. /\ Lineage /\ Tabled /\ doing[w] = j /\ Present(j) /\ Leg(j) \in Legs /\ j # NoJob
      /\ UNCHANGED doing /\ run'[w] = r /\ \A v \in Workers \ {w} : run'[v] = run[v]
      /\ \A k \in Jobs : /\ Present(k)' <=> Present(k) \/ k \in N
                         /\ st'[k] = st[k] \/ (st[k] = "absent" /\ st'[k] = "ready" /\ k \in N)
  BY <1>1, StepIs, NullAssumption DEF Basis
<1>3. CASE \E m \in Legs : OpensBridge(w, j, r, m)
  <2>1. /\ \A k \in Jobs \ {Bridge} : ~Present(k)
        /\ phase' = "DEPLOY_DESIGN"
    BY <1>2, <1>3 DEF OpensBridge, Lineage
  <2>2. ASSUME NEW m \in Legs, Designing(m) PROVE m = 0
    <3>1. ~Present(The("interview", m))
      BY <2>1, TheIs, KindsAre
    <3>2. PICK v \in Workers :
            \/ m = 0 /\ At(v, "bridge", "crossed")
            \/ Routing(v, "routed")
      BY <2>2, <3>1 DEF Designing, Opening
    <3>3. CASE Routing(v, "routed")
      <4>1. doing[v] # NoJob /\ Kind(doing[v]) \in Routes
        BY <3>3 DEF Routing, At, Routes
      <4>2. /\ Of(v) \in Legs /\ Present(The(Kind(doing[v]), Of(v)))
            /\ The(Kind(doing[v]), Of(v)) \in Jobs \ {Bridge}
        BY <4>1, RouteIs, TheIs, KindsAre
      <4> QED BY <2>1, <4>2
    <3> QED BY <3>2, <3>3
  <2>3. ASSUME NEW m \in Legs, OpensBridge(w, j, r, m) \/ OpensRoute(w, j, r, m) PROVE m = 0
    <3>1. Kind(j) \notin Routes
      BY <1>3 DEF OpensBridge, Routes
    <3> QED BY <2>3, <3>1 DEF OpensBridge, OpensRoute
  <2>4. \A m \in Legs : Designing(m)' => m = 0
    BY <1>1, <2>2, <2>3, DesigningRow
  <2> QED BY <2>1, <2>4 DEF Designs
<1>4. CASE \E m \in Legs : OpensRoute(w, j, r, m)
  <2>1. phase = "DEPLOY_REVIEW" /\ phase' = "DEPLOY_DESIGN" /\ Kind(j) \in Routes
    BY <1>4 DEF OpensRoute
  <2>2. \A m \in Legs : ~Designing(m) /\ ~OpensBridge(w, j, r, m)
    BY <2>1 DEF Designs, OpensBridge, Routes
  <2>3. \A m \in Legs : Designing(m)' => m = Onward[Kind(j)][Leg(j)]
    BY <1>1, <2>2, DesigningRow DEF OpensRoute
  <2> QED BY <2>1, <2>3 DEF Designs
<1>5. CASE \A m \in Legs : ~OpensBridge(w, j, r, m) /\ ~OpensRoute(w, j, r, m)
  <2>1. \A m \in Legs : Designing(m)' => Designing(m)
    BY <1>1, <1>5, DesigningRow
  <2>2. ASSUME NEW m \in Legs, Designing(m)' PROVE phase' = "DEPLOY_DESIGN"
    <3>1. Designing(m) /\ phase = "DEPLOY_DESIGN"
      BY <2>1, <2>2 DEF Designs
    <3>2. CASE Kind(j) = "spec" /\ run[w].at = "consented" /\ r.at = "entered" /\ N = {}
      <4>1. PICK p \in Legs : p = Leg(j) /\ j = The("spec", p)
        BY <1>2, <3>2, JobIs, BridgeIs
      <4>2. Present(The("interview", p))
        BY <1>2, <4>1, Begins
      <4>3. Unspecified(p)
        BY <1>2, <3>2, <4>1 DEF Unspecified, On
      <4>4. m = p
        BY <3>1, <4>2, <4>3 DEF Designing, Designs
      <4>5. st[j] = "leased" /\ \A v \in Workers : doing[v] = j => v = w
        BY <1>2, <3>2 DEF Tabled, Fresh
      <4>6. st'[j] = "leased"
        BY <1>2, <4>5
      <4>7. ~Unspecified(p)'
        BY <1>2, <3>2, <4>1, <4>5, <4>6 DEF Unspecified, On, Leaving
      <4>8. Present(The("interview", p))'
        BY <1>2, <4>2, TheIs, KindsAre
      <4> QED BY <2>2, <4>4, <4>7, <4>8 DEF Designing
    <3>3. CASE phase' = phase
      BY <3>1, <3>3
    <3> QED BY <1>1, <3>1, <3>2, <3>3
        DEF Row, GivesUp, Breaks, Loads, Hands, Triages, Writes, Applies, Asks1, Quiet, Moves
  <2> QED BY <2>1, <2>2 DEF Designs
<1> QED BY <1>3, <1>4, <1>5

\* Designs is kept as long as no acceptance is handed back.
LEMMA DesignsNext ==
  ASSUME Basis, [Next]_vars, Fresh("spec") => Designs, Fresh("spec")'
  PROVE  Designs'
<1>1. Fresh("spec") /\ Designs
  BY FreshBefore
<1> QED BY <1>1, NextIs, DesignsTables, DesignsRow

-----------------------------------------------------------------------------
(* Accepts                                                                 *)

\* A leg that has a spec, or whose spec is being stored, has been asked about.
LEMMA ProposedIs ==
  ASSUME Basis, NEW m \in Legs, Unspecified(m),
         \/ Present(The("spec", m))
         \/ \E w \in Workers : doing[w] = The("synthesize", m)
  PROVE  Designing(m)
<1>1. Lineage /\ Tabled
  BY DEF Basis
<1>2. The("synthesize", m) # NoJob
  BY TheIs, KindsAre, NullAssumption
<1>3. Present(The("interview", m))
  BY <1>1, <1>2, Begins DEF Tabled
<1> QED BY <1>3 DEF Designing

\* An interview or a synthesis that was never handed back and is at work is of a leg
\* that is being designed.
LEMMA DesigningStill ==
  ASSUME Basis, NEW w \in Workers, NEW m \in Legs, run[w].at = "start",
         \/ Fresh("interview") /\ doing[w] = The("interview", m)
         \/ Fresh("synthesize") /\ doing[w] = The("synthesize", m)
  PROVE  /\ Designing(m) /\ ~Present(The("spec", m))
         /\ doing[w] = The("interview", m) => ~Present(The("synthesize", m))
<1> DEFINE j == doing[w]
<1>1. /\ Lineage /\ Firstborn /\ Tabled
      /\ \A k \in {"interview", "synthesize"} :
           The(k, m) \in Jobs /\ Kind(The(k, m)) = k /\ Leg(The(k, m)) = m
  BY TheIs, KindsAre DEF Basis
<1>2. j \in Jobs /\ j \notin again /\ j # NoJob /\ Present(j)
  BY <1>1, NullAssumption DEF Fresh, Tabled
<1>3. Unborn(j)
  BY <1>1, <1>2 DEF Firstborn, Waiting
<1>4. Present(The("interview", m))
  BY <1>1, <1>2, Begins
<1>5. /\ ~Present(The("spec", m))
      /\ j = The("interview", m) => ~Present(The("synthesize", m))
  <2>1. CASE j = The("interview", m)
    <3>1. ~Present(The("synthesize", m))
      BY <1>1, <1>3, <2>1 DEF Unborn
    <3> QED BY <1>1, <3>1 DEF Lineage
  <2>2. CASE j = The("synthesize", m)
    BY <1>1, <1>3, <2>2, TheSame DEF Unborn
  <2> QED BY <2>1, <2>2
<1>6. Unspecified(m)
  BY <1>5 DEF Unspecified, Present
<1> QED BY <1>4, <1>5, <1>6 DEF Designing

\* The steps of the table keep Accepts.
LEMMA AcceptsTables ==
  ASSUME Basis, Accepts, Fresh("spec")', Tables,
         Fresh("interview")' => Fresh("interview")
  PROVE  Accepts'
<1>1. /\ Rests /\ TypeOK' /\ UNCHANGED <<dspec, elicited, consent, deployed>>
      /\ accepted \subseteq accepted'
  BY DEF Tables, Rests
<1>2. ASSUME NEW k \in Kinds, NEW m \in Legs
      PROVE  /\ The(k, m) \in Jobs /\ The(k, m) # NoJob
             /\ Present(The(k, m))' <=> Present(The(k, m))
  BY <1>1, TheIs, NullAssumption DEF Rests
<1>3. ASSUME Fresh("interview")', NEW m \in Legs, Proposed(m)' PROVE dspec' = elicited'
  <2>1. Proposed(m)
    <3>1. Unspecified(m) /\ Present(The("interview", m))
      BY <1>2, <1>3, UnspecifiedTables, KindsAre DEF Proposed
    <3>2. CASE Present(The("spec", m))'
      BY <1>2, <3>1, <3>2, KindsAre DEF Proposed
    <3>3. ASSUME NEW v \in Workers, On(v, The("synthesize", m), {"saved"})'
          PROVE  On(v, The("synthesize", m), {"saved"})
      BY <1>1, <1>2, <3>3, KindsAre DEF On, Rests
    <3> QED BY <1>3, <3>1, <3>2, <3>3 DEF Proposed
  <2> QED BY <1>1, <1>3, <2>1 DEF Accepts, Fresh, RunAgain
<1>4. ASSUME NEW m \in Legs, Consenting(m)' PROVE dspec' \in accepted'
  <2> DEFINE x == The("spec", m)
  <2>1. x \in Jobs /\ x # NoJob /\ x \notin again'
    BY <1>2, TheIs, KindsAre DEF Fresh
  <2>2. gate'[x] = "accept" /\ (gate[x] = "accept" \/ dspec \in accepted')
    BY <1>1, <1>4, <2>1 DEF Consenting, Rests
  <2>3. ASSUME gate[x] = "accept" PROVE Consenting(m)
    <3>1. st'[x] = "ready" => st[x] = "ready"
      BY <1>1, <2>1, <2>3 DEF Rests, Renewed
    <3>2. ASSUME NEW v \in Workers, On(v, x, {"start"})'
          PROVE  On(v, x, {"start"}) \/ st[x] = "ready"
      BY <1>1, <2>1, <3>2 DEF On, Rests
    <3> QED BY <1>4, <2>3, <3>1, <3>2 DEF Consenting
  <2> QED BY <1>1, <2>2, <2>3 DEF Accepts
<1>5. ASSUME NEW v \in Workers, run'[v].at = "loaded" PROVE run'[v].target \in accepted'
  <2>1. doing'[v] # NoJob
    BY <1>1, <1>5 DEF TypeOK
  <2>2. run'[v] = run[v]
    BY <1>1, <1>5, <2>1 DEF Rests
  <2> QED BY <1>1, <1>5, <2>2 DEF Accepts
<1>6. consent' \in accepted' \cup {NoScope} /\ DeployedAsAccepted'
  BY <1>1 DEF Accepts, DeployedAsAccepted
<1> QED BY <1>3, <1>4, <1>5, <1>6 DEF Accepts, Fresh, RunAgain

\* What is proposed after a step was, or is what the step stores.
LEMMA ProposedRow ==
  ASSUME Basis, NEW w \in Workers, NEW j \in Jobs, NEW r \in RunRecords, NEW N \in SUBSET Jobs,
         Steps(w, j, r, N), Row(w, j, r, N), NEW m \in Legs, Proposed(m)'
  PROVE  /\ Proposed(m) \/ (dspec' = elicited /\ UNCHANGED elicited)
         /\ Unspecified(m)
<1> DEFINE x == The("spec", m)
<1> DEFINE y == The("synthesize", m)
<1>1. /\ doing[w] = j /\ UNCHANGED doing /\ run'[w] = r /\ \A v \in Workers \ {w} : run'[v] = run[v]
      /\ \A k \in Jobs : Present(k)' <=> Present(k) \/ k \in N
  BY StepIs
<1>2. /\ x \in Jobs /\ Kind(x) = "spec" /\ Leg(x) = m
      /\ y \in Jobs /\ Kind(y) = "synthesize" /\ Leg(y) = m /\ y # NoJob
  BY TheIs, KindsAre, NullAssumption
<1>3. Unspecified(m)
  BY UnspecifiedRow DEF Proposed
<1>4. ASSUME Present(x) \/ \E v \in Workers : On(v, y, {"saved"}) PROVE Proposed(m)
  <2>1. Present(The("interview", m))
    BY <1>2, <1>4, Begins DEF On, Basis, Tabled
  <2> QED BY <1>3, <1>4, <2>1 DEF Proposed
<1>5. CASE Present(x)' /\ ~Present(x)
  <2>1. Child(w, j, x)
    BY <1>1, <1>2, <1>5, Inserts
  <2>2. j = y
    BY <1>2, <2>1, Children
  <2>3. run[w].at = "saved"
    BY <1>2, <2>1, <2>2, BridgeIs DEF Child, Next1, Next2, Next3, Routes
  <2> QED BY <1>1, <1>3, <1>4, <2>2, <2>3 DEF On
<1>6. ASSUME NEW v \in Workers, On(v, y, {"saved"})'
      PROVE  Proposed(m) \/ (dspec' = elicited /\ UNCHANGED elicited)
  <2>1. CASE v # w
    BY <1>1, <1>4, <1>6, <2>1 DEF On
  <2>2. CASE v = w
    <3>1. j = y /\ r.at = "saved"
      BY <1>1, <1>6, <2>2 DEF On
    <3> QED BY <3>1
        DEF Row, GivesUp, Gives, Breaks, Loads, Hands, Triages, Writes, Applies, Moves, Asks1
  <2> QED BY <2>1, <2>2
<1> QED BY <1>3, <1>4, <1>5, <1>6 DEF Proposed

\* What is accepted after a step was.
LEMMA ConsentingRow ==
  ASSUME Basis, NEW w \in Workers, NEW j \in Jobs, NEW r \in RunRecords, NEW N \in SUBSET Jobs,
         Steps(w, j, r, N), Row(w, j, r, N), NEW m \in Legs, Consenting(m)'
  PROVE  Consenting(m) /\ Present(The("spec", m)) /\ Unspecified(m)
<1> DEFINE x == The("spec", m)
<1>1. /\ doing[w] = j /\ UNCHANGED doing /\ run'[w] = r /\ \A v \in Workers \ {w} : run'[v] = run[v]
      /\ \A k \in Jobs : st'[k] = st[k] \/ (st[k] = "absent" /\ st'[k] = "ready" /\ k \in N)
      /\ Raised /\ Tabled /\ StoresTyped
  BY StepIs, Typed DEF Basis
<1>2. x \in Jobs /\ x # NoJob
  BY TheIs, KindsAre, NullAssumption
<1>3. gate[x] = "accept"
  <2>1. UNCHANGED gate \/ gate' = [gate EXCEPT ![j] = "open"]
    BY DEF Row, GivesUp, Gives, Breaks, Loads, Hands, Triages, Writes, Applies, Moves, Asks1, Quiet
  <2> QED BY <1>1, <1>2, <2>1 DEF Consenting, StoresTyped
<1>4. Present(x)
  BY <1>1, <1>2, <1>3 DEF Raised
<1>5. st'[x] = "ready" => st[x] = "ready"
  BY <1>1, <1>2, <1>4 DEF Present
<1>6. ASSUME NEW v \in Workers, On(v, x, {"start"})' PROVE On(v, x, {"start"})
  <2>1. v # w
    <3>1. r.at # "start"
      BY DEF Row, GivesUp, Gives, Breaks, Loads, Hands, Triages, Writes, Applies, Moves, Asks1
    <3> QED BY <1>1, <1>6, <3>1 DEF On
  <2> QED BY <1>1, <1>6, <2>1 DEF On
<1>7. Consenting(m)
  BY <1>3, <1>5, <1>6 DEF Consenting
<1>8. Unspecified(m)
  BY <1>7 DEF Consenting, Unspecified, On
<1> QED BY <1>4, <1>7, <1>8

\* A step of a handler keeps Accepts.
LEMMA AcceptsRow ==
  ASSUME Basis, Designs, Accepts, Fresh("interview") \/ Fresh("synthesize"), NEW w \in Workers,
         Rowed(w)
  PROVE  Accepts'
<1>1. PICK j \in Jobs, r \in RunRecords, N \in SUBSET Jobs :
        Steps(w, j, r, N) /\ Row(w, j, r, N)
  BY DEF Rowed
<1>2. /\ doing[w] = j /\ Present(j) /\ Leg(j) \in Legs /\ j # NoJob /\ Stored /\ Lineage
      /\ run'[w] = r /\ \A v \in Workers \ {w} : run'[v] = run[v]
      /\ UNCHANGED <<accepted, again>>
  BY <1>1, StepIs, NullAssumption DEF Basis
<1>3. \A kind \in Kinds : Kind(j) = kind => j = The(kind, Leg(j))
  BY JobIs, BridgeIs DEF Kinds
<1>4. ASSUME Fresh("interview"), NEW m \in Legs, Proposed(m)' PROVE dspec' = elicited'
  <2>1. CASE dspec' = elicited /\ UNCHANGED elicited
    BY <2>1
  <2>2. CASE Proposed(m)
    <3>1. dspec = elicited
      BY <1>4, <2>2 DEF Accepts, Fresh, RunAgain
    <3>2. Designing(m)
      BY <2>2 DEF Proposed, Designing
    <3>3. CASE UNCHANGED <<elicited, dspec>>
      BY <3>1, <3>3
    <3>4. CASE Kind(j) = "interview" /\ run[w].at = "start"
      <4>1. PICK p \in Legs : p = Leg(j) /\ j = The("interview", p)
        BY <1>2, <1>3, <3>4, KindsAre
      <4>2. /\ Designing(p) /\ ~Present(The("spec", p)) /\ ~Present(The("synthesize", p))
        BY <1>2, <1>4, <3>4, <4>1, DesigningStill
      <4>3. m = p
        BY <3>2, <4>2 DEF Designs
      <4>4. ~Proposed(p)
        <5>1. The("synthesize", p) \in Jobs /\ The("synthesize", p) # NoJob
          BY TheIs, KindsAre, NullAssumption
        <5> QED BY <4>2, <5>1 DEF Proposed, On, Basis, Tabled
      <4> QED BY <2>2, <4>3, <4>4
    <3>5. CASE dspec' = elicited /\ UNCHANGED elicited
      BY <3>5
    <3> QED BY <1>1, <3>3, <3>4, <3>5
        DEF Row, GivesUp, Breaks, Loads, Hands, Triages, Writes, Applies, Asks1, Quiet, Moves
  <2> QED BY <1>1, <1>4, <2>1, <2>2, ProposedRow
<1>5. ASSUME NEW m \in Legs, Consenting(m)' PROVE dspec' \in accepted'
  <2>1. Consenting(m) /\ Present(The("spec", m)) /\ Unspecified(m) /\ dspec \in accepted
    BY <1>1, <1>5, ConsentingRow DEF Accepts
  <2>2. CASE UNCHANGED dspec
    BY <1>2, <2>1, <2>2
  <2>3. CASE Kind(j) = "synthesize" /\ run[w].at = "start" /\ dspec' = elicited
    <3>1. Designing(m) /\ Present(The("interview", m))
      BY <1>2, <2>1, ProposedIs, Begins
    <3>2. CASE Fresh("synthesize")
      <4>1. PICK p \in Legs : p = Leg(j) /\ j = The("synthesize", p)
        BY <1>2, <1>3, <2>3, KindsAre
      <4>2. Designing(p) /\ ~Present(The("spec", p))
        BY <1>2, <2>3, <3>2, <4>1, DesigningStill
      <4>3. m = p
        BY <3>1, <4>2 DEF Designs
      <4> QED BY <2>1, <4>2, <4>3
    <3>3. CASE Fresh("interview")
      <4>1. Proposed(m)
        BY <2>1, <3>1 DEF Proposed
      <4>2. dspec = elicited
        BY <3>3, <4>1 DEF Accepts, Fresh, RunAgain
      <4> QED BY <1>2, <2>1, <2>3, <4>2
    <3> QED BY <3>2, <3>3
  <2> QED BY <1>1, <2>2, <2>3
      DEF Row, GivesUp, Breaks, Loads, Hands, Triages, Writes, Applies, Asks1, Quiet, Moves
<1>6. consent' \in accepted' \cup {NoScope}
  <2>1. CASE UNCHANGED consent
    BY <1>2, <2>1 DEF Accepts
  <2>2. CASE Kind(j) = "spec" /\ run[w].at = "start" /\ gate[j] = "accept" /\ consent' = dspec
    <3>1. j = The("spec", Leg(j))
      BY <1>3, <2>2, KindsAre
    <3>2. Consenting(Leg(j))
      BY <1>2, <2>2, <3>1 DEF Consenting, On
    <3> QED BY <1>2, <2>2, <3>2 DEF Accepts
  <2> QED BY <1>1, <2>1, <2>2
      DEF Row, GivesUp, Breaks, Loads, Hands, Triages, Writes, Applies, Asks1, Quiet, Moves
<1>7. ASSUME NEW v \in Workers, run'[v].at = "loaded" PROVE run'[v].target \in accepted'
  <2>1. CASE v # w
    BY <1>2, <1>7, <2>1 DEF Accepts
  <2>2. CASE v = w
    <3>1. Kind(j) = "execute" /\ consent = dspec /\ r.target = dspec
      BY <1>1, <1>2, <1>7, <2>2
         DEF Row, GivesUp, Gives, Breaks, Loads, Hands, Triages, Writes, Applies, Moves, Asks1
    <3>2. dspec # NoScope
      BY <1>2, <3>1 DEF Stored
    <3> QED BY <1>2, <2>2, <3>1, <3>2 DEF Accepts
  <2> QED BY <2>1, <2>2
<1>8. DeployedAsAccepted'
  <2>1. CASE UNCHANGED deployed
    BY <1>2, <2>1 DEF Accepts, DeployedAsAccepted
  <2>2. CASE run[w].at = "loaded" /\ deployed' = deployed \cup {<<Leg(j), run[w].target>>}
    <3>1. run[w].target \in accepted
      BY <2>2 DEF Accepts
    <3> QED BY <1>2, <2>2, <3>1 DEF Accepts, DeployedAsAccepted
  <2> QED BY <1>1, <2>1, <2>2
      DEF Row, GivesUp, Breaks, Loads, Hands, Triages, Writes, Applies, Asks1, Quiet, Moves
<1> QED BY <1>2, <1>4, <1>5, <1>6, <1>7, <1>8 DEF Accepts, Fresh, RunAgain

-----------------------------------------------------------------------------
(* The theorems                                                            *)

\* Whether a kind was handed back, as the properties say it.
LEMMA FreshIs ==
  /\ \A kind : RunAgain({kind}) <=> ~Fresh(kind)
  /\ Seldom <=> Fresh("spec") /\ (Fresh("interview") \/ Fresh("synthesize"))
BY DEF RunAgain, Fresh, Seldom

\* A deployment starts with the bridge and nothing else.
LEMMA Starts ==
  ASSUME Init
  PROVE  IInv
<1>1. /\ \A k \in Jobs : st[k] = (IF k = Bridge THEN "ready" ELSE "absent") /\ gate[k] = "none"
      /\ \A k \in Jobs : holder[k] = NoWorker
      /\ \A w \in Workers : doing[w] = NoJob /\ run[w] = Idle
      /\ phase = "DEPLOY" /\ cycle = 1 /\ deployed = {} /\ accepted = {} /\ again = {} /\ faults = 0
      /\ elicited = NoScope /\ dspec = NoScope /\ consent = NoScope
  BY DEF Init
<1>2. Idle \in RunRecords /\ Idle.at = "idle" /\ Idle.out = "ready"
  BY DEF Idle, RunRecords, Places, Outcomes, Targets
<1>3. \A k \in Jobs : k # NoJob /\ (Present(k) <=> k = Bridge)
  BY <1>1, NullAssumption DEF Present
<1>4. \A k \in Kinds, m \in Legs : The(k, m) \in Jobs /\ ~Present(The(k, m))
  BY <1>3, TheIs
<1>5. 0 \in Legs /\ \A m \in Legs : ~Begun(m)
  BY <1>4, KindsAre, LegAssumption DEF Begun
<1>6. TypeOK
  <2>1. TableTyped
    BY DEF Init, TableTyped, RowStates, Outcomes
  <2>2. phase \in Machine!Phases
    BY <1>1 DEF Machine!Phases, Machine!Edges
  <2>3. gate \in [Jobs -> Gates]
    BY DEF Init, Gates
  <2>4. StoresTyped
    BY <1>1, <2>2, <2>3, FaultAssumption DEF StoresTyped, Targets
  <2>5. run \in [Workers -> RunRecords]
    BY <1>2 DEF Init
  <2> QED BY <1>1, <1>2, <2>1, <2>4, <2>5, Typed
<1>7. Tabled /\ Gated /\ Raised /\ Stored
  <2>1. Tabled
    BY <1>1, <1>3, NullAssumption DEF Tabled
  <2>2. Gated /\ Raised
    BY <1>1 DEF Gated, Raised
  <2> QED BY <1>3, <2>1, <2>2, BridgeIs DEF Stored
<1>8. Lineage
  <2>1. Present(Bridge) /\ \A j \in Jobs \ {Bridge} : ~Present(j)
    BY <1>3, BridgeIs
  <2>2. \A k \in Routes, m \in Legs :
          Onward[k][m] # NoLeg =>
            ~Begun(Onward[k][m]) /\ ~Present(The("interview", Onward[k][m]))
    BY <1>4, <1>5, OnwardIs, KindsAre
  <2> QED BY <1>1, <1>4, <2>1, <2>2, KindsAre DEF Lineage
<1>9. Continued /\ Firstborn /\ Retried
  <2>1. \A k \in Jobs : ~Over(k) /\ ~Lost(k)
    BY <1>1, <1>3 DEF Over, Lost, Leaving
  <2>2. \A k \in Jobs : Waiting(k) => k = Bridge
    BY <1>1, <1>3 DEF Waiting
  <2>3. Firstborn
    BY <2>2, BridgeIs DEF Firstborn, Unborn
  <2> QED BY <2>1, <2>3 DEF Continued, Retried
<1>10. Ends
  <2>1. Last(0)
    BY <1>5, OnwardIs DEF Last, Reached
  <2> QED BY <1>5, <2>1 DEF Ends
<1>11. Basis
  BY <1>1, <1>6, <1>7, <1>8, <1>9, <1>10 DEF Basis
<1>12. Sound
  BY <1>1, <1>3 DEF Sound, Leaving, Lost
<1>13. Single
  <2>1. \A m \in Legs : Last(m) => m = 0
    BY <1>5 DEF Last, Reached
  <2>2. \A m \in Legs : ~Applying(m)
    BY <1>1, <1>3, <1>4, KindsAre DEF Applying, On, At, Routing, Pending, Present
  <2> QED BY <1>4, <2>1, <2>2, KindsAre DEF Single
<1>14. Designs
  BY <1>1, <1>4, KindsAre DEF Designs, Designing, Opening, At, Routing
<1>15. Accepts
  BY <1>1, <1>2, <1>4, KindsAre DEF Accepts, Proposed, Consenting, DeployedAsAccepted
<1> QED BY <1>11, <1>12, <1>13, <1>14, <1>15 DEF IInv

\* Every step keeps the invariant.
LEMMA Keeps ==
  ASSUME IInv, [Next]_vars
  PROVE  IInv'
<1>1. Basis /\ Sound
  BY DEF IInv
<1>2. Basis'
  BY <1>1, NextIs, BasisTables, BasisRow
<1>3. Sound'
  BY <1>1, SoundNext
<1>4. (Fresh("execute") => Single) /\ (Fresh("spec") => Designs) /\ (Seldom => Accepts)
  BY FreshIs DEF IInv
<1>5. /\ \A kind : RunAgain({kind})' <=> ~Fresh(kind)'
      /\ Seldom' <=> Fresh("spec")' /\ (Fresh("interview")' \/ Fresh("synthesize")')
  BY DEF RunAgain, Fresh, Seldom
<1>6. Fresh("execute")' => Single'
  BY <1>1, <1>4, SingleNext
<1>7. Fresh("spec")' => Designs'
  BY <1>1, <1>4, DesignsNext
<1>8. ASSUME Seldom' PROVE Accepts'
  <2>1. Fresh("spec")' /\ (Fresh("interview")' => Fresh("interview"))
    BY <1>1, <1>5, <1>8, FreshBefore
  <2>2. Fresh("spec") /\ (Fresh("interview") \/ Fresh("synthesize"))
    BY <1>1, <1>5, <1>8, FreshBefore
  <2>3. Designs /\ Accepts
    BY <1>4, <2>2, FreshIs
  <2> QED BY <1>1, <2>1, <2>2, <2>3, NextIs, AcceptsTables, AcceptsRow
<1> QED BY <1>2, <1>3, <1>5, <1>6, <1>7, <1>8 DEF IInv

\* The invariant of every deployment.
THEOREM Invariance == Spec => []IInv
<1>1. Init => IInv
  BY Starts
<1>2. IInv /\ [Next]_vars => IInv'
  BY Keeps
<1> QED BY <1>1, <1>2, PTL DEF Spec

\* The type invariant.
THEOREM TypeCorrect == Spec => []TypeOK
<1>1. IInv => TypeOK
  BY DEF IInv, Basis
<1> QED BY <1>1, Invariance, PTL

\* Nothing is applied to a target that no human accepted, unless an acceptance runs a
\* second time, or both an interview and a synthesis do.
THEOREM AcceptedIsDeployed == Spec => []DeployedAsAcceptedOnce
<1>1. IInv => DeployedAsAcceptedOnce
  BY DEF IInv, Seldom, Accepts, DeployedAsAcceptedOnce
<1> QED BY <1>1, Invariance, PTL

\* The cloud is touched in DEPLOY_EXECUTE only, unless an execution is run a second time.
THEOREM AppliedInExecute == Spec => AppliesInExecute
<1>1. IInv /\ [Next]_vars =>
        [deployed' # deployed => RunAgain({"execute"}) \/ phase = "DEPLOY_EXECUTE"]_deployed
  <2> SUFFICES ASSUME IInv, [Next]_vars, deployed' # deployed, ~RunAgain({"execute"})
               PROVE  phase = "DEPLOY_EXECUTE"
    OBVIOUS
  <2>1. Basis /\ Single
    BY DEF IInv
  <2>2. PICK w \in Workers : Rowed(w)
    BY <2>1, NextIs DEF Tables, Rests
  <2>3. PICK j \in Jobs, r \in RunRecords, N \in SUBSET Jobs :
          Steps(w, j, r, N) /\ Row(w, j, r, N)
    BY <2>2 DEF Rowed
  <2>4. Kind(j) = "execute" /\ run[w].at = "loaded" /\ doing[w] = j
    BY <2>3 DEF Row, Steps, GivesUp, Breaks, Loads, Hands, Triages, Writes, Applies, Asks1, Quiet,
                Moves
  <2>5. Leg(j) \in Legs /\ j = The("execute", Leg(j))
    BY <2>4, JobIs, BridgeIs
  <2>6. Applying(Leg(j))
    BY <2>4, <2>5 DEF Applying, On
  <2> QED BY <2>1, <2>5, <2>6 DEF Single
<1> QED BY <1>1, Invariance, PTL DEF Spec, AppliesInExecute

\* As long as one fault at most has happened, only a second run of a job that moves the
\* phase can leave the project with nobody to go on.
THEOREM NotStrandedWithoutReplay == Spec => []StrandedOnlyByReplay
<1>1. IInv => StrandedOnlyByReplay
  <2> SUFFICES ASSUME IInv, ~(faults > 1), ~RunAgain(Movers), ~NotStranded PROVE FALSE
    BY DEF StrandedOnlyByReplay
  <2>1. /\ TypeOK /\ TableTyped /\ Lineage /\ Continued /\ Retried /\ Sound
        /\ faults \in Nat
    BY Typed, FaultAssumption DEF IInv, Basis, StoresTyped
  <2>2. \A j \in Jobs : st[j] # "failed"
    <3> SUFFICES ASSUME NEW j \in Jobs, st[j] = "failed" PROVE FALSE
      OBVIOUS
    <3>1. faults \in {0, 1}
      BY <2>1
    <3>2. Lost(j) /\ j \in again /\ Kind(j) \in Movers
      BY <2>1, <3>1 DEF Lost, Retried, Sound
    <3> QED BY <3>2 DEF RunAgain
  <2>3. ASSUME NEW j \in Jobs, Present(j) PROVE Followed(j)
    <3>1. st[j] = "succeeded"
      BY <2>1, <2>2, <2>3 DEF NotStranded, Unsettled, TableTyped, RowStates, Outcomes, Present
    <3> QED BY <2>1, <3>1 DEF Continued, Over
  <2>4. PICK n \in Legs : Last(n)
    BY DEF IInv, Basis, Ends
  <2>5. ASSUME NEW k \in Kinds, Present(The(k, n)) PROVE Followed(The(k, n))
    BY <2>3, <2>5, TheIs
  <2>6. \A k \in Kinds : Kind(The(k, n)) = k /\ Leg(The(k, n)) = n
    BY TheIs
  <2>7. Present(The("interview", n)) \/ Present(The("execute", n))
    <3>1. Present(The("interview", 0))
      BY <2>1, <2>3, BridgeIs DEF Lineage, Followed
    <3> QED BY <2>4, <3>1 DEF Last, Reached, Begun
  <2>8. /\ Present(The("interview", n)) => Present(The("synthesize", n))
        /\ Present(The("synthesize", n)) => Present(The("spec", n))
        /\ Present(The("spec", n)) => Present(The("execute", n))
        /\ Present(The("execute", n)) => Present(The("demo", n))
        /\ Present(The("demo", n)) => Present(The("route demo", n))
    BY <2>5, <2>6, KindsAre DEF Followed
  <2>9. Followed(The("route demo", n))
    BY <2>5, <2>7, <2>8, KindsAre DEF Routes
  <2>10. /\ Kind(The("route demo", n)) = "route demo" /\ Leg(The("route demo", n)) = n
         /\ "route demo" \in Routes
    BY <2>6, KindsAre DEF Routes
  <2>11. Onward["route demo"][n] # NoLeg /\ Begun(Onward["route demo"][n])
    BY <2>9, <2>10 DEF Followed, NotStranded
  <2> QED BY <2>4, <2>10, <2>11 DEF Last
<1> QED BY <1>1, Invariance, PTL

\* The handlers move the project as the phase machine allows, whatever goes wrong.
THEOREM ImplementsMachine == Spec => ImplementsPhaseMachine
<1>1. Init => Machine!Init
  BY DEF Init, Machine!Init, Machine!Phases, Machine!Edges
<1>2. IInv /\ [Next]_vars => [Machine!Next]_<<phase, cycle>>
  <2> SUFFICES ASSUME IInv, [Next]_vars, ~UNCHANGED <<phase, cycle>> PROVE Machine!Next
    OBVIOUS
  <2>1. Basis
    BY DEF IInv
  <2>2. cycle' = cycle
    <3>1. CASE Tables
      BY <2>1, <3>1, Typed, TypedNext DEF Tables, TypeOK, Basis
    <3>2. CASE \E w \in Workers : Rowed(w)
      BY <3>2 DEF Rowed, Steps
    <3> QED BY <2>1, <3>1, <3>2, NextIs
  <2>3. PICK w \in Workers : Rowed(w)
    BY <2>1, <2>2, NextIs DEF Tables, Rests
  <2>4. PICK j \in Jobs, r \in RunRecords, N \in SUBSET Jobs :
          Steps(w, j, r, N) /\ Row(w, j, r, N)
    BY <2>3 DEF Rowed
  <2>5. <<phase, phase'>> \in
          {<<"DEPLOY", "DEPLOY_DESIGN">>, <<"DEPLOY_DESIGN", "DEPLOY_EXECUTE">>,
           <<"DEPLOY_EXECUTE", "DEPLOY_REVIEW">>, <<"DEPLOY_REVIEW", "DONE">>,
           <<"DEPLOY_REVIEW", "DESIGN">>, <<"DEPLOY_REVIEW", "DEPLOY_DESIGN">>,
           <<"DEPLOY_REVIEW", "DEPLOY_EXECUTE">>}
    BY <2>2, <2>4 DEF Row, GivesUp, Breaks, Loads, Hands, Triages, Writes, Applies, Asks1, Quiet,
                      Moves, Onwards
  <2> QED BY <2>2, <2>5 DEF Machine!Next, Machine!Move, Machine!LoopsBack, Machine!Phases,
                            Machine!Edges
<1> QED BY <1>1, <1>2, Invariance, PTL DEF Spec, ImplementsPhaseMachine, Machine!Spec, Machine!vars

\* Every step uses the job table as TaskLease specifies it: whatever is inserted twice,
\* reported late or taken back, a job is granted to one worker at a time, and only the
\* worker that holds the grant settles it.  (The table starts with the bridge in it.)
THEOREM UsesTable == Spec => [][Table!Next]_(Table!vars)
<1>1. IInv /\ [Next]_vars => [Table!Next]_(Table!vars)
  <2> SUFFICES ASSUME IInv, [Next]_vars PROVE Table!Next \/ UNCHANGED table
    BY DEF Table!vars
  <2>1. Basis
    BY DEF IInv
  <2>2. ASSUME NEW w \in Workers, Rowed(w) PROVE Table!Next \/ UNCHANGED table
    <3>1. PICK j \in Jobs, r \in RunRecords, N \in SUBSET Jobs :
            Steps(w, j, r, N) /\ Row(w, j, r, N)
      BY <2>2 DEF Rowed
    <3>2. /\ st' = [k \in Jobs |-> IF k \in N /\ st[k] = "absent" THEN "ready" ELSE st[k]]
          /\ UNCHANGED <<holder, doing>>
      BY <3>1 DEF Steps
    <3>3. N = {} \/ \E n \in Jobs : N = {n}
      BY <3>1 DEF Row, GivesUp, Breaks, Loads, Hands, Triages, Writes, Applies, Asks1, Moves
    <3>4. st = [k \in Jobs |-> st[k]]
      BY <2>1 DEF Basis, TypeOK
    <3>5. CASE \A k \in N : st[k] # "absent"
      BY <3>2, <3>4, <3>5
    <3>6. CASE \E n \in Jobs : N = {n} /\ st[n] = "absent"
      <4>1. PICK n \in Jobs : N = {n} /\ st[n] = "absent"
        BY <3>6
      <4>2. Table!Offer(n)
        BY <3>2, <3>4, <4>1 DEF Table!Offer
      <4> QED BY <4>2 DEF Table!Next
    <3> QED BY <3>3, <3>5, <3>6
  <2>3. ASSUME NEW w \in Workers, Handle(w) \/ Raise(w), ~Settle(w) PROVE Rowed(w)
    BY <2>1, <2>3, RowQuiet, RowHands, RowWrites, RowMoves DEF Handle
  <2>4. ASSUME NEW w \in Workers, Settle(w) PROVE Table!Next
    <3>1. doing[w] \in Jobs
      BY <2>1, <2>4 DEF Settle, Basis, TypeOK
    <3> QED BY <2>4, <3>1 DEF Settle, Table!Next
  <2>5. ASSUME NEW w \in Workers, Crash(w) PROVE Table!Next
    BY <2>5 DEF Crash, Table!Next
  <2>6. ASSUME NEW w \in Workers, NEW j \in Jobs, Claim(w, j) PROVE Table!Next
    BY <2>6 DEF Claim, Table!Next
  <2>7. ASSUME NEW j \in Jobs, Answer(j) \/ Reap(j) \/ LoseLease(j) PROVE Table!Next
    BY <2>7 DEF Answer, Reap, LoseLease, Table!Next
  <2>8. CASE UNCHANGED vars
    BY <2>8 DEF vars
  <2>9. CASE \E w \in Workers : Handle(w) \/ Raise(w)
    BY <2>2, <2>3, <2>4, <2>9
  <2> QED BY <2>5, <2>6, <2>7, <2>8, <2>9 DEF Next
<1> QED BY <1>1, Invariance, PTL DEF Spec
=============================================================================
