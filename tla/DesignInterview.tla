--------------------------- MODULE DesignInterview ---------------------------
(***************************************************************************)
(* One design.interview job: stage by stage the engine proposes a batch of *)
(* questions, the job parks on a gate that lists them, and the wake-up     *)
(* records the human's answers, or an assumption for each question that    *)
(* may be left open, before it turns to the next stage.  The last stage    *)
(* done, the jobs that write the spec are inserted.                        *)
(*                                                                         *)
(* The handler starts from the first stage whenever the job is claimed,    *)
(* and it keeps no place of its own: what it knows is the ledger and the   *)
(* latest gate of the job.  Every ledger event and every insert is a       *)
(* statement of its own, and the process may die between any two.          *)
(*                                                                         *)
(* Definitions named M... are plausible faults; no action uses them.       *)
(***************************************************************************)
EXTENDS Naturals, Sequences, FiniteSets

CONSTANTS
  Questions,
  Batches,    \* Batches[s]: the questions the engine proposes for stage s
  Blocking,   \* the questions that may not be left open
  Followups,  \* the jobs an interview inserts at its end, in order
  MaxFaults   \* bound: crashes of the worker

ASSUME BatchesAssumption == Batches \in Seq((SUBSET Questions) \ {{}})
ASSUME FollowupsAssumption == Len(Followups) \in Nat /\ DOMAIN Followups = 1 .. Len(Followups)
ASSUME MaxFaultsAssumption == MaxFaults \in Nat
ASSUME BlockingAssumption == Blocking \subseteq Questions

Stages == 1 .. Len(Batches)
NoStage == 0

VARIABLES
  st,        \* the job
  turn,      \* where the handler is: a stage, or beyond it a follow-up
  asking,    \* whether it is recording the batch of that stage
  asked,     \* asked[s]: the questions of stage s in the ledger
  answered,  \* the questions with an answer in the ledger
  assumed,   \* the questions with an assumption in the ledger
  gate,      \* the latest gate: its stage, its questions, what was answered
  passedOver,\* history: questions of a gate that its human left open
  skips,     \* the questions this human always leaves open
  inserted,  \* the follow-up jobs
  faults

ledger == <<asked, answered, assumed>>
human == <<passedOver, skips>>
vars == <<st, turn, asking, ledger, gate, human, inserted, faults>>

NoGate == [stage |-> NoStage, asks |-> {}, open |-> FALSE, given |-> {}]

Init ==
  /\ st = "ready" /\ turn = 1 /\ asking = FALSE
  /\ asked = [s \in Stages |-> {}]
  /\ answered = {} /\ assumed = {}
  /\ gate = NoGate
  /\ passedOver = {} /\ skips \in SUBSET (Questions \ Blocking)
  /\ inserted = {}
  /\ faults = 0

-----------------------------------------------------------------------------
(* The worker and the human                                                *)

Claim ==
  /\ st = "ready"
  /\ st' = "leased" /\ turn' = 1 /\ asking' = FALSE
  /\ UNCHANGED <<ledger, gate, human, inserted, faults>>

\* The worker parks the job and raises a gate for the stage's questions.
Park(s) ==
  /\ st' = "awaiting_human"
  /\ gate' = [stage |-> s, asks |-> asked[s], open |-> TRUE, given |-> {}]
  /\ asking' = FALSE

\* The human answers some of the questions of the gate; "accept the defaults"
\* answers them all.
Answer(given) ==
  /\ st = "awaiting_human"
  /\ given \subseteq gate.asks \ skips
  /\ gate' = [gate EXCEPT !.open = FALSE, !.given = given]
  /\ passedOver' = passedOver \cup (gate.asks \ given)
  /\ st' = "ready"
  /\ UNCHANGED <<turn, asking, ledger, skips, inserted, faults>>

Crash ==
  /\ faults < MaxFaults
  /\ st = "leased"
  /\ st' = "ready" /\ asking' = FALSE
  /\ faults' = faults + 1
  /\ UNCHANGED <<turn, ledger, gate, human, inserted>>

-----------------------------------------------------------------------------
(* One stage                                                               *)

InStage(s) == st = "leased" /\ turn = s /\ s \in Stages

\* A stage without questions in the ledger is put to the engine.
Propose(s) ==
  /\ InStage(s)
  /\ asked[s] = {} /\ ~asking
  /\ asking' = TRUE
  /\ UNCHANGED <<st, turn, ledger, gate, human, inserted, faults>>

Ask(s, q) ==
  /\ InStage(s)
  /\ asking
  /\ q \in Batches[s] \ asked[s]
  /\ asked' = [asked EXCEPT ![s] = @ \cup {q}]
  /\ UNCHANGED <<st, turn, asking, answered, assumed, gate, human, inserted, faults>>

AskedAll(s) ==
  /\ InStage(s)
  /\ asking
  /\ asked[s] = Batches[s]
  /\ Park(s)
  /\ UNCHANGED <<turn, ledger, human, inserted, faults>>

\* The latest gate of the job, which is another stage's once a later stage has
\* parked, counts only if it names this stage and was answered.  The code looks
\* for the stage's name anywhere in the gate's prompt; that is equality of stages
\* as long as no question's own words spell the name of another stage.
MGateAnswers(s) == gate.stage # NoStage /\ ~gate.open
GateAnswers(s) == gate.stage = s /\ ~gate.open

OpenIn(s) == asked[s] \ answered

Judging(s) == InStage(s) /\ asked[s] # {} /\ ~asking

AllAnswered(s) ==
  /\ Judging(s)
  /\ OpenIn(s) = {}
  /\ turn' = s + 1
  /\ UNCHANGED <<st, asking, ledger, gate, human, inserted, faults>>

MAskAgain(s) ==
  /\ Judging(s)
  /\ ~GateAnswers(s)
  /\ Park(s)
  /\ UNCHANGED <<turn, ledger, human, inserted, faults>>

AskAgain(s) ==
  /\ Judging(s)
  /\ OpenIn(s) # {}
  /\ ~GateAnswers(s)
  /\ Park(s)
  /\ UNCHANGED <<turn, ledger, human, inserted, faults>>

RecordAnswer(s, q) ==
  /\ Judging(s)
  /\ GateAnswers(s)
  /\ q \in OpenIn(s) \cap gate.given
  /\ answered' = answered \cup {q}
  /\ UNCHANGED <<st, turn, asking, asked, assumed, gate, human, inserted, faults>>

\* All of the gate's answers are in the ledger, and questions remain open.
Recorded(s) ==
  /\ Judging(s)
  /\ GateAnswers(s)
  /\ OpenIn(s) # {} /\ OpenIn(s) \cap gate.given = {}

InsistOnBlocking(s) ==
  /\ Recorded(s)
  /\ OpenIn(s) \cap Blocking # {}
  /\ Park(s)
  /\ UNCHANGED <<turn, ledger, human, inserted, faults>>

MAssumeAnything(s, q) ==
  /\ Recorded(s)
  /\ q \in OpenIn(s) \ assumed
  /\ assumed' = assumed \cup {q}
  /\ UNCHANGED <<st, turn, asking, asked, answered, gate, human, inserted, faults>>

Assume(s, q) ==
  /\ Recorded(s)
  /\ OpenIn(s) \cap Blocking = {}
  /\ q \in OpenIn(s) \ assumed
  /\ assumed' = assumed \cup {q}
  /\ UNCHANGED <<st, turn, asking, asked, answered, gate, human, inserted, faults>>

\* A stage settled by assumptions is passed now; the next wake-up, which finds
\* another stage's gate, sees its questions as open.
MSettledUnrecorded(s) ==
  /\ Recorded(s)
  /\ OpenIn(s) \cap Blocking = {}
  /\ turn' = s + 1
  /\ UNCHANGED <<st, asking, ledger, gate, human, inserted, faults>>

SettledByAssumption(s) ==
  /\ Recorded(s)
  /\ OpenIn(s) \subseteq assumed
  /\ turn' = s + 1
  /\ UNCHANGED <<st, asking, ledger, gate, human, inserted, faults>>

-----------------------------------------------------------------------------
(* The end: research, synthesis and spec are inserted one by one           *)

Followup == turn - Len(Batches)

EnqueueFollowup ==
  /\ st = "leased"
  /\ Followup \in DOMAIN Followups
  /\ inserted' = inserted \cup {Followups[Followup]}
  /\ turn' = turn + 1
  /\ UNCHANGED <<st, asking, ledger, gate, human, faults>>

Succeed ==
  /\ st = "leased"
  /\ Followup = Len(Followups) + 1
  /\ st' = "succeeded"
  /\ UNCHANGED <<turn, asking, ledger, gate, human, inserted, faults>>

Stage(s) ==
  \/ Propose(s) \/ AskedAll(s) \/ AllAnswered(s) \/ AskAgain(s)
  \/ InsistOnBlocking(s) \/ SettledByAssumption(s)
  \/ \E q \in Questions : Ask(s, q) \/ RecordAnswer(s, q) \/ Assume(s, q)

Handle == EnqueueFollowup \/ Succeed \/ \E s \in Stages : Stage(s)

Next ==
  \/ Claim \/ Handle \/ Crash
  \/ \E given \in SUBSET Questions : Answer(given)

Spec == Init /\ [][Next]_vars

\* The worker runs, and a human who is asked again and again sooner or later
\* answers everything that this human ever answers.
FairSpec ==
  /\ Spec
  /\ WF_vars(Claim) /\ WF_vars(Handle)
  /\ WF_vars(\E given \in SUBSET Questions : Answer(given))
  /\ \A s \in Stages : SF_vars(gate.stage = s /\ Answer(gate.asks \ skips))

-----------------------------------------------------------------------------
(* Properties                                                              *)

\* Every variable has its type, the handler is inside one of its stages or its
\* follow-ups, and the job waits for its human exactly while its gate is open.
TypeOK ==
  /\ st \in {"ready", "leased", "awaiting_human", "succeeded"}
  /\ turn \in 1 .. Len(Batches) + Len(Followups) + 1
  /\ asking \in BOOLEAN
  /\ asked \in [Stages -> SUBSET Questions]
  /\ answered \in SUBSET Questions
  /\ assumed \in SUBSET Questions
  /\ gate \in [stage : Stages \cup {NoStage}, asks : SUBSET Questions, open : BOOLEAN,
               given : SUBSET Questions]
  /\ passedOver \in SUBSET Questions /\ skips \in SUBSET (Questions \ Blocking)
  /\ inserted \subseteq {Followups[i] : i \in DOMAIN Followups}
  /\ faults \in Nat
  /\ gate.open <=> st = "awaiting_human"

\* An interview that inserted a job or succeeded leaves no blocking question open,
\* which nobody would ever ask again and which would refuse the acceptance of the
\* design for good.
NoBlockerLeftBehind ==
  st = "succeeded" \/ inserted # {} => \A s \in Stages : asked[s] \cap Blocking \subseteq answered

\* No decision is taken for the human: what is recorded as an assumption is a
\* question that was put to the human and left open, even when the process died
\* between recording the questions and raising their gate.
AssumedWasPassedOver == assumed \subseteq passedOver

\* A stage builds on the ones before it: its questions are proposed only when
\* every earlier question has an answer or an assumption.
StagesInOrder ==
  \A s \in Stages : asked[s] # {} =>
    \A r \in 1 .. s - 1 : asked[r] # {} /\ asked[r] \subseteq answered \cup assumed

\* An interview ends once its human has answered what must be answered, also
\* when this human always leaves optional questions of the last stage open.
\* One left open at an earlier stage is assumed, and then holds the interview for
\* good: every later wake-up finds the gate of another stage, sees the question
\* without an answer and raises its stage's gate again, and after that the gate
\* of the stage that was waiting.  "Unanswered non-blocking ones are recorded as
\* `AssumptionStated`" (phase-protocols.md:142-143) is kept for the first such
\* stage; that the interview then goes on is what the code does not do.
HeldBy(s) ==
  /\ s # Len(Batches)
  /\ asked[s] \cap skips # {}
  /\ asked[s] \cap skips \subseteq assumed

InterviewEnds == <>(st = "succeeded" \/ \E s \in Stages : HeldBy(s))
=============================================================================
