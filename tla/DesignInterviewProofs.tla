------------------------ MODULE DesignInterviewProofs ------------------------
(***************************************************************************)
(* The safety properties of DesignInterview for any batches, any human and *)
(* any number of crashes.  The handler keeps nothing between two wake-ups, *)
(* so the invariant says what it may rely on when it reads the ledger and  *)
(* its latest gate again.                                                  *)
(***************************************************************************)
EXTENDS DesignInterview, TLAPS

\* The latest gate lists what the ledger has for its stage, and once answered
\* everything the human left open is on record.
GateKept ==
  gate.stage \in Stages =>
    /\ asked[gate.stage] # {}
    /\ gate.asks = asked[gate.stage]
    /\ ~gate.open => gate.asks \ gate.given \subseteq passedOver

\* While a batch is being recorded its stage has no gate yet, and nothing that
\* comes later exists.
AskingFresh ==
  asking =>
    /\ st = "leased" /\ turn \in Stages
    /\ gate.stage # turn
    /\ inserted = {}
    /\ \A t \in Stages : t > turn => asked[t] = {}

\* The stages behind the handler are dealt with.
Behind(s) ==
  /\ asked[s] # {}
  /\ asked[s] \subseteq answered \cup assumed
  /\ asked[s] \cap Blocking \subseteq answered

StagesBehind ==
  st \in {"leased", "succeeded"} => \A s \in Stages : s < turn => Behind(s)

SucceededAtEnd == st = "succeeded" => turn > Len(Batches)

InsertedAtEnd == inserted # {} => \A s \in Stages : Behind(s)

NothingBlockingAssumed == assumed \cap Blocking = {}

Protocol ==
  /\ GateKept /\ AskingFresh
  /\ StagesBehind /\ SucceededAtEnd /\ InsertedAtEnd
  /\ NothingBlockingAssumed /\ AssumedWasPassedOver /\ StagesInOrder

IInv == TypeOK /\ Protocol

USE DEF Stages, NoStage

-----------------------------------------------------------------------------
(* Types                                                                   *)

LEMMA TypeInit == Init => TypeOK
<1> SUFFICES ASSUME Init PROVE TypeOK
  OBVIOUS
<1>1. Len(Batches) \in Nat /\ Len(Followups) \in Nat
  BY BatchesAssumption, FollowupsAssumption
<1>2. asked \in [Stages -> SUBSET Questions]
  BY DEF Init
<1>3. gate \in [stage : Stages \cup {NoStage}, asks : SUBSET Questions, open : BOOLEAN,
                given : SUBSET Questions]
  BY DEF Init, NoGate
<1>4. gate.open <=> st = "awaiting_human"
  BY DEF Init, NoGate
<1>5. turn \in 1 .. Len(Batches) + Len(Followups) + 1
  BY <1>1 DEF Init
<1>6. inserted \subseteq {Followups[i] : i \in DOMAIN Followups}
  BY DEF Init
<1> QED
  BY <1>2, <1>3, <1>4, <1>5, <1>6 DEF Init, TypeOK

LEMMA TypeStage == ASSUME NEW s \in Stages PROVE TypeOK /\ Stage(s) => TypeOK'
<1> SUFFICES ASSUME TypeOK, Stage(s) PROVE TypeOK'
  OBVIOUS
<1>1. Len(Batches) \in Nat /\ Len(Followups) \in Nat
  BY BatchesAssumption, FollowupsAssumption
<1>2. CASE Propose(s)
  BY <1>1, <1>2 DEF Propose, InStage, ledger, human, TypeOK
<1>3. CASE AskedAll(s)
  BY <1>1, <1>3 DEF AskedAll, InStage, Park, ledger, human, TypeOK
<1>4. CASE AllAnswered(s)
  BY <1>1, <1>4 DEF AllAnswered, Judging, InStage, ledger, human, TypeOK
<1>5. CASE AskAgain(s)
  BY <1>1, <1>5 DEF AskAgain, Judging, InStage, Park, ledger, human, TypeOK
<1>6. CASE InsistOnBlocking(s)
  BY <1>1, <1>6 DEF InsistOnBlocking, Recorded, Judging, InStage, Park, ledger, human, TypeOK
<1>7. CASE SettledByAssumption(s)
  BY <1>1, <1>7 DEF SettledByAssumption, Recorded, Judging, InStage, ledger, human, TypeOK
<1>8. CASE \E q \in Questions : Ask(s, q) \/ RecordAnswer(s, q) \/ Assume(s, q)
  BY <1>1, <1>8 DEF Ask, RecordAnswer, Assume, Recorded, Judging, InStage, ledger, human, TypeOK
<1> QED
  BY <1>2, <1>3, <1>4, <1>5, <1>6, <1>7, <1>8 DEF Stage

LEMMA TypeStep == TypeOK /\ [Next]_vars => TypeOK'
<1> SUFFICES ASSUME TypeOK, [Next]_vars PROVE TypeOK'
  OBVIOUS
<1>1. CASE Claim
  <2>1. turn' \in 1 .. Len(Batches) + Len(Followups) + 1
    BY <1>1, BatchesAssumption, FollowupsAssumption DEF Claim
  <2>2. st' # "awaiting_human" /\ ~gate.open
    BY <1>1 DEF Claim, TypeOK
  <2> QED
    BY <1>1, <2>1, <2>2 DEF Claim, ledger, human, TypeOK
<1>2. CASE Crash
  <2>1. faults' \in Nat
    BY <1>2 DEF Crash, TypeOK
  <2>2. st' # "awaiting_human" /\ ~gate.open
    BY <1>2 DEF Crash, TypeOK
  <2> QED
    BY <1>2, <2>1, <2>2 DEF Crash, ledger, human, TypeOK
<1>3. ASSUME NEW given \in SUBSET Questions, Answer(given) PROVE TypeOK'
  BY <1>3 DEF Answer, ledger, human, TypeOK
<1>4. CASE EnqueueFollowup
  <2>1. turn' = turn + 1 /\ turn - Len(Batches) <= Len(Followups)
    BY <1>4, BatchesAssumption, FollowupsAssumption DEF EnqueueFollowup, Followup, TypeOK
  <2>2. inserted' \subseteq {Followups[i] : i \in DOMAIN Followups}
    BY <1>4 DEF EnqueueFollowup, TypeOK
  <2> QED
    BY <1>4, <2>1, <2>2, BatchesAssumption, FollowupsAssumption DEF EnqueueFollowup, ledger, human, TypeOK
<1>5. CASE Succeed
  BY <1>5 DEF Succeed, ledger, human, TypeOK
<1>6. CASE UNCHANGED vars
  BY <1>6 DEF vars, ledger, human, TypeOK
<1> QED
  BY <1>1, <1>2, <1>3, <1>4, <1>5, <1>6, TypeStage DEF Next, Handle

-----------------------------------------------------------------------------
(* The protocol                                                            *)

LEMMA ProtocolInit == Init => Protocol
  BY BatchesAssumption DEF Init, NoGate, Protocol, GateKept, AskingFresh, StagesBehind, Behind,
      SucceededAtEnd, InsertedAtEnd, NothingBlockingAssumed, AssumedWasPassedOver, StagesInOrder

\* The job is claimed, given up or answered: the ledger stays as it is.
LEMMA ProtocolWakeUp ==
  ASSUME TypeOK, Protocol, Claim \/ Crash PROVE Protocol'
  BY BatchesAssumption DEF Claim, Crash, ledger, human, TypeOK, Protocol, GateKept, AskingFresh, StagesBehind, Behind,
      SucceededAtEnd, InsertedAtEnd, NothingBlockingAssumed, AssumedWasPassedOver, StagesInOrder

LEMMA ProtocolAnswer ==
  ASSUME TypeOK, Protocol, NEW given \in SUBSET Questions, Answer(given) PROVE Protocol'
<1>1. gate'.stage = gate.stage /\ gate'.asks = gate.asks /\ gate'.given = given
  BY DEF Answer, TypeOK
<1>2. GateKept'
  BY <1>1 DEF Answer, ledger, human, Protocol, GateKept
<1>3. ~asking
  BY DEF Answer, Protocol, AskingFresh
<1> QED
  BY <1>2, <1>3 DEF Answer, ledger, human, TypeOK, Protocol, GateKept, AskingFresh, StagesBehind, Behind,
      SucceededAtEnd, InsertedAtEnd, NothingBlockingAssumed, AssumedWasPassedOver, StagesInOrder

\* Raising a gate for the stage the handler is in, whose questions are recorded.
LEMMA ProtocolPark ==
  ASSUME TypeOK, Protocol, NEW s \in Stages, InStage(s), asked[s] # {}, Park(s),
         UNCHANGED <<turn, ledger, human, inserted, faults>>
  PROVE  Protocol'
  BY DEF InStage, Park, ledger, human, TypeOK, Protocol, GateKept, AskingFresh, StagesBehind, Behind,
      SucceededAtEnd, InsertedAtEnd, NothingBlockingAssumed, AssumedWasPassedOver, StagesInOrder

\* The handler leaves a stage that is dealt with.
LEMMA ProtocolLeave ==
  ASSUME TypeOK, Protocol, NEW s \in Stages, InStage(s), ~asking, Behind(s), turn' = s + 1,
         UNCHANGED <<st, asking, ledger, gate, human, inserted, faults>>
  PROVE  Protocol'
  BY BatchesAssumption DEF InStage, ledger, human, TypeOK, Protocol, GateKept, AskingFresh, StagesBehind, Behind,
      SucceededAtEnd, InsertedAtEnd, NothingBlockingAssumed, AssumedWasPassedOver, StagesInOrder

LEMMA ProtocolPropose ==
  ASSUME TypeOK, Protocol, NEW s \in Stages, Propose(s) PROVE Protocol'
<1>1. gate.stage # s /\ inserted = {}
  BY DEF Propose, Protocol, GateKept, InsertedAtEnd, Behind
<1>2. \A t \in Stages : t > s => asked[t] = {}
  BY BatchesAssumption DEF Propose, Protocol, StagesInOrder
<1> QED
  BY <1>1, <1>2 DEF Propose, InStage, ledger, human, TypeOK, Protocol, GateKept, AskingFresh, StagesBehind, Behind,
      SucceededAtEnd, InsertedAtEnd, NothingBlockingAssumed, AssumedWasPassedOver, StagesInOrder

LEMMA ProtocolAsk ==
  ASSUME TypeOK, Protocol, NEW s \in Stages, NEW q \in Questions, Ask(s, q) PROVE Protocol'
<1>1. /\ gate.stage # s /\ inserted = {} /\ st = "leased" /\ turn = s
      /\ \A t \in Stages : t > s => asked[t] = {}
  BY DEF Ask, InStage, Protocol, AskingFresh
<1>2. \A t \in Stages : asked'[t] = IF t = s THEN asked[s] \cup {q} ELSE asked[t]
  BY DEF Ask, TypeOK
<1>3. UNCHANGED <<st, turn, asking, answered, assumed, gate, passedOver, skips, inserted>>
  BY DEF Ask, human
<1>4. GateKept' /\ AskingFresh' /\ SucceededAtEnd' /\ InsertedAtEnd'
  BY <1>1, <1>2, <1>3 DEF Protocol, GateKept, AskingFresh, SucceededAtEnd, InsertedAtEnd
<1>5. StagesBehind'
  BY <1>1, <1>2, <1>3 DEF Protocol, StagesBehind, Behind
<1>6. StagesInOrder'
  <2> SUFFICES ASSUME NEW t \in Stages, asked'[t] # {}, NEW r \in 1 .. t - 1
               PROVE  asked'[r] # {} /\ asked'[r] \subseteq answered \cup assumed
    BY <1>3 DEF StagesInOrder
  <2>1. t <= s /\ r \in Stages /\ r < s
    BY <1>1, <1>2, BatchesAssumption
  <2>2. Behind(r)
    BY <1>1, <2>1 DEF Protocol, StagesBehind
  <2> QED
    BY <1>2, <2>1, <2>2 DEF Behind
<1> QED
  BY <1>3, <1>4, <1>5, <1>6 DEF Protocol, NothingBlockingAssumed, AssumedWasPassedOver

LEMMA ProtocolRecordAnswer ==
  ASSUME TypeOK, Protocol, NEW s \in Stages, NEW q \in Questions, RecordAnswer(s, q)
  PROVE  Protocol'
  BY DEF RecordAnswer, Judging, ledger, human, TypeOK, Protocol, GateKept, AskingFresh, StagesBehind, Behind,
      SucceededAtEnd, InsertedAtEnd, NothingBlockingAssumed, AssumedWasPassedOver, StagesInOrder

LEMMA ProtocolAssume ==
  ASSUME TypeOK, Protocol, NEW s \in Stages, NEW q \in Questions, Assume(s, q)
  PROVE  Protocol'
<1>1. q \in passedOver
  BY DEF Assume, Recorded, GateAnswers, OpenIn, Protocol, GateKept
<1> QED
  BY <1>1 DEF Assume, Recorded, Judging, OpenIn, human, TypeOK, Protocol, GateKept, AskingFresh, StagesBehind, Behind,
      SucceededAtEnd, InsertedAtEnd, NothingBlockingAssumed, AssumedWasPassedOver, StagesInOrder

LEMMA ProtocolEnd ==
  ASSUME TypeOK, Protocol, EnqueueFollowup \/ Succeed PROVE Protocol'
<1>1. turn > Len(Batches) /\ turn \in Nat /\ Len(Batches) \in Nat
  BY BatchesAssumption, FollowupsAssumption DEF EnqueueFollowup, Succeed, Followup, TypeOK
<1>2. \A s \in Stages : Behind(s)
  BY <1>1 DEF EnqueueFollowup, Succeed, Protocol, StagesBehind
<1>3. ~asking
  BY <1>1 DEF Protocol, AskingFresh
<1>4. UNCHANGED <<asking, ledger, gate, human>> /\ turn' >= turn /\ turn' \in Nat
  BY <1>1 DEF EnqueueFollowup, Succeed
<1> QED
  BY <1>1, <1>2, <1>3, <1>4 DEF ledger, human, Protocol, GateKept, AskingFresh, StagesBehind, Behind,
      SucceededAtEnd, InsertedAtEnd, NothingBlockingAssumed, AssumedWasPassedOver, StagesInOrder

LEMMA ProtocolStage == ASSUME TypeOK, Protocol, NEW s \in Stages, Stage(s) PROVE Protocol'
<1>1. CASE Propose(s)
  BY <1>1, ProtocolPropose
<1>2. CASE AskedAll(s)
  <2>1. asked[s] # {}
    BY <1>2, BatchesAssumption DEF AskedAll
  <2> QED
    BY <1>2, <2>1, ProtocolPark DEF AskedAll
<1>3. CASE AllAnswered(s)
  <2>1. Behind(s)
    BY <1>3 DEF AllAnswered, Judging, OpenIn, Behind
  <2> QED
    BY <1>3, <2>1, ProtocolLeave DEF AllAnswered, Judging
<1>4. CASE AskAgain(s)
  BY <1>4, ProtocolPark DEF AskAgain, Judging
<1>5. CASE InsistOnBlocking(s)
  BY <1>5, ProtocolPark DEF InsistOnBlocking, Recorded, Judging
<1>6. CASE SettledByAssumption(s)
  <2>1. OpenIn(s) \cap Blocking = {}
    BY <1>6 DEF SettledByAssumption, Protocol, NothingBlockingAssumed
  <2>2. Behind(s)
    BY <1>6, <2>1 DEF SettledByAssumption, Recorded, Judging, OpenIn, Behind
  <2> QED
    BY <1>6, <2>2, ProtocolLeave DEF SettledByAssumption, Recorded, Judging
<1>7. CASE \E q \in Questions : Ask(s, q) \/ RecordAnswer(s, q) \/ Assume(s, q)
  BY <1>7, ProtocolAsk, ProtocolRecordAnswer, ProtocolAssume
<1> QED
  BY <1>1, <1>2, <1>3, <1>4, <1>5, <1>6, <1>7 DEF Stage

LEMMA ProtocolStep == TypeOK /\ Protocol /\ [Next]_vars => Protocol'
<1> SUFFICES ASSUME TypeOK, Protocol, [Next]_vars PROVE Protocol'
  OBVIOUS
<1>1. CASE UNCHANGED vars
  BY <1>1 DEF vars, ledger, human, Protocol, GateKept, AskingFresh, StagesBehind, Behind,
      SucceededAtEnd, InsertedAtEnd, NothingBlockingAssumed, AssumedWasPassedOver, StagesInOrder
<1> QED
  BY <1>1, ProtocolWakeUp, ProtocolAnswer, ProtocolEnd, ProtocolStage DEF Next, Handle

THEOREM IInvHolds == Spec => []IInv
<1>1. Init => IInv
  BY TypeInit, ProtocolInit DEF IInv
<1>2. IInv /\ [Next]_vars => IInv'
  BY TypeStep, ProtocolStep DEF IInv
<1> QED
  BY <1>1, <1>2, PTL DEF Spec

\* The interview's variables keep their types, and it waits exactly while its
\* gate is open (design_handler.py, worker.py).
THEOREM TypeCorrect == Spec => []TypeOK
  BY IInvHolds, PTL DEF IInv, Protocol

\* Nothing is assumed that the human was not asked and did not leave open
\* (design_handler.py: the check of the gate's stage, finalize_questions).
THEOREM NothingAssumedUnasked == Spec => []AssumedWasPassedOver
  BY IInvHolds, PTL DEF IInv, Protocol

\* A stage is put to the human only when the earlier ones are dealt with
\* (design_handler.py: the loop over the stages).
THEOREM StagesComeInOrder == Spec => []StagesInOrder
  BY IInvHolds, PTL DEF IInv, Protocol

\* An interview that ends leaves no blocking question open
\* (design_handler.py: finalize_questions refuses, and the job parks again).
THEOREM NoBlockerIsLeft == Spec => []NoBlockerLeftBehind
<1>1. IInv => NoBlockerLeftBehind
  BY BatchesAssumption
  DEF IInv, Protocol, TypeOK, StagesBehind, SucceededAtEnd, InsertedAtEnd, Behind, NoBlockerLeftBehind
<1> QED
  BY IInvHolds, <1>1, PTL
=============================================================================
