------------------------------- MODULE RunLoop -------------------------------
(***************************************************************************)
(* One run of the bundled Claude runner: the loop that sends turns to a    *)
(* session until the work is done, waits and probes while the vendor       *)
(* rejects it, heeds what the operator drops into the run's inbox, and     *)
(* leaves a record behind that a supervisor can hand to another engine.    *)
(*                                                                         *)
(* The process is sequential.  What moves beside it is the operator, the   *)
(* vendor, a rival: another runner that resumes the same session, and its  *)
(* end, by an exception or by a kill, at any step.  A clean end writes its *)
(* record in steps, so that a kill may come between them.                  *)
(*                                                                         *)
(* A turn's text, its cost and the plan are left out, as are the prompts   *)
(* and the session settings of the inbox that are held for a later turn in *)
(* the way the profile is.  max_turns is the only cap that is set.         *)
(*                                                                         *)
(* Definitions named M... are plausible faults; no action uses them.       *)
(***************************************************************************)
EXTENDS Naturals

CONSTANTS
  MaxTurns,     \* budget.max_turns
  MaxWait,      \* max_wait, in units of the shortest wait
  MaxCommands,  \* bound: commands of the operator
  MaxFaults     \* bound: exceptions and kills

ASSUME LimitAssumption == MaxTurns \in Nat \ {0} /\ MaxWait \in Nat \ {0}

Capacity == {"available", "rejected", "auth"}
Verdicts == {"done", "blocked", "continue"}
Fields == {"model", "effort"}
OfProfile == {"set_preset", "set_model", "set_effort"}
Commands == {"stop", "wind_down"} \cup OfProfile

VARIABLES
  pc,        \* where the process is
  phase, decision,
  accepted,  \* turns the vendor accepted
  rejected,  \* turns it rejected, as far as the budget tells them apart
  waited,    \* now - started_waiting_at
  inbox,     \* the commands not polled yet
  winding,   \* _wind_down_requested
  profile, pending, locked,  \* _profile, _pending_profile, _operator_locked
  known,     \* the session's id is known to this process
  live,      \* its client is connected
  lock,      \* the session's lock file: "free", "mine" or "rival"
  status,    \* meta.json
  kept,      \* the artifacts on disk
  marker,    \* handoff.json is there
  given,     \* commands given so far
  since,     \* history: 1 once a wind-down was heard, 2 when a turn was accepted since
  asked,     \* history: the command each field is to follow, "none" if it is not known
  fresh,     \* history: the fields that commands named since the last turn was sent
  faults

ledger == <<accepted, rejected, waited>>
model == <<profile, pending, locked>>
wanted == <<asked, fresh>>
session == <<known, live, lock>>
record == <<status, kept, marker>>
vars == <<pc, phase, decision, ledger, inbox, winding, model, wanted, session, record,
          given, since, faults>>

Whole(source) == [model |-> source, effort |-> source]
Nothing == Whole("none")
Spent == accepted + rejected
Ended == {"over", "killed"}

\* `run` starts a session, `resume` knows its id and may find it driven by a rival.
Init ==
  /\ pc = "start" /\ phase = "PREFLIGHT" /\ decision = "none"
  /\ accepted = 0 /\ rejected = 0 /\ waited = 0
  /\ inbox = {} /\ winding = FALSE /\ given = 0
  /\ profile = Whole("config") /\ pending = Nothing /\ locked = FALSE
  /\ known \in BOOLEAN /\ live = FALSE
  /\ lock \in IF known THEN {"free", "rival"} ELSE {"free"}
  /\ status = "active" /\ kept = {} /\ marker = FALSE
  /\ since = 0 /\ asked = Nothing /\ fresh = {} /\ faults = 0

-----------------------------------------------------------------------------
(* What a phase leaves in meta.json                                        *)

\* Only what the phase implies is written: an active run keeps what is there.
Persisted(p) ==
  CASE p = "COMPLETE" -> "finished"
    [] p = "FAILED" -> "failed"
    [] p = "WAITING" -> "waiting"
    [] OTHER -> status

Decide(p, d) == phase' = p /\ decision' = d

\* Exhausted or rejected: wait for the next probe, unless max_wait is used up.  A
\* turn that is rejected starts a wait of its own.
EnterWaiting(elapsed) ==
  /\ waited' = elapsed
  /\ \/ elapsed >= MaxWait /\ Decide("FAILED", "finish")
     \/ elapsed < MaxWait /\ Decide("WAITING", "probe")

Fail == Decide("FAILED", "finish") /\ waited' = 0

MQueue(p) == pending' = IF pending = Nothing THEN p ELSE pending
Queue(p) == pending' = p

\* The automatic policy, when it has a reason to: not once the operator has spoken.
ConsiderAutoModel ==
  \/ UNCHANGED model
  \/ ~locked /\ Queue(Whole("auto")) /\ UNCHANGED <<profile, locked>>

-----------------------------------------------------------------------------
(* The inbox                                                               *)

\* A batch holds the last command of each kind, applied in this order; model and
\* effort replace their half of the profile in force, not of the one pending.
Heard(c) == c \in inbox
ApplyProfile ==
  /\ \/ /\ Heard("set_effort")
        /\ Queue([profile EXCEPT !.effort = "set_effort"])
     \/ /\ Heard("set_model") /\ ~Heard("set_effort")
        /\ Queue([profile EXCEPT !.model = "set_model"])
     \/ /\ Heard("set_preset") /\ ~Heard("set_model") /\ ~Heard("set_effort")
        /\ Queue(Whole("set_preset"))
  /\ locked' = TRUE
  /\ UNCHANGED profile

\* What the operator may expect of a batch: a command that has it to itself is to be
\* followed until the next one that names its field.  One that shares its batch may
\* be dropped, and any that comes before the turn it was meant for takes away what
\* was asked since the last one.
Names(c) ==
  CASE c = "set_preset" -> Fields
    [] c = "set_model"  -> {"model"}
    [] c = "set_effort" -> {"effort"}
    [] OTHER            -> {}
Named == UNION {Names(c) : c \in inbox}
Note ==
  /\ asked' = [f \in Fields |->
                 IF \E c \in OfProfile : inbox = {c} /\ f \in Names(c)
                 THEN CHOOSE c \in OfProfile : inbox = {c}
                 ELSE IF f \in Named \/ (f \in fresh /\ Named # {}) THEN "none" ELSE asked[f]]
  /\ fresh' = fresh \cup Named

MHoldWindDown == winding' = Heard("wind_down")
HoldWindDown == winding' = (winding \/ Heard("wind_down"))

\* A batch with a stop is the stop; one with a wind-down is the wind-down.
MStops == Heard("stop") /\ ~Heard("wind_down")
Stops == Heard("stop")
Poll ==
  /\ ~Stops
  /\ inbox' = {}
  /\ HoldWindDown
  /\ since' = IF since = 0 /\ Heard("wind_down") THEN 1 ELSE since
  /\ \/ ~Heard("wind_down") /\ ApplyProfile
     \/ /\ Heard("wind_down") \/ inbox \cap OfProfile = {}
        /\ UNCHANGED model
  /\ Note

Command(c) ==
  /\ pc \notin Ended /\ given < MaxCommands /\ c \notin inbox
  /\ inbox' = inbox \cup {c}
  /\ given' = given + 1
  /\ UNCHANGED <<pc, phase, decision, ledger, winding, model, wanted, session, record, since,
                 faults>>

-----------------------------------------------------------------------------
(* The session's lock                                                      *)

Mine == lock = "mine"

\* A session that another runner holds is not driven: the run fails closed.
FailClosed ==
  /\ live' = FALSE /\ status' = "failed" /\ pc' = "over"
  /\ UNCHANGED <<phase, decision, ledger, inbox, winding, model, wanted, kept, marker,
                 given, since, faults>>

Released == IF Mine THEN "free" ELSE lock

\* The rival may resume any session that is on disk, and lets go of it again.
RivalTakes ==
  /\ known \/ live
  /\ lock = "free" /\ lock' = "rival"
  /\ UNCHANGED <<pc, phase, decision, ledger, inbox, winding, model, wanted, known, live, record,
                 given, since, faults>>
RivalLeaves ==
  /\ lock = "rival" /\ lock' = "free"
  /\ UNCHANGED <<pc, phase, decision, ledger, inbox, winding, model, wanted, known, live, record,
                 given, since, faults>>

-----------------------------------------------------------------------------
(* The loop                                                                *)

MStart ==
  /\ pc = "start" /\ pc' = "preflight"
  /\ UNCHANGED <<phase, decision, ledger, inbox, winding, model, wanted, session, record, given,
                 since, faults>>

\* A session to be resumed is locked before anything is sent to it.
Start ==
  /\ pc = "start"
  /\ \/ /\ ~known /\ UNCHANGED session
     \/ /\ known /\ lock = "free" /\ lock' = "mine" /\ UNCHANGED <<known, live>>
  /\ pc' = "preflight"
  /\ UNCHANGED <<phase, decision, ledger, inbox, winding, model, wanted, record, given, since,
                 faults>>
Refused ==
  /\ pc = "start" /\ known /\ lock = "rival"
  /\ UNCHANGED <<known, lock>>
  /\ FailClosed

\* A probe has no session of its own and spends nothing.
Preflight(c) ==
  /\ pc = "preflight"
  /\ \/ c = "available" /\ Decide("RUNNING", "send") /\ UNCHANGED waited
     \/ c = "rejected" /\ EnterWaiting(0)
     \/ c = "auth" /\ Fail
  /\ status' = Persisted(phase')
  /\ pc' = "top"
  /\ UNCHANGED <<accepted, rejected, inbox, winding, model, wanted, session, kept, marker,
                 given, since, faults>>

Top ==
  /\ pc = "top" /\ Poll
  /\ pc' = "go"
  /\ UNCHANGED <<phase, decision, ledger, session, record, given, faults>>

\* Stopped by the operator, whatever was decided before.
Stop ==
  /\ pc \in {"top", "break", "asleep"} /\ Stops
  /\ inbox' = {}
  /\ decision' = "stop" /\ pc' = "close"
  /\ UNCHANGED <<phase, ledger, winding, model, wanted, session, record, given, since, faults>>

Send ==
  /\ pc = "go" /\ decision = "send"
  /\ profile' = IF pending = Nothing THEN profile ELSE pending
  /\ pending' = Nothing
  /\ fresh' = {}
  /\ live' = TRUE
  /\ pc' = "turn"
  /\ UNCHANGED <<phase, decision, ledger, inbox, winding, locked, asked, known, lock, record,
                 given, since, faults>>

\* A turn that may go on does so, hands over, or fails on its budget: an exact cap
\* comes before a prediction or a request to wind down.
Exhausted == Spent + 1 >= MaxTurns
GoOn ==
  /\ waited' = 0
  /\ \/ Exhausted /\ Decide("FAILED", "finish") /\ pc' = "top"
     \/ ~Exhausted /\ Decide("HANDOFF", "wind_down") /\ pc' = "top"
     \/ ~Exhausted /\ ~winding /\ Decide("RUNNING", "send") /\ pc' = "break"
     \/ ~Exhausted /\ ~winding /\ Decide("RUNNING", "delay") /\ pc' = "top"

\* What the vendor made of the turn comes before what the turn says of the work.
AfterTurn(c, v) ==
  \/ c = "auth" /\ Fail /\ pc' = "top" /\ UNCHANGED <<accepted, rejected, since>>
  \/ /\ c = "rejected" /\ EnterWaiting(0) /\ pc' = "top"
     /\ rejected' = IF rejected < MaxTurns THEN rejected + 1 ELSE rejected
     /\ UNCHANGED <<accepted, since>>
  \/ /\ c = "available"
     /\ accepted' = accepted + 1 /\ UNCHANGED rejected
     /\ since' = IF since = 1 THEN 2 ELSE since
     /\ \/ v = "done" /\ Decide("COMPLETE", "finish") /\ waited' = 0 /\ pc' = "top"
        \/ v = "blocked" /\ Fail /\ pc' = "top"
        \/ v = "continue" /\ GoOn

\* A new session's lock is taken after the first turn that told its id, and until
\* then it is not looked at.
Answered(c, v) ==
  /\ pc = "turn"
  /\ \/ lock # "rival" /\ known' = TRUE /\ lock' = "mine"
     \/ ~known /\ UNCHANGED <<known, lock>>
  /\ AfterTurn(c, v)
  /\ ConsiderAutoModel
  /\ status' = Persisted(phase')
  /\ UNCHANGED <<inbox, winding, wanted, live, kept, marker, given, faults>>
Overtaken ==
  /\ pc = "turn" /\ lock = "rival"
  /\ known' = TRUE /\ UNCHANGED lock
  /\ FailClosed

NaturalBreak ==
  /\ pc = "break" /\ Poll
  /\ pc' = "top"
  /\ UNCHANGED <<phase, decision, ledger, session, record, given, faults>>

\* A delay between turns, or a wait for the next probe; asleep, the inbox is polled.
Rest ==
  /\ pc = "go" /\ decision \in {"delay", "probe"}
  /\ pc' = "asleep"
  /\ UNCHANGED <<phase, decision, ledger, inbox, winding, model, wanted, session, record,
                 given, since, faults>>
Doze ==
  /\ pc = "asleep" /\ inbox # {} /\ Poll
  /\ UNCHANGED <<pc, phase, decision, ledger, session, record, given, faults>>
Wake ==
  /\ pc = "asleep" /\ inbox = {}
  /\ \/ decision = "delay" /\ decision' = "send" /\ pc' = "top" /\ UNCHANGED waited
     \/ /\ decision = "probe" /\ UNCHANGED decision /\ pc' = "probing"
        /\ waited' \in waited .. MaxWait
  /\ UNCHANGED <<phase, accepted, rejected, inbox, winding, model, wanted, session, record,
                 given, since, faults>>

Probed(c) ==
  /\ pc = "probing"
  /\ \/ /\ c = "available" /\ Decide("RUNNING", "send") /\ waited' = 0
        /\ status' = "active"
     \/ c = "rejected" /\ EnterWaiting(waited) /\ status' = Persisted(phase')
     \/ c = "auth" /\ Fail /\ status' = Persisted(phase')
  /\ pc' = "top"
  /\ UNCHANGED <<accepted, rejected, inbox, winding, model, wanted, session, kept, marker,
                 given, since, faults>>

-----------------------------------------------------------------------------
(* The end of a run                                                        *)

MPath == [
  finish    |-> [close |-> "meta", meta |-> "snapshot", snapshot |-> "release"],
  stop      |-> [close |-> "summary", summary |-> "meta", meta |-> "snapshot",
                 snapshot |-> "release"],
  wind_down |-> [close |-> "savepoint", savepoint |-> "summary", summary |-> "meta",
                 meta |-> "marker", marker |-> "snapshot", snapshot |-> "release"]]

\* What follows what in each end.  The marker says that all of it is on disk.
Path == [
  finish    |-> [close |-> "meta", meta |-> "snapshot", snapshot |-> "release"],
  stop      |-> [close |-> "summary", summary |-> "meta", meta |-> "snapshot",
                 snapshot |-> "release"],
  wind_down |-> [close |-> "savepoint", savepoint |-> "summary", summary |-> "meta",
                 meta |-> "snapshot", snapshot |-> "marker", marker |-> "release"]]
Ending == decision \in DOMAIN Path
Onward == pc' = Path[decision][pc]

Finish ==
  /\ pc = "go" /\ Ending
  /\ pc' = "close"
  /\ UNCHANGED <<phase, decision, ledger, inbox, winding, model, wanted, session, record,
                 given, since, faults>>

Close ==
  /\ pc = "close"
  /\ live' = FALSE /\ Onward
  /\ UNCHANGED <<phase, decision, ledger, inbox, winding, model, wanted, known, lock, record,
                 given, since, faults>>

\* The phase is persisted as well; a stop and a handoff are written again after it.
Meta ==
  /\ pc = "meta"
  /\ status' = CASE decision = "stop" -> "stopped"
                 [] decision = "wind_down" -> "handoff"
                 [] OTHER -> Persisted(phase)
  /\ Onward
  /\ UNCHANGED <<phase, decision, ledger, inbox, winding, model, wanted, session, kept, marker,
                 given, since, faults>>

Keep ==
  /\ pc \in {"savepoint", "summary", "snapshot"}
  /\ kept' = kept \cup {pc} /\ Onward
  /\ UNCHANGED <<phase, decision, ledger, inbox, winding, model, wanted, session, status, marker,
                 given, since, faults>>

\* handoff.json appears whole.
Mark ==
  /\ pc = "marker"
  /\ marker' = TRUE /\ Onward
  /\ UNCHANGED <<phase, decision, ledger, inbox, winding, model, wanted, session, status, kept,
                 given, since, faults>>

Release ==
  /\ pc = "release"
  /\ lock' = Released /\ pc' = "over"
  /\ UNCHANGED <<phase, decision, ledger, inbox, winding, model, wanted, known, live, record,
                 given, since, faults>>

\* An exception anywhere: the lock is released first, and the client closed after it.
Raise ==
  /\ pc \notin Ended \cup {"unwind"} /\ faults < MaxFaults
  /\ status' = "failed" /\ lock' = Released
  /\ pc' = "unwind" /\ faults' = faults + 1
  /\ UNCHANGED <<phase, decision, ledger, inbox, winding, model, wanted, known, live, kept, marker,
                 given, since>>
Unwind ==
  /\ pc = "unwind"
  /\ live' = FALSE /\ pc' = "over"
  /\ UNCHANGED <<phase, decision, ledger, inbox, winding, model, wanted, known, lock, record,
                 given, since, faults>>

\* A kill takes the client with it and leaves the lock file where it is.
Kill ==
  /\ pc \notin Ended /\ faults < MaxFaults
  /\ pc' = "killed" /\ live' = FALSE /\ faults' = faults + 1
  /\ UNCHANGED <<phase, decision, ledger, inbox, winding, model, wanted, known, lock, record,
                 given, since>>

Step ==
  \/ Start \/ Refused \/ Top \/ Stop \/ Send \/ Overtaken \/ NaturalBreak
  \/ Rest \/ Doze \/ Wake \/ Finish \/ Close \/ Meta \/ Keep \/ Mark \/ Release \/ Unwind
  \/ \E c \in Capacity : Preflight(c) \/ Probed(c) \/ \E v \in Verdicts : Answered(c, v)
Next ==
  \/ Step \/ Raise \/ Kill \/ RivalTakes \/ RivalLeaves
  \/ \E c \in Commands : Command(c)

Spec == Init /\ [][Next]_vars

\* The process runs on, and every turn and probe is answered in the end; nothing is
\* assumed of what the vendor answers, of the operator, or of the rival.
FairSpec == Spec /\ WF_vars(Step)

-----------------------------------------------------------------------------
(* Properties                                                              *)

Places == {"start", "preflight", "top", "go", "turn", "break", "asleep", "probing", "close",
           "savepoint", "summary", "meta", "snapshot", "marker", "release", "unwind"} \cup Ended
Decisions == {"none", "send", "delay", "probe", "finish", "stop", "wind_down"}
Sources == {"none", "config", "auto"} \cup OfProfile
Profiles == [model : Sources, effort : Sources]

TypeOK ==
  /\ pc \in Places /\ decision \in Decisions
  /\ phase \in {"PREFLIGHT", "RUNNING", "WAITING", "COMPLETE", "FAILED", "HANDOFF"}
  /\ accepted \in 0 .. MaxTurns /\ rejected \in 0 .. MaxTurns /\ waited \in 0 .. MaxWait
  /\ inbox \subseteq Commands /\ locked \in BOOLEAN /\ winding \in BOOLEAN
  /\ profile \in Profiles /\ pending \in Profiles 
  /\ asked \in [Fields -> {"none"} \cup OfProfile] /\ fresh \subseteq Fields
  /\ known \in BOOLEAN /\ live \in BOOLEAN /\ marker \in BOOLEAN
  /\ lock \in {"free", "mine", "rival"} /\ since \in 0 .. 2
  /\ status \in {"active", "waiting", "finished", "failed", "stopped", "handoff"}
  /\ kept \subseteq {"savepoint", "summary", "snapshot"}
  /\ given \in Nat /\ faults \in Nat

\* Two runners have a client on one session only while this one has not been told the
\* session's id, and while an exception closes the client.
OneDriver == lock = "rival" /\ live => pc = "unwind" \/ ~known

\* handoff.json is never there without everything it names, whatever killed the run,
\* and a run that wrote it sends no more turns.
MarkerIsComplete ==
  marker => /\ kept = {"savepoint", "summary", "snapshot"}
            /\ ~live /\ status \in {"handoff", "failed"}

\* A wind-down is not forgotten through rejections, waits and other commands: at most
\* one more turn is accepted, and the run ends after it.  Nothing is said of when: a
\* wait for capacity is slept to its end, and a turn is sent after it, although
\* the command's docstring says that it breaks the wait (domain/control.py:30-33).
WindDownHonoured ==
  since = 2 => Ending \/ pc \in Ended \cup {"unwind"}

\* A command about the profile that comes alone is in force from the next turn on,
\* until the operator names its field again: whatever the automatic policy queued
\* before it, through rejections and waits, and when the other half of the profile is
\* changed later.  Each docstring promises this of every command (domain/control.py:62,
\* 73, 83).  The code does not keep it for one that shares its batch with another or
\* with a wind-down, nor for one that another follows before the next turn
\* (Note excludes them): stop_outranks drops or reorders the first (208-221), and
\* _apply_control builds the second on the profile in force (runner.py:943-961).
LastCommandInForce ==
  pc = "turn" => \A f \in Fields : asked[f] # "none" => profile[f] = asked[f]

\* A stop is heard in every wait, and a wind-down in the same batch does not hide it:
\* the run ends although the vendor rejects every turn and grants every probe.
StopIsHeard == "stop" \in inbox ~> pc \in Ended
=============================================================================
