----------------------------- MODULE RunLoopProofs -----------------------------
(***************************************************************************)
(* The safety properties of RunLoop for any budget, any vendor, operator   *)
(* and rival, and any number of exceptions and kills.                      *)
(***************************************************************************)
EXTENDS RunLoop, TLAPS

\* A turn is sent only while the budget admits it.
Budgeted ==
  /\ pc \in {"start", "preflight"} => accepted = 0 /\ since = 0
  /\ pc = "turn" => decision = "send"
  /\ pc = "probing" => decision = "probe"
  /\ decision \in {"send", "delay", "probe"} => accepted < MaxTurns

\* A process that knows its session and is not at either end holds the lock, and
\* only a process that may be in a turn has a client.
Driven ==
  /\ live => pc \in {"top", "go", "turn", "break", "asleep", "probing", "close", "unwind"}
  /\ known /\ pc \notin {"start", "unwind"} \cup Ended => lock = "mine"

\* Each place of an end is on the path of its decision, and what comes earlier on
\* the path is done.
Recorded ==
  /\ pc \in {"close", "meta", "snapshot", "release"} =>
       decision \in {"finish", "stop", "wind_down"}
  /\ pc \in {"savepoint", "marker"} => decision = "wind_down"
  /\ pc = "summary" => decision \in {"stop", "wind_down"}
  /\ decision = "wind_down" =>
       /\ pc \in {"summary", "meta", "snapshot", "marker", "release"} => "savepoint" \in kept
       /\ pc \in {"meta", "snapshot", "marker", "release"} => "summary" \in kept
       /\ pc \in {"marker", "release"} => "snapshot" \in kept
       /\ pc \in {"snapshot", "marker", "release"} => status = "handoff"
  /\ marker =>
       /\ pc \in {"release", "unwind"} \cup Ended
       /\ kept = {"savepoint", "summary", "snapshot"}
       /\ ~live /\ status \in {"handoff", "failed"}

\* A wind-down that was heard is held, and the turn after it decided the end.
Heeded ==
  /\ since > 0 => winding
  /\ since = 2 => decision \in {"finish", "stop", "wind_down"} \/ pc \in Ended \cup {"unwind"}

\* What the operator may expect is in the profile of the next turn, and what was not
\* touched since the last one is in that of this one.
NextProfile == IF pending = Nothing THEN profile ELSE pending
Expected ==
  \A f \in Fields : asked[f] # "none" =>
    /\ locked
    /\ NextProfile[f] = asked[f]
    /\ f \notin fresh => profile[f] = asked[f]
Profiled == Expected /\ (pc = "turn" => pending = Nothing)

IInv == TypeOK /\ Budgeted /\ Driven /\ Recorded /\ Heeded /\ Profiled

USE DEF ledger, model, wanted, session, record, Ended, Whole, Nothing, Decide, Fields, OfProfile

-----------------------------------------------------------------------------
(* Shared steps                                                            *)

\* Where an end goes on from each of its places.
LEMMA PathSteps ==
  ASSUME IInv, Onward, pc \in {"close", "savepoint", "summary", "meta", "snapshot", "marker"}
  PROVE  /\ pc = "close" => \/ decision = "finish" /\ pc' = "meta"
                            \/ decision = "stop" /\ pc' = "summary"
                            \/ decision = "wind_down" /\ pc' = "savepoint"
         /\ pc = "savepoint" => pc' = "summary"
         /\ pc = "summary" => pc' = "meta"
         /\ pc = "meta" => pc' = "snapshot"
         /\ pc = "snapshot" => pc' = IF decision = "wind_down" THEN "marker" ELSE "release"
         /\ pc = "marker" => pc' = "release"
<1>1. decision \in {"finish", "stop", "wind_down"}
  BY DEF IInv, Recorded
<1>2. CASE decision = "finish"
  BY <1>2 DEF IInv, Recorded, Onward, Path
<1>3. CASE decision = "stop"
  BY <1>3 DEF IInv, Recorded, Onward, Path
<1>4. CASE decision = "wind_down"
  BY <1>4 DEF IInv, Recorded, Onward, Path
<1> QED BY <1>1, <1>2, <1>3, <1>4

\* Where the ends are.
LEMMA EndingIs == Ending <=> decision \in {"finish", "stop", "wind_down"}
BY DEF Ending, Path

\* A profile is a source for either field.
LEMMA ProfileIs ==
  /\ \A p \in Profiles : p.model \in Sources /\ p.effort \in Sources
                         /\ p["model"] = p.model /\ p["effort"] = p.effort
  /\ \A p \in Profiles, x \in Sources :
       /\ [p EXCEPT !.model = x] \in Profiles /\ [p EXCEPT !.effort = x] \in Profiles
       /\ [p EXCEPT !.model = x].model = x /\ [p EXCEPT !.model = x].effort = p.effort
       /\ [p EXCEPT !.effort = x].effort = x /\ [p EXCEPT !.effort = x].model = p.model
BY DEF Profiles

\* What a batch leaves the operator to expect: a command that is alone names what the
\* fields follow from now on, and other commands only take something away.
LEMMA NoteIs ==
  ASSUME IInv, Note
  PROVE  /\ asked' \in [Fields -> {"none"} \cup OfProfile] /\ fresh' \subseteq Fields
         /\ fresh' = fresh \cup Named
         /\ \A f \in Fields :
              \/ \E c \in OfProfile : inbox = {c} /\ f \in Names(c) /\ asked'[f] = c /\ f \in fresh'
              \/ asked'[f] = "none"
              \/ asked'[f] = asked[f] /\ f \notin Named /\ (Named = {} \/ f \notin fresh)
<1>1. Named \subseteq Fields
  BY DEF Named, Names
<1>2. /\ fresh' = fresh \cup Named /\ fresh' \subseteq Fields
      /\ asked \in [Fields -> {"none"} \cup OfProfile]
  BY <1>1 DEF Note, IInv, TypeOK
<1>3. ASSUME NEW f \in Fields
      PROVE  \/ \E c \in OfProfile : inbox = {c} /\ f \in Names(c) /\ asked'[f] = c /\ f \in fresh'
             \/ asked'[f] = "none"
             \/ asked'[f] = asked[f] /\ f \notin Named /\ (Named = {} \/ f \notin fresh)
  <2>1. CASE \E c \in OfProfile : inbox = {c} /\ f \in Names(c)
    <3>1. PICK c \in OfProfile : inbox = {c} /\ f \in Names(c)
      BY <2>1
    <3>2. (CHOOSE d \in OfProfile : inbox = {d}) = c
      BY <3>1
    <3>3. asked'[f] = c
      BY <2>1, <3>2 DEF Note
    <3>4. f \in fresh'
      BY <1>2, <3>1 DEF Named
    <3> QED BY <3>1, <3>3, <3>4
  <2>2. CASE ~(\E c \in OfProfile : inbox = {c} /\ f \in Names(c))
    <3>1. asked'[f] = IF f \in Named \/ (f \in fresh /\ Named # {}) THEN "none" ELSE asked[f]
      BY <2>2 DEF Note
    <3> QED BY <3>1
  <2> QED BY <2>1, <2>2
<1>4. asked' = [f \in Fields |-> asked'[f]]
  BY DEF Note
<1>5. \A f \in Fields : asked'[f] \in {"none"} \cup OfProfile
  BY <1>2, <1>3
<1> HIDE DEF Fields, OfProfile
<1>6. asked' \in [Fields -> {"none"} \cup OfProfile]
  BY <1>4, <1>5
<1> QED BY <1>2, <1>3, <1>6

\* What the poll of a batch does to what a wind-down and a profile rest on.
LEMMA PollKeeps ==
  ASSUME IInv, Poll
  PROVE  /\ inbox' = {} /\ locked' \in BOOLEAN /\ winding' \in BOOLEAN /\ since' \in 0 .. 2
         /\ profile' \in Profiles /\ pending' \in Profiles
         /\ asked' \in [Fields -> {"none"} \cup OfProfile] /\ fresh' \subseteq Fields
         /\ since' > 0 => winding'
         /\ since' = 2 => since = 2
         /\ Expected'
<1>1. winding' \in BOOLEAN /\ (winding => winding') /\ (Heard("wind_down") => winding')
  BY Zenon DEF Poll, HoldWindDown
<1>2. since' \in 0 .. 2 /\ (since' = 2 => since = 2)
  BY DEF Poll, IInv, TypeOK
<1>3. since' > 0 => winding'
  BY <1>1 DEF Poll, IInv, Heeded
<1>4. locked' \in BOOLEAN
  BY Zenon DEF Poll, ApplyProfile, IInv, TypeOK, model
<1>5. profile \in Profiles /\ pending \in Profiles /\ profile' = profile
  BY DEF Poll, ApplyProfile, IInv, TypeOK
<1>6. CASE ApplyProfile /\ ~Heard("wind_down")
  <2>1. /\ pending' \in Profiles /\ pending' # Nothing /\ locked'
        /\ \A f \in Fields : f \notin Named => pending'[f] = profile[f]
        /\ \A c \in OfProfile : inbox = {c} => \A f \in Names(c) : pending'[f] = c
    <3>1. CASE Heard("set_effort") /\ Queue([profile EXCEPT !.effort = "set_effort"])
      <4>1. pending' = [profile EXCEPT !.effort = "set_effort"] /\ "set_effort" \in Sources
        BY <3>1 DEF Queue, Sources
      <4>2. /\ pending' \in Profiles /\ pending'.effort = "set_effort"
            /\ pending'.model = profile.model /\ "effort" \in Named
        BY <1>5, <3>1, <4>1, ProfileIs DEF Heard, Named, Names
      <4>3. \A c \in OfProfile : inbox = {c} => c = "set_effort"
        BY <3>1 DEF Heard
      <4> QED BY <1>6, <4>2, <4>3 DEF Names, ApplyProfile
    <3>2. CASE Heard("set_model") /\ ~Heard("set_effort") /\ Queue([profile EXCEPT !.model = "set_model"])
      <4>1. pending' = [profile EXCEPT !.model = "set_model"] /\ "set_model" \in Sources
        BY <3>2 DEF Queue, Sources
      <4>2. /\ pending' \in Profiles /\ pending'.model = "set_model"
            /\ pending'.effort = profile.effort /\ "model" \in Named
        BY <1>5, <3>2, <4>1, ProfileIs DEF Heard, Named, Names
      <4>3. \A c \in OfProfile : inbox = {c} => c = "set_model"
        BY <3>2 DEF Heard
      <4> QED BY <1>6, <4>2, <4>3 DEF Names, ApplyProfile
    <3>3. CASE Heard("set_preset") /\ ~Heard("set_model") /\ ~Heard("set_effort")
               /\ Queue(Whole("set_preset"))
      <4>1. /\ pending' = [model |-> "set_preset", effort |-> "set_preset"]
            /\ pending' \in Profiles
        BY <3>3 DEF Queue, Profiles, Sources
      <4>2. Fields \subseteq Named
        BY <3>3 DEF Heard, Named, Names
      <4>3. \A c \in OfProfile : inbox = {c} => c = "set_preset"
        BY <3>3 DEF Heard
      <4> QED BY <1>6, <4>1, <4>2, <4>3 DEF Names, ApplyProfile
    <3> QED BY <1>6, <3>1, <3>2, <3>3 DEF ApplyProfile
  <2>2. Note
    BY DEF Poll
  <2>3. ASSUME NEW f \in Fields, asked'[f] # "none"
        PROVE  locked' /\ NextProfile'[f] = asked'[f] /\ (f \notin fresh' => profile'[f] = asked'[f])
    <3>1. NextProfile' = pending'
      BY <2>1 DEF NextProfile
    <3>2. CASE \E c \in OfProfile : inbox = {c} /\ f \in Names(c) /\ asked'[f] = c /\ f \in fresh'
      BY <2>1, <3>1, <3>2
    <3>3. CASE asked'[f] = asked[f] /\ f \notin Named /\ (Named = {} \/ f \notin fresh)
      <4>1. Named # {}
        BY <1>6 DEF ApplyProfile, Named, Names, Heard
      <4>2. profile[f] = asked[f]
        BY <2>3, <3>3, <4>1 DEF IInv, Profiled, Expected
      <4> QED BY <1>5, <2>1, <3>1, <3>3, <4>2
    <3> QED BY <2>2, <2>3, <3>2, <3>3, NoteIs
  <2> QED BY <1>1, <1>2, <1>3, <1>4, <1>5, <2>1, <2>2, <2>3, NoteIs DEF Poll, Expected
<1>7. CASE UNCHANGED model
  <2>1. Note
    BY DEF Poll
  <2>2. ASSUME NEW f \in Fields, asked'[f] # "none"
        PROVE  locked' /\ NextProfile'[f] = asked'[f] /\ (f \notin fresh' => profile'[f] = asked'[f])
    <3>1. NextProfile' = NextProfile /\ locked' = locked
      BY <1>7 DEF NextProfile
    <3>2. Heard("wind_down") \/ inbox \cap OfProfile = {} \/ ApplyProfile
      BY DEF Poll
    <3>3. CASE \E c \in OfProfile : inbox = {c} /\ f \in Names(c) /\ asked'[f] = c /\ f \in fresh'
      <4>1. ApplyProfile /\ ~Heard("wind_down")
        BY <3>2, <3>3 DEF Heard, Poll
      <4> QED BY <1>6, <2>2, <4>1 DEF Expected
    <3>4. CASE asked'[f] = asked[f] /\ f \notin Named
      BY <1>5, <2>1, <2>2, <3>1, <3>4, NoteIs DEF IInv, Profiled, Expected
    <3> QED BY <2>1, <2>2, <3>3, <3>4, NoteIs
  <2> QED BY <1>1, <1>2, <1>3, <1>4, <1>5, <1>7, <2>1, <2>2, NoteIs DEF Poll, Expected
<1> QED BY <1>6, <1>7 DEF Poll

-----------------------------------------------------------------------------
(* The invariant                                                           *)

\* A run starts in the invariant.
LEMMA InvInit == Init => IInv
<1> SUFFICES ASSUME Init PROVE IInv
  OBVIOUS
<1>1. TypeOK
  <2>1. known \in BOOLEAN /\ live \in BOOLEAN /\ winding \in BOOLEAN /\ locked \in BOOLEAN /\ marker \in BOOLEAN
    BY Zenon DEF Init
  <2> QED BY <2>1, LimitAssumption DEF Init, TypeOK, Places, Decisions, Profiles, Sources, Commands
<1>2. Budgeted /\ Driven /\ Recorded
  BY LimitAssumption DEF Init, Budgeted, Driven, Recorded
<1>3. Heeded /\ Profiled
  BY DEF Init, Heeded, Profiled, Expected
<1> QED BY <1>1, <1>2, <1>3 DEF IInv

\* Every step keeps it: one step per action, and under it the parts of the invariant.
LEMMA InvNext == IInv /\ [Next]_vars => IInv'
<1> SUFFICES ASSUME IInv, [Next]_vars PROVE IInv'
  OBVIOUS
<1> USE LimitAssumption DEF IInv, TypeOK, Places, Decisions, Profiles, Sources
<1>1. CASE Start
  <2>1. TypeOK'
    BY <1>1 DEF Start, Budgeted, Recorded
  <2>2. Budgeted' /\ Driven'
    BY <1>1 DEF Start, Budgeted, Driven
  <2>3. Recorded'
    BY <1>1 DEF Start, Recorded, Driven, Budgeted
  <2>4. Heeded' /\ Profiled'
    BY <1>1 DEF Start, Heeded, Budgeted, Profiled, Expected, NextProfile
  <2> QED BY <2>1, <2>2, <2>3, <2>4
<1>2. CASE Refused
  <2>1. TypeOK'
    <3>1. live' \in BOOLEAN
      BY <1>2, Zenon DEF Refused, FailClosed
    <3> QED BY <3>1, <1>2 DEF Refused, FailClosed, Budgeted, Recorded
  <2>2. Budgeted' /\ Driven'
    BY <1>2 DEF Refused, FailClosed, Budgeted, Driven
  <2>3. Recorded'
    BY <1>2 DEF Refused, FailClosed, Recorded, Driven, Budgeted
  <2>4. Heeded' /\ Profiled'
    BY <1>2 DEF Refused, FailClosed, Heeded, Budgeted, Profiled, Expected, NextProfile
  <2> QED BY <2>1, <2>2, <2>3, <2>4
<1>3. CASE Top
  <2>1. TypeOK'
    BY <1>3, PollKeeps DEF Top, Poll, Budgeted, Recorded
  <2>2. Budgeted' /\ Driven'
    BY <1>3, PollKeeps DEF Top, Poll, Budgeted, Driven
  <2>3. Recorded'
    BY <1>3, PollKeeps DEF Top, Poll, Recorded, Driven, Budgeted
  <2>4. Heeded'
    BY <1>3, PollKeeps DEF Top, Poll, Heeded, Budgeted
  <2>5. Profiled'
    BY <1>3, PollKeeps DEF Top, Poll, Profiled
  <2> QED BY <2>1, <2>2, <2>3, <2>4, <2>5
<1>4. CASE Stop
  <2>1. TypeOK'
    BY <1>4 DEF Stop, Stops, Heard, Budgeted, Recorded
  <2>2. Budgeted' /\ Driven'
    BY <1>4 DEF Stop, Stops, Heard, Budgeted, Driven
  <2>3. Recorded'
    BY <1>4 DEF Stop, Stops, Heard, Recorded, Driven, Budgeted
  <2>4. Heeded' /\ Profiled'
    BY <1>4 DEF Stop, Stops, Heard, Heeded, Budgeted, Profiled, Expected, NextProfile
  <2> QED BY <2>1, <2>2, <2>3, <2>4
<1>5. CASE Send
  <2>1. TypeOK'
    BY <1>5 DEF Send, Budgeted, Recorded
  <2>2. Budgeted' /\ Driven'
    BY <1>5 DEF Send, Budgeted, Driven
  <2>3. Recorded'
    BY <1>5 DEF Send, Recorded, Driven, Budgeted
  <2>4. Heeded' /\ Profiled'
    BY <1>5 DEF Send, Heeded, Budgeted, Profiled, Expected, NextProfile
  <2> QED BY <2>1, <2>2, <2>3, <2>4
<1>6. CASE Overtaken
  <2>1. TypeOK'
    <3>1. live' \in BOOLEAN
      BY <1>6, Zenon DEF Overtaken, FailClosed
    <3> QED BY <3>1, <1>6 DEF Overtaken, FailClosed, Budgeted, Recorded
  <2>2. Budgeted' /\ Driven'
    BY <1>6 DEF Overtaken, FailClosed, Budgeted, Driven
  <2>3. Recorded'
    BY <1>6 DEF Overtaken, FailClosed, Recorded, Driven, Budgeted
  <2>4. Heeded' /\ Profiled'
    BY <1>6 DEF Overtaken, FailClosed, Heeded, Budgeted, Profiled, Expected, NextProfile
  <2> QED BY <2>1, <2>2, <2>3, <2>4
<1>7. CASE NaturalBreak
  <2>1. TypeOK'
    BY <1>7, PollKeeps DEF NaturalBreak, Poll, Budgeted, Recorded
  <2>2. Budgeted' /\ Driven'
    BY <1>7, PollKeeps DEF NaturalBreak, Poll, Budgeted, Driven
  <2>3. Recorded'
    BY <1>7, PollKeeps DEF NaturalBreak, Poll, Recorded, Driven, Budgeted
  <2>4. Heeded'
    BY <1>7, PollKeeps DEF NaturalBreak, Poll, Heeded, Budgeted
  <2>5. Profiled'
    BY <1>7, PollKeeps DEF NaturalBreak, Poll, Profiled
  <2> QED BY <2>1, <2>2, <2>3, <2>4, <2>5
<1>8. CASE Rest
  <2>1. TypeOK'
    BY <1>8 DEF Rest, Budgeted, Recorded
  <2>2. Budgeted' /\ Driven'
    BY <1>8 DEF Rest, Budgeted, Driven
  <2>3. Recorded'
    BY <1>8 DEF Rest, Recorded, Driven, Budgeted
  <2>4. Heeded' /\ Profiled'
    BY <1>8 DEF Rest, Heeded, Budgeted, Profiled, Expected, NextProfile
  <2> QED BY <2>1, <2>2, <2>3, <2>4
<1>9. CASE Doze
  <2>1. TypeOK'
    BY <1>9, PollKeeps DEF Doze, Poll, Budgeted, Recorded
  <2>2. Budgeted' /\ Driven'
    BY <1>9, PollKeeps DEF Doze, Poll, Budgeted, Driven
  <2>3. Recorded'
    BY <1>9, PollKeeps DEF Doze, Poll, Recorded, Driven, Budgeted
  <2>4. Heeded'
    BY <1>9, PollKeeps DEF Doze, Poll, Heeded, Budgeted
  <2>5. Profiled'
    BY <1>9, PollKeeps DEF Doze, Poll, Profiled
  <2> QED BY <2>1, <2>2, <2>3, <2>4, <2>5
<1>10. CASE Wake
  <2>1. TypeOK'
    BY <1>10 DEF Wake, Budgeted, Recorded
  <2>2. Budgeted' /\ Driven'
    BY <1>10 DEF Wake, Budgeted, Driven
  <2>3. Recorded'
    BY <1>10 DEF Wake, Recorded, Driven, Budgeted
  <2>4. Heeded' /\ Profiled'
    BY <1>10 DEF Wake, Heeded, Budgeted, Profiled, Expected, NextProfile
  <2> QED BY <2>1, <2>2, <2>3, <2>4
<1>11. CASE Finish
  <2>1. TypeOK'
    BY <1>11, EndingIs DEF Finish, Budgeted, Recorded
  <2>2. Budgeted' /\ Driven'
    BY <1>11, EndingIs DEF Finish, Budgeted, Driven
  <2>3. Recorded'
    BY <1>11, EndingIs DEF Finish, Recorded, Driven, Budgeted
  <2>4. Heeded' /\ Profiled'
    BY <1>11, EndingIs DEF Finish, Heeded, Budgeted, Profiled, Expected, NextProfile
  <2> QED BY <2>1, <2>2, <2>3, <2>4
<1>12. CASE Close
  <2>1. TypeOK'
    <3>1. live' \in BOOLEAN
      BY <1>12, Zenon DEF Close
    <3> QED BY <3>1, <1>12, PathSteps DEF Close, Budgeted, Recorded
  <2>2. Budgeted' /\ Driven'
    BY <1>12, PathSteps DEF Close, Budgeted, Driven
  <2>3. Recorded'
    BY <1>12, PathSteps DEF Close, Recorded, Driven, Budgeted
  <2>4. Heeded' /\ Profiled'
    BY <1>12, PathSteps DEF Close, Heeded, Budgeted, Profiled, Expected, NextProfile
  <2> QED BY <2>1, <2>2, <2>3, <2>4
<1>13. CASE Meta
  <2>1. TypeOK'
    BY <1>13, PathSteps DEF Meta, Persisted, Budgeted, Recorded
  <2>2. Budgeted' /\ Driven'
    BY <1>13, PathSteps DEF Meta, Persisted, Budgeted, Driven
  <2>3. Recorded'
    BY <1>13, PathSteps DEF Meta, Persisted, Recorded, Driven, Budgeted
  <2>4. Heeded' /\ Profiled'
    BY <1>13, PathSteps DEF Meta, Persisted, Heeded, Budgeted, Profiled, Expected, NextProfile
  <2> QED BY <2>1, <2>2, <2>3, <2>4
<1>14. CASE Keep
  <2>1. TypeOK'
    BY <1>14, PathSteps DEF Keep, Budgeted, Recorded
  <2>2. Budgeted' /\ Driven'
    BY <1>14, PathSteps DEF Keep, Budgeted, Driven
  <2>3. Recorded'
    BY <1>14, PathSteps DEF Keep, Recorded, Driven, Budgeted
  <2>4. Heeded' /\ Profiled'
    BY <1>14, PathSteps DEF Keep, Heeded, Budgeted, Profiled, Expected, NextProfile
  <2> QED BY <2>1, <2>2, <2>3, <2>4
<1>15. CASE Mark
  <2>1. TypeOK'
    BY <1>15, PathSteps DEF Mark, Budgeted, Recorded
  <2>2. Budgeted' /\ Driven'
    BY <1>15, PathSteps DEF Mark, Budgeted, Driven
  <2>3. Recorded'
    BY <1>15, PathSteps DEF Mark, Recorded, Driven, Budgeted
  <2>4. Heeded' /\ Profiled'
    BY <1>15, PathSteps DEF Mark, Heeded, Budgeted, Profiled, Expected, NextProfile
  <2> QED BY <2>1, <2>2, <2>3, <2>4
<1>16. CASE Release
  <2>1. TypeOK'
    BY <1>16 DEF Release, Released, Mine, Budgeted, Recorded
  <2>2. Budgeted' /\ Driven'
    BY <1>16 DEF Release, Released, Mine, Budgeted, Driven
  <2>3. Recorded'
    BY <1>16 DEF Release, Released, Mine, Recorded, Driven, Budgeted
  <2>4. Heeded' /\ Profiled'
    BY <1>16 DEF Release, Released, Mine, Heeded, Budgeted, Profiled, Expected, NextProfile
  <2> QED BY <2>1, <2>2, <2>3, <2>4
<1>17. CASE Unwind
  <2>1. TypeOK'
    <3>1. live' \in BOOLEAN
      BY <1>17, Zenon DEF Unwind
    <3> QED BY <3>1, <1>17 DEF Unwind, Budgeted, Recorded
  <2>2. Budgeted' /\ Driven'
    BY <1>17 DEF Unwind, Budgeted, Driven
  <2>3. Recorded'
    BY <1>17 DEF Unwind, Recorded, Driven, Budgeted
  <2>4. Heeded' /\ Profiled'
    BY <1>17 DEF Unwind, Heeded, Budgeted, Profiled, Expected, NextProfile
  <2> QED BY <2>1, <2>2, <2>3, <2>4
<1>18. CASE \E c \in Capacity : Preflight(c)
  <2>1. TypeOK'
    BY <1>18 DEF Preflight, EnterWaiting, Fail, Persisted, Budgeted, Recorded
  <2>2. Budgeted' /\ Driven'
    BY <1>18 DEF Preflight, EnterWaiting, Fail, Persisted, Budgeted, Driven
  <2>3. Recorded'
    BY <1>18 DEF Preflight, EnterWaiting, Fail, Persisted, Recorded, Driven, Budgeted
  <2>4. Heeded' /\ Profiled'
    BY <1>18 DEF Preflight, EnterWaiting, Fail, Persisted, Heeded, Budgeted, Profiled,
         Expected, NextProfile
  <2> QED BY <2>1, <2>2, <2>3, <2>4
<1>19. CASE \E c \in Capacity : Probed(c)
  <2>1. TypeOK'
    BY <1>19 DEF Probed, EnterWaiting, Fail, Persisted, Budgeted, Recorded
  <2>2. Budgeted' /\ Driven'
    BY <1>19 DEF Probed, EnterWaiting, Fail, Persisted, Budgeted, Driven
  <2>3. Recorded'
    BY <1>19 DEF Probed, EnterWaiting, Fail, Persisted, Recorded, Driven, Budgeted
  <2>4. Heeded' /\ Profiled'
    BY <1>19 DEF Probed, EnterWaiting, Fail, Persisted, Heeded, Budgeted, Profiled,
         Expected, NextProfile
  <2> QED BY <2>1, <2>2, <2>3, <2>4
<1>20. CASE \E c \in Capacity, v \in Verdicts : Answered(c, v)
  <2>1. TypeOK'
    <3> PICK c \in Capacity, v \in Verdicts : Answered(c, v)
      BY <1>20
    <3>1. profile' \in Profiles /\ pending' \in Profiles
      BY DEF Answered, ConsiderAutoModel, Queue
    <3>2. locked' \in BOOLEAN /\ known' \in BOOLEAN
      BY Zenon DEF Answered, ConsiderAutoModel
    <3>3. /\ accepted' \in 0 .. MaxTurns /\ rejected' \in 0 .. MaxTurns /\ waited' \in 0 .. MaxWait
          /\ phase' \in {"PREFLIGHT", "RUNNING", "WAITING", "COMPLETE", "FAILED", "HANDOFF"}
          /\ decision' \in Decisions /\ pc' \in Places /\ since' \in 0 .. 2
      BY DEF Answered, AfterTurn, GoOn, Exhausted, Spent, EnterWaiting, Fail, Budgeted
    <3>4. status' \in {"active", "waiting", "finished", "failed", "stopped", "handoff"}
      BY DEF Answered, Persisted
    <3>5. lock' \in {"free", "mine", "rival"}
      BY DEF Answered
    <3> QED BY <3>1, <3>2, <3>3, <3>4, <3>5 DEF Answered
  <2>2. Budgeted' /\ Driven'
    BY <1>20 DEF Answered, AfterTurn, GoOn, Exhausted, Spent, EnterWaiting, Fail, Persisted,
         ConsiderAutoModel, Queue, Budgeted, Driven
  <2>3. Recorded'
    BY <1>20 DEF Answered, AfterTurn, GoOn, Exhausted, Spent, EnterWaiting, Fail, Persisted,
         ConsiderAutoModel, Queue, Recorded, Driven, Budgeted
  <2>4. Heeded' /\ Profiled'
    BY <1>20 DEF Answered, AfterTurn, GoOn, Exhausted, Spent, EnterWaiting, Fail, Persisted,
         ConsiderAutoModel, Queue, Heeded, Budgeted, Profiled, Expected, NextProfile
  <2> QED BY <2>1, <2>2, <2>3, <2>4
<1>21. CASE Raise
  <2>1. TypeOK'
    BY <1>21 DEF Raise, Released, Mine, Budgeted, Recorded
  <2>2. Budgeted' /\ Driven'
    BY <1>21 DEF Raise, Released, Mine, Budgeted, Driven
  <2>3. Recorded'
    BY <1>21 DEF Raise, Released, Mine, Recorded, Driven, Budgeted
  <2>4. Heeded' /\ Profiled'
    BY <1>21 DEF Raise, Released, Mine, Heeded, Budgeted, Profiled, Expected, NextProfile
  <2> QED BY <2>1, <2>2, <2>3, <2>4
<1>22. CASE Kill
  <2>1. TypeOK'
    <3>1. live' \in BOOLEAN
      BY <1>22, Zenon DEF Kill
    <3> QED BY <3>1, <1>22 DEF Kill, Budgeted, Recorded
  <2>2. Budgeted' /\ Driven'
    BY <1>22 DEF Kill, Budgeted, Driven
  <2>3. Recorded'
    BY <1>22 DEF Kill, Recorded, Driven, Budgeted
  <2>4. Heeded' /\ Profiled'
    BY <1>22 DEF Kill, Heeded, Budgeted, Profiled, Expected, NextProfile
  <2> QED BY <2>1, <2>2, <2>3, <2>4
<1>23. CASE RivalTakes
  <2>1. TypeOK'
    BY <1>23 DEF RivalTakes, Budgeted, Recorded
  <2>2. Budgeted' /\ Driven'
    BY <1>23 DEF RivalTakes, Budgeted, Driven
  <2>3. Recorded'
    BY <1>23 DEF RivalTakes, Recorded, Driven, Budgeted
  <2>4. Heeded' /\ Profiled'
    BY <1>23 DEF RivalTakes, Heeded, Budgeted, Profiled, Expected, NextProfile
  <2> QED BY <2>1, <2>2, <2>3, <2>4
<1>24. CASE RivalLeaves
  <2>1. TypeOK'
    BY <1>24 DEF RivalLeaves, Budgeted, Recorded
  <2>2. Budgeted' /\ Driven'
    BY <1>24 DEF RivalLeaves, Budgeted, Driven
  <2>3. Recorded'
    BY <1>24 DEF RivalLeaves, Recorded, Driven, Budgeted
  <2>4. Heeded' /\ Profiled'
    BY <1>24 DEF RivalLeaves, Heeded, Budgeted, Profiled, Expected, NextProfile
  <2> QED BY <2>1, <2>2, <2>3, <2>4
<1>25. CASE \E c \in Commands : Command(c)
  <2>1. TypeOK'
    BY <1>25 DEF Command, Budgeted, Recorded, Commands
  <2>2. Budgeted' /\ Driven'
    BY <1>25 DEF Command, Budgeted, Driven
  <2>3. Recorded'
    BY <1>25 DEF Command, Recorded, Driven, Budgeted
  <2>4. Heeded' /\ Profiled'
    BY <1>25 DEF Command, Heeded, Budgeted, Profiled, Expected, NextProfile
  <2> QED BY <2>1, <2>2, <2>3, <2>4
<1>26. CASE UNCHANGED vars
  <2>1. TypeOK'
    BY <1>26 DEF vars, Budgeted, Recorded
  <2>2. Budgeted' /\ Driven'
    BY <1>26 DEF vars, Budgeted, Driven
  <2>3. Recorded'
    BY <1>26 DEF vars, Recorded, Driven, Budgeted
  <2>4. Heeded' /\ Profiled'
    BY <1>26 DEF vars, Heeded, Budgeted, Profiled, Expected, NextProfile
  <2> QED BY <2>1, <2>2, <2>3, <2>4
<1> QED
  BY <1>1, <1>2, <1>3, <1>4, <1>5, <1>6, <1>7, <1>8, <1>9, <1>10, <1>11, <1>12, <1>13,
       <1>14, <1>15, <1>16, <1>17, <1>18, <1>19, <1>20, <1>21, <1>22, <1>23, <1>24, <1>25,
       <1>26 DEF Next, Step

\* The invariant holds throughout a run.
THEOREM Invariance == Spec => []IInv
<1>1. Init => IInv
  BY InvInit
<1>2. IInv /\ [Next]_vars => IInv'
  BY InvNext
<1> QED BY <1>1, <1>2, PTL DEF Spec

-----------------------------------------------------------------------------
(* The properties                                                          *)

\* Every variable has its type; the accepted turns never exceed max_turns, since
\* no turn is sent without room for it.
THEOREM TypeCorrect == Spec => []TypeOK
<1>1. IInv => TypeOK
  BY DEF IInv
<1> QED BY <1>1, Invariance, PTL

\* A session has one client, but for the two windows that OneDriver names: the lock is
\* looked at before the first turn of a session that is known, and after the first that
\* told its id.
THEOREM OneClient == Spec => []OneDriver
<1>1. IInv => OneDriver
  BY DEF IInv, Driven, OneDriver
<1> QED BY <1>1, Invariance, PTL

\* The marker of a handoff vouches for a complete record.
THEOREM MarkedIsComplete == Spec => []MarkerIsComplete
<1>1. IInv => MarkerIsComplete
  BY DEF IInv, Recorded, MarkerIsComplete
<1> QED BY <1>1, Invariance, PTL

\* One more turn at most is accepted after a wind-down.
THEOREM WindDownsAreHonoured == Spec => []WindDownHonoured
<1>1. IInv => WindDownHonoured
  BY EndingIs DEF IInv, Heeded, WindDownHonoured
<1> QED BY <1>1, Invariance, PTL

\* Whatever is polled when, and whatever the automatic policy queues, every turn runs on
\* the model and the effort that the last command naming them asked for, as long as that
\* command came alone.
THEOREM LastCommandStands == Spec => []LastCommandInForce
<1>1. IInv => LastCommandInForce
  BY DEF IInv, Profiled, Expected, NextProfile, LastCommandInForce
<1> QED BY <1>1, Invariance, PTL
=============================================================================
