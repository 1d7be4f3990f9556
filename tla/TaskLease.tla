------------------------------ MODULE TaskLease ------------------------------
(***************************************************************************)
(* What vibey's job table promises a project, stated without leases that   *)
(* expire, owner strings or SQL: a task is granted to one worker at a      *)
(* time, only the worker that holds the grant can report a result, a grant *)
(* may be revoked at any moment, and a report that comes after the         *)
(* revocation is forgotten.  JobQueue implements this specification.       *)
(***************************************************************************)
CONSTANTS Jobs, Workers, NoJob, NoWorker,
          Deps      \* Deps[j]: the jobs that j waits for

VARIABLES st,       \* the state of each job as a reader of the table sees it
          holder,   \* the worker whose grant on the job is in force
          doing     \* the job each worker believes it is executing

vars == <<st, holder, doing>>

Open == {"ready", "leased", "awaiting_human"}
Settled == {"succeeded", "failed"}

Init ==
  /\ st = [j \in Jobs |-> "absent"]
  /\ holder = [j \in Jobs |-> NoWorker]
  /\ doing = [w \in Workers |-> NoJob]

\* A job enters the table once.
Offer(j) ==
  /\ st[j] = "absent"
  /\ st' = [st EXCEPT ![j] = "ready"]
  /\ UNCHANGED <<holder, doing>>

\* A free worker is granted a ready job whose dependencies have succeeded.
Grant(w, j) ==
  /\ doing[w] = NoJob
  /\ st[j] = "ready"
  /\ \A d \in Deps[j] : st[d] = "succeeded"
  /\ st' = [st EXCEPT ![j] = "leased"]
  /\ holder' = [holder EXCEPT ![j] = w]
  /\ doing' = [doing EXCEPT ![w] = j]

\* The holder, and nobody else, settles the job or hands it back.
Report(w, j) ==
  /\ doing[w] = j
  /\ holder[j] = w
  /\ \E s \in Settled \cup {"ready", "awaiting_human"} : st' = [st EXCEPT ![j] = s]
  /\ holder' = [holder EXCEPT ![j] = NoWorker]
  /\ doing' = [doing EXCEPT ![w] = NoJob]

\* A worker dies, or reports after its grant was revoked: nothing is recorded.
Forget(w) ==
  /\ doing[w] # NoJob
  /\ doing' = [doing EXCEPT ![w] = NoJob]
  /\ UNCHANGED <<st, holder>>

\* Grants are withdrawn without the holders' knowledge.
Revoke(S) ==
  /\ \A j \in S : st[j] = "leased"
  /\ st' = [j \in Jobs |-> IF j \in S THEN "ready" ELSE st[j]]
  /\ holder' = [j \in Jobs |-> IF j \in S THEN NoWorker ELSE holder[j]]
  /\ UNCHANGED doing

\* The human answered.
Resume(j) ==
  /\ st[j] = "awaiting_human"
  /\ st' = [st EXCEPT ![j] = "ready"]
  /\ UNCHANGED <<holder, doing>>

Next ==
  \/ \E j \in Jobs : Offer(j) \/ Resume(j)
  \/ \E w \in Workers, j \in Jobs : Grant(w, j) \/ Report(w, j)
  \/ \E w \in Workers : Forget(w)
  \/ \E S \in SUBSET Jobs : Revoke(S)

Spec == Init /\ [][Next]_vars
=============================================================================
