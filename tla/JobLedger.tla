----------------------------- MODULE JobLedger -----------------------------
(***************************************************************************)
(* What the async_jobs table promises to the rest of spatial-agent: a job  *)
(* is accepted once, belongs to at most one live process until it ends,    *)
(* changes hands only when its owner has died, is closed by its owner or   *)
(* by the deadline, and is closed once.  Threads, snapshots, events and    *)
(* the statements that keep the promise are in module AsyncRuns.           *)
(***************************************************************************)
EXTENDS RunStatus

CONSTANTS
  Runs,   \* run ids
  Procs,  \* process ids
  None    \* the owner of a job nobody has claimed

VARIABLES
  status,  \* status of each job
  owner,   \* process each job belongs to
  alive    \* processes that are running

vars == <<status, owner, alive>>

Init ==
  /\ status = [r \in Runs |-> Absent]
  /\ owner = [r \in Runs |-> None]
  /\ alive = {}

\* The first submission of a run.
Accept(r) ==
  /\ status[r] = Absent
  /\ status' = [status EXCEPT ![r] = "QUEUED"]
  /\ UNCHANGED <<owner, alive>>

\* A live process takes a job that belongs to no live process.  A cancel
\* that was requested before is not forgotten.
Claim(r, p) ==
  /\ p \in alive
  /\ status[r] \in ActiveStatus
  /\ owner[r] \notin alive
  /\ owner' = [owner EXCEPT ![r] = p]
  /\ status' = [status EXCEPT ![r] =
                  IF @ = "CANCEL_REQUESTED" THEN @ ELSE "RUNNING"]
  /\ UNCHANGED alive

RequestCancel(r) ==
  /\ status[r] \in {"QUEUED", "RUNNING"}
  /\ status' = [status EXCEPT ![r] = "CANCEL_REQUESTED"]
  /\ UNCHANGED <<owner, alive>>

\* The owner closes its job; it may call it cancelled only after a request.
Close(r, s) ==
  /\ owner[r] \in alive
  /\ status[r] \in ActiveStatus
  /\ s = "CANCELLED" => status[r] = "CANCEL_REQUESTED"
  /\ status' = [status EXCEPT ![r] = s]
  /\ UNCHANGED <<owner, alive>>

\* The deadline closes any job.
Expire(r) ==
  /\ status[r] \in ActiveStatus
  /\ status' = [status EXCEPT ![r] = "TIMED_OUT"]
  /\ UNCHANGED <<owner, alive>>

StartProcess(p) ==
  /\ p \notin alive
  /\ alive' = alive \cup {p}
  /\ UNCHANGED <<status, owner>>

StopProcess(p) ==
  /\ p \in alive
  /\ alive' = alive \ {p}
  /\ UNCHANGED <<status, owner>>

Next ==
  \/ \E r \in Runs :
       \/ Accept(r) \/ RequestCancel(r) \/ Expire(r)
       \/ \E p \in Procs : Claim(r, p)
       \/ \E s \in TerminalStatus : Close(r, s)
  \/ \E p \in Procs : StartProcess(p) \/ StopProcess(p)

Spec == Init /\ [][Next]_vars

=============================================================================
