----------------------------- MODULE RunStatus -----------------------------
(***************************************************************************)
(* The status words shared by the durable tables of spatial-agent: the     *)
(* async_jobs row, the agent_runs snapshot and the terminal run event.     *)
(***************************************************************************)

\* async_jobs.status of a job that still belongs to a worker or to the queue.
ActiveStatus == {"QUEUED", "RUNNING", "CANCEL_REQUESTED"}

\* _TERMINAL_ASYNC_STATUSES: WAITING_FOR_DECISION counts as terminal here.
TerminalStatus ==
  {"COMPLETED", "NEEDS_CLARIFICATION", "WAITING_FOR_DECISION", "REJECTED",
   "FAILED", "CANCELLED", "TIMED_OUT"}

\* No row in async_jobs; no row in agent_runs; no terminal row in run_events.
Absent == "ABSENT"

JobStatus == ActiveStatus \cup TerminalStatus \cup {Absent}

\* PLANNING stands for every unfinished agent_runs status a worker saves.
SnapStatus == TerminalStatus \cup {"PLANNING", Absent}

EventStatus == TerminalStatus \cup {Absent}

\* What a run can end with by itself, without a cancel or a deadline.
NaturalOutcome == TerminalStatus \ {"CANCELLED", "TIMED_OUT"}

\* Mutant of Fenced: a save that does not look at the job row.
NeverFenced(jobStatus, saved) == FALSE

\* The fence of SQLiteStateStore.save: a terminal job row refuses every
\* snapshot whose status is another one.
Fenced(jobStatus, saved) ==
  /\ jobStatus \in TerminalStatus
  /\ saved # jobStatus

=============================================================================
