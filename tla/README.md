# Verification of the spatial-agent run lifecycle

spatial-agent accepts natural-language requests about spatial data, plans tool
calls for them and executes the plan as a *run*. This directory holds TLA+
models of the parts of the program in which several actors share state, the TLC
runs that check them and the theorems TLAPS proves about them. Source paths are
relative to the repository; line numbers of every modelled definition are in
`PROJECT.json` under `map`.

## 1. Inventory

| component | state it keeps | operations | interacts through | hard behaviour | modelled in |
|---|---|---|---|---|---|
| Asynchronous run application (`agent/application/async_runs.py`, `run.py`) | pool threads, the jobs lock | submit, run_job, finalize_job, recover | SQLite tables, thread pool | crash at any point, two processes on one database | `AsyncRuns` |
| SQLite state store (`agent/persistence/sqlite_store.py`) | `async_jobs`, `agent_runs`, `run_controls`, `run_events`, `interaction_receipts` | guarded UPDATEs, the fenced save, event append | every other component | guards evaluated in one transaction, used in another | `AsyncRuns`, `RunActions`, `ToolApproval` |
| Service state and reaper (`agent/application/service_state.py`) | reaper thread, in-memory jobs | expire_job, snapshots of timed-out runs | job table, snapshots, events | races late workers, fails half-way | `AsyncRuns`, `CompositeRuns` |
| Service facade (`agent/application/service_facade.py`) | executor, closed flag | construct and recover, serve, close, decide a tool approval | owns all threads | shutdown during a submission | `AsyncRuns`, `ToolApproval` |
| Run lifecycle (`agent/runtime_core/run_lifecycle.py`, `control.py`) | one result per run | plan, execute, answer, finalize; control checks | saves, cancel flag, events | order of save, event, second save, job close | `AsyncRuns`, `PlanExecution` |
| Cancel and retry (`agent/runtime_core/recovery.py`, `application/run_recovery.py`) | the receipt of the action | cancel, retry | decision store, cancel flag, snapshot | read-modify-write of a snapshot a worker writes | `AsyncRuns`, `RunActions`, `PlanExecution` |
| Decisions (`agent/decision_lifecycle.py`, `application/decisions.py`, `runtime_core/decision_resume.py`) | versioned decision records | create, resolve, expire, consume | waiting snapshot | crash between resolve and consume, expiry | `RunActions` |
| Receipts (`agent/application/actions.py`, `interactions.py`) | one row per run and action | reserve, reopen, complete, fail, persist | snapshot | receipt left in progress | `RunActions` |
| Plan execution and repair (`agent/runtime_core/execution.py`, `run_lifecycle.py`, `agent/plan_schema.py`, `agent/replanning.py`) | the step records of one run | attempt, replan and merge, block, reset | control checks | ids and positions through merges, stop in the middle | `PlanExecution` |
| Composite runs (`agent/application/composite_runs.py`, `composite.py`) | component results of one request | run components in dependency order, fold their states | job table as one run | partial failure, restart from nothing | `CompositeRuns` |
| ReAct loop (`agent/runtime_core/react_runtime.py`, `agent/react/loop.py`) | actions and proposals of one run | act, propose, save, wait | registry, approval records | saves around every action | `ToolApproval` |
| Tool approval (`agent/tooling`, `agent/runtime_core/tool_approval_resume.py`) | approval records, a registry per process | create, approve, reject, revoke, publish, rehydrate, resume | waiting snapshot, registries | record, registry and run are three steps | `ToolApproval` |
| In-memory job mode | a dictionary under one lock | the same life cycle without storage | the same callers | writes without guards | - |
| Run budget and progress, tool sandbox | none | clipping, heartbeat, one subprocess per call | called by a worker | - | - |
| Planner, model integration, request understanding, composite planning | none | text to plan | called by a worker | arbitrary answers | as choices |
| Evidence, projections, artifacts, conversations, HTTP, domains, web, evaluation | documents, files, turn history | pure assembly, CRUD | callers | none of concurrency, except the artifact fence | - |

The core is the life of a run. A request is accepted by inserting a job row and a
`PLANNING` snapshot in one transaction, claimed by the process's pid, and executed
by a pool thread that saves the snapshot several times and closes the job last.
Around it work a reaper that closes jobs older than a limit, cancel handlers, and,
after a restart, a recovery that claims the jobs of dead processes. A run that
waits for a decision, or has failed, is continued by the threads of the clients
that approve, reject, cancel or retry. All of them meet only in the tables of one
SQLite file; only the registry of approved tools is kept per process. What makes
the components correct:

* jobs: a row is closed once; it belongs to one live process until then; a
  requested cancel is not lost; every accepted job is closed in the end;
* snapshots: what a client polls agrees with the job that was closed; a run is
  CANCELLED only when a client asked;
* threads: a live process that owns an active job has a thread that will close it,
  unless an exception that nobody catches has ended the thread;
* decisions and receipts: a decision falls once and is used once, one thread
  handles an action, and its receipt tells the truth;
* executions: no step runs without its dependencies or twice, whatever is
  replanned; a stopped run leaves nothing half-claimed as done;
* composites: the answer is the verdict on what has run, a failure stays with
  those that depend on it;
* tools: nothing is bound or executed that nobody approved, and a decision
  reaches the run that waits for it.

Everything that is hard to test and that the code is exposed to is listed in
`PROJECT.json` under `hazards`, with the properties that address it or the reason
why none does.

## 2. Modules

| module | what it models |
|---|---|
| `RunStatus` | status words of the tables, and `Fenced`, the test inside `SQLiteStateStore.save` |
| `AsyncRuns` | the asynchronous lifecycle in SQLite mode, from processes down to single SQL statements |
| `JobLedger` | abstract specification of the job table |
| `RunActions` | approve, reject, cancel and retry of one run, over decision record, receipts, cancel flag and snapshot |
| `DecisionLedger` | abstract specification of a decision boundary |
| `PlanExecution` | the execution of a plan with attempts, replanning, cancel, deadline and retry |
| `PlanLog` | abstract specification of an execution |
| `CompositeRuns` | an asynchronous composite run: coordinator, fold, persistence, reaper, crash and recovery |
| `ComponentGraph` | abstract specification of the evaluation of a component graph |
| `ToolApproval` | the ReAct loop, approval records, the registries of the processes, resume and refusal |
| `MCAsyncRuns`, `MCRunActions`, `MCPlanExecution`, `MCCompositeRuns`, `MCToolApproval` | the instances for TLC: symmetry sets, plans, replacements and requests |
| `AsyncRuns_proofs`, `LedgerRefinement`, `JobClosure` | theorems about `AsyncRuns` |
| `RunActions_proofs`, `PlanExecution_proofs`, `CompositeRuns_proofs`, `ToolApproval_proofs` | theorems about the module of the name |
| `ApprovalOutcome` | theorems about what becomes of a run of `ToolApproval` whose proposal is decided |

The modules meet where the code does. `AsyncRuns` takes a run up to the closed
job; `RunActions` and `ToolApproval` start from a synchronous run or from a job as
`AsyncRuns` leaves it, use the same `Fenced`, and treat a save behind a fence that
cannot change any more as one step. `PlanExecution` is what `AsyncRuns` calls
`Tool` and `RunActions` calls `tool`. `CompositeRuns` is the worker of a composite
job in the place of the worker of `AsyncRuns`.

### AsyncRuns

| variable | in the program |
|---|---|
| `job[r]` | status and owner_pid of the `async_jobs` row |
| `snap[r]` | status inside the `agent_runs` payload; `PLANNING` stands for CREATED, PLANNING and EXECUTING |
| `flag[r]` | `run_controls.cancel_requested` |
| `ended[r]` | status of the first terminal row in `run_events` |
| `life[p]`, `found[p]` | where a process is between construction and exit; the list `recover` iterates over |
| `sub[p]` | a submission between `create_async_submission` and `claim_async_job` (the jobs lock admits one) |
| `worker[p][r]` | a pool thread: where it is in `run_job`, the outcome it carries, whether the fence of the save at hand has been read |
| `reap[p]` | the reaper thread inside `expire_job` |
| `cancel[r]` | the handler of the one cancel whose receipt the table admits for a run, with the snapshot it has read |

A step is one SQLite transaction or one read that is a transaction of its own,
with the thread's local work around it. `save` is two steps, `SaveFence` and
`SaveWrite`: Python's sqlite3 opens a transaction at the INSERT, so the SELECT of
the fence is outside. `append_run_event` opens `BEGIN IMMEDIATE` and is one step.

A worker walks `queued -> plan` (the PLANNING save) `-> control -> tool ->
... -> result` (the result save) `-> event -> again` (the second save, by
`RunApplication.execute`) `-> finalize -> finish`. A cancel or a deadline leaves
`control` through `controlEvent`, because `_emit_failure_event` appends the
terminal event before the save. An exception of the store, a busy database that
`_retry_sqlite_write` gives up on among them, may occur at every call a worker
makes (`Raise`), and what becomes of it depends on where that is:

* `Caught`: inside the provider, where it goes to the handler of `run_job` (`failGet,
  fail, failEvent, failFinish`). What `Runtime.run` itself catches and turns into a
  FAILED result is the outcome FAILED of `Tool`;
* in an event, where `_append_event` swallows it and the handler goes on;
* `Uncaught`: in the reads in front of the `try`, in the handler's own read and save
  and in the update behind it. It ends the thread, the job stays as it is, and the
  worker is `lost` until its process is gone.

`ClaimRaise` is the same in the claim of `submit`, which leaves a QUEUED job to
nobody, `RecoverRaise` in `recover`, which ends the constructor and with it the
process, `ReapFail` in the reaper, whose loop swallows it. Planning, tools and answers are the
choice of an outcome in `Tool`. Time is not modelled: any active job may be
expired, and any control check may find the run's deadline passed.

`Crash` ends a process between any two steps and takes its threads with it.
`Overlap` says whether two service processes may be alive at once, `ReusePids`
whether a restart may get the pid of a dead process, `ReaperOn` whether the
deployment starts the reaper (only production entry points do), `CancelOn`
whether clients cancel. `Quiet` says where the system may rest: every job is closed,
or `Stranded` by an uncaught exception in a process that goes on. TLC's deadlock
check reports every other way of stopping.

### JobLedger

The contract of the job table: a job is accepted once; a live process takes a job
only from no process or from a dead one, keeping a requested cancel; only the
owner closes it, as CANCELLED only after a request; the deadline closes anything.
`AsyncRuns!Ledger` maps job rows and live processes to it.

### RunActions and DecisionLedger

| variable | in the program |
|---|---|
| `job` | `async_jobs.status` of a run that is through (`Absent` for a synchronous one); no action changes it |
| `snap` | status inside the `agent_runs` payload |
| `decision` | status and version of the row in `agent_decisions` |
| `receipt[a]` | status of the `interaction_receipts` row of action `a` |
| `flag` | `run_controls.cancel_requested` |
| `runner` | the request thread of a synchronous run, from plan to second save |
| `client[c]` | an HTTP thread: where it is in its handler, the decision version it has read, the status it is about to store |
| `runs` | executions of the approved plan (bookkeeping) |

A handler reserves the receipt of its action, acts and completes or fails the
receipt. Approve reads the decision, resolves it by compare-and-swap (`Swap`,
`Holds` are `_cas_update` and its row count), is admitted or refused by cost
governance, loads and consumes the decision by a second compare-and-swap,
executes and saves twice; reject resolves and saves; cancel resolves a pending
decision or raises the flag; retry executes a failed run again and may take up
a receipt that failed (`reopen`). `Expire` is any reader who finds the deadline
passed. `Die` takes a thread away at any place, and leaves its receipt
IN_PROGRESS as the code does. The plan is a single step here.

`DecisionLedger` is the promise: proposed, decided once, consumed only after an
approval, executed at most once and only after it was consumed.

### PlanExecution and PlanLog

| variable | in the program |
|---|---|
| `plan`, `steps` | `result.plan.steps`, `result.steps`: position, id, dependencies; record with status and attempts |
| `status` | `result.status` |
| `pc`, `at` | where the thread is in `execute_step`, and at which step of the loop |
| `completed` | the ids the loop passes to dependency checks |
| `replans`, `events` | `replan_count` and the failed steps of `result.replan_events` |
| `flag`, `late` | a cancel request; the deadline of the execution has passed |
| `after` | calls that have returned since the cancel (bookkeeping) |

One thread executes. It checks cancel and deadline before each attempt, tries a
step up to `MaxRetries + 1` times, and when a step has failed asks the planner
for replacement steps, which are renamed where their ids are taken, merged behind
the failed step, validated again and given fresh records. Whatever cannot be done is BLOCKED. `Retry` is `retry_failed`
on the failed run. The planner answers with any member of `Replacements`, ids of
kept and dropped steps, ids of the form the merge makes itself, and dependencies on
the failed step included; as in `parse_task_plan`, the ids of one answer differ, and
nothing else is assumed of them.

An id is the sequence of the parts between its dashes: numbers, and `Word` for the
word `replan`; `replan-2-0` is `<<Word, 2, 0>>`. `Names` lists what the loop of
`merge_replanned_plan` tries for a step: the planner's id, `replan-<failed>-<index>`,
and this with the number of ids in use. The loop computes the last name again and
again without changing it, so when all three are taken the merge never returns
(`Hang`), and neither cancel nor deadline is looked at there. `Terminates` and
`Advances` therefore end an execution or leave it in `"merge"`; that this happens is
a defect the model shows, and `hazards` lists it at `agent/replanning.py:209`.

`PlanLog` is the promise: a log of ended steps that is only appended to, never
holds a step twice and goes past at most `Limit` failures; a retry forgets the
log from the first failure on.

### CompositeRuns and ComponentGraph

| variable | in the program |
|---|---|
| `req` | the normalized request in the job's payload: dependencies, inputs, required, allowed Domain |
| `job`, `snap` | the job row; the stored snapshot with the state of its composite section and its components |
| `up`, `pc`, `failed` | process, its worker, and whether the worker has entered the failure handler |
| `children`, `out` | status, cause and reported Domain of the components so far; the snapshot about to be saved |
| `reap` | the reaper inside `expire_job` |
| `ran[c]` | completed runs of a component (bookkeeping) |

The code has four translations of a status: `_child_state` (`ChildState`, for the
gate), `_project_component` (`ComponentState`, for the result), `_coordinator_status`
(for the job) and `_run_status` (for the snapshot). They differ for TIMED_OUT,
blocked and partial, and the second one alone compares the Domain a child reports
with that of its component: a child of another Domain (`foreign`) is shown as
blocked whatever its status, while the gate has gone by the status and its
dependents may have run. The properties keep the two apart: `Done(c)` is a completed
run, as the gate saw it, and `Settles(c)` a component the result shows as completed.

Fence and write of a save are two steps, and the failure handler (`Handle`), the
reaper, a crash and the recovery in a new process, which starts from the first
component, are actions. Exceptions are as in `AsyncRuns`: `Raise` leads to the
handler, `Lose` ends a thread whose exception nobody catches (in the claim, in front
of the `try`, in the handler and behind it), and the job stays active.

`ComponentGraph` is one evaluation of the request by any scheduler: a component
starts when the runs of its dependencies have completed, is blocked when one has
ended otherwise, and the answer is the verdict on all, in which a component that
has completed for another Domain (`"foreign"`) counts as blocked. An evaluation may
be given up.

### ToolApproval

| variable | in the program |
|---|---|
| `record[a]` | status and run of a row in `tool_approvals` |
| `snap[r]`, `job[r]` | status, approval, state of the `action_receipt` and action count of the stored result; the job row |
| `registry[p]` | the proposal bound to the tool's name in the `ToolRegistry` of a process |
| `thread[t]` | workers and HTTP threads: where they are, the result they carry, what they have read |
| `called`, `early` | tools that were executed; decisions made before the run was left waiting (bookkeeping) |

A worker runs the loop (`Invoke`, `Call`, `SaveStep`, `Propose`, `Conclude`),
saves what it leaves (`Leave`), creates the record and waits (`Create`,
`SaveWaiting`), then finalizes (`SaveFinal`, `SaveAgain`, `Finish`). A client
resolves the record (`Begin`, `Swap`), looks for the run (`Find`), publishes or
revokes in its own process (`Bind`), and resumes or closes the run (`Resume`,
`Enter`, `Refuse`, `Raise`). `Crash` replaces a process by a new one whose registry
is rehydrated from the approved records.

Abstractions: all proposals have one name, which is what makes them compete for
a binding; the version of a record follows its status; each client makes one
request and does not send `expected_version` (it only turns steps into refusals);
cancel, retry and the reaper are not in this module; one runtime per process,
built when the process starts; fence and write of a save are one step, since
what happens between the two is the subject of `AsyncRuns`; a clarification ends
like a failure; proposals on this path do not expire.

`Create` may make an invalid record, for a definition over the size limit: nobody can
decide it (`Undecided`). A tool that has gone when the resumed loop validates its
action ends the loop without a step: COMPLETED with what has been done so far, or
FAILED when that is nothing (the third disjunct of `Invoke`).

## 3. What is checked

| run | question | states | result |
|---|---|---|---|
| `async_single` | restarts, crashes, cancel, deadline with one live process: types, no result CANCELLED unasked, closed jobs have published results and stay closed, refinement of `JobLedger`, the inductive invariants of the proofs | 140,068 | holds |
| `async_overlap` | with two live processes: has every owned job a thread or lost it to an uncaught exception, and does the reaper close the jobs that recovery may skip? | 188,774 | holds |
| `async_recovery` | without the reaper, do workers and restarts alone close every accepted job (`ClosedOrStranded`)? | 83,536 | yes with one live process at a time, unless an uncaught exception strands the job in a process that goes on; the next process closes it |
| `run_actions` | two clients act on one run, with a death and a refusal: one handler per action, true receipts, a snapshot that agrees, refinement of `DecisionLedger`, every action answered | 201,179 | holds |
| `plan_execution` | plans up to four steps, replans, cancel, deadline, a retry: alignment, dependencies, whole results, blocked rests, refinement of `PlanLog`, a measure that every step of an execution increases, an end of every execution but in a merge that hangs | 250,334 | holds |
| `composite_runs` | two and three components, a child of another Domain, a crash, an exception, the reaper: real results, contained failures, job and result agree, refinement of `ComponentGraph`, every composite ends unless its thread is lost | 615,904 | holds |
| `tool_approval` | two clients in two processes decide two proposals of one name, one process may die: only approved tools, receipts that agree, decisions that reach the run | 3,112,834 | holds |
| `late_overwrite` | is the TIMED_OUT result safe from late workers? | - | no |
| `reaper_failure` | does the reaper always publish what it has closed? | - | no |
| `retry_lost` | is a run completed whose retry was answered COMPLETED? | - | not an asynchronous one |
| `composite_rerun` | are completed components left alone after a restart? | - | no |
| `approve_twice` | is a repeated approval idempotent? | - | no |

The five runs with a negative answer check what a comment, a document or a test
says; `PROJECT.json` quotes each under `findings`:

1. *Late overwrite.* The fence of `save` is read outside the transaction of the
   upsert; the reaper fits in between, although the comment there calls the
   closed job "a durable fence".
2. *Reaper failure.* Job and snapshot are two transactions, the loop swallows
   the exception, and a TIMED_OUT job is never listed again: its client polls
   PLANNING for ever.
3. *Retry lost.* `docs/api.md:464` promises that a failed run can be resumed by a
   retry. The job row of an asynchronous run is closed as FAILED by then, so the
   fence refuses every snapshot of the retry but a failed one, and nobody looks
   at the result of `save`. The receipt says COMPLETED, GET says FAILED.
4. *Composite rerun.* `docs/m278-composite-lifecycle-spec.md:64` promises that
   completed components are not executed again after a restart. Nothing is
   stored before the coordinator has returned, so all of them are.
5. *Approve twice.* `docs/stages/M323/spec.md:13` promises that a repeated decision
   is idempotent. It is, on the record; but a repeated approval goes on to apply
   the record, finds the run still WAITING_FOR_DECISION while the first one
   executes it, and executes it a second time beside it.

Each property of the passing runs has a mutant of the model in `PROJECT.json`
that breaks it.

**Bounds.**

* `AsyncRuns`: runs never read each other's rows, and the only things they share
  are the lock in `sub` and a busy reaper, so one run exercises the protocol;
  processes are what interacts. Three pids and two disruptions let a first process
  crash, a second recover and crash again and a third recover from that; one
  disruption is enough with two processes alive at once. `Steps` is 2 where a
  worker must be able to see a cancel after its first tool and 1 elsewhere. The
  outcomes COMPLETED, FAILED and WAITING_FOR_DECISION stand for the three ways the
  code tells outcomes apart: equal to the status of the failure handler,
  terminal event or not, accepted by the cancel handler or not. `async_overlap`
  leaves the cancel out: it takes no part in who owns a job.
* `RunActions`: receipts admit one handler per action, so two clients already
  bring any two of the four actions together, and each client acts as often as
  the receipts let it; one death leaves each possible place behind.
* `PlanExecution`: plans of two and three steps (four after a merge, the limit of
  the validation), one retry per step, two replan rounds (the second can meet ids
  of the first) and one rerun, with replacements of one or two steps whose ids
  and dependencies may clash with kept, dropped and failed steps. In the second plan
  the first step has the id `replan-2-1`, so that a collision of the second step of a
  replacement needs the third name, and the replacement `Clash` has taken that as well.
* `CompositeRuns`: two components, independent or one on the other, with every choice
  of required ones and typed inputs; three in a chain, a fork, a join and with one
  independent of the others, mostly with an optional first one on which required ones
  depend. One crash and one exception reach the recovery and the
  failure handler at every place, and the disabled Domain, which costs no exception
  of the bound, lets one happen inside that handler. COMPLETED, FAILED and TIMED_OUT
  are the statuses the translations tell apart besides blocked, which a dependency or
  an input gives. A child reports another Domain with COMPLETED (`ForeignStatuses`):
  with any other status the gate and the result agree that it has not completed.
* `ToolApproval`: two proposals of one run compete for one name, two clients for one
  record, two processes have registries that differ. Two actions let a loop
  propose again, or call what was approved and then propose. One crash rehydrates
  a registry. That a proposal belongs to another run needs two runs; this branch
  of `Create` is covered by the proof alone.

**Fairness.** `AsyncRuns!FairSpec` assumes that the threads of a live process run
(`WorkerStep`, `Claim`, `ReapStep`, `CancelStep`, one weak fairness each), that
the constructor gets through its recovery (`Recover`, `Serve`), that a closing
process drains and exits (`executor.shutdown(wait=True)`), that some process is
started while none is alive (a supervisor), and that the reaper, which wakes up
every interval, gets to every job that stays active. `RunActions!FairSpec` and
`PlanExecution!FairSpec` assume that threads run and that tools and planner
return, which their own timeouts see to; `CompositeRuns!FairSpec` that the worker
runs and a dead process is restarted, and nothing of the reaper. Nothing is
assumed of clients, of cancel requests, deadlines, crashes or exceptions; those
are bounded by constants, since a service that always crashes closes nothing.
`ToolApproval` states no fairness: that a decision reaches its run is the
invariant `DecidedRunHasEnded` over the states in which all threads are through,
and that every thread that takes steps gets there is the theorem `ThreadsReturn`.

Deadlock is checked for `AsyncRuns`. The other systems rest when all clients are
answered or the execution has ended, so their cfgs switch the check off.

## 4. What is proved

All theorems hold for any values of the constants, under the named assumptions
of the modules: that special values are not ordinary ones, that bounds are
naturals, and that plans, replacements and requests are what their validation
lets through.

`AsyncRuns_proofs`, whatever the number of live processes:

* `TypeInvariant`: `Spec => []TypeOK`; `TypeOK` is inductive.
* `TerminalIsFinal`: a closed job row never changes. It needs only `TypeOK`: each
  statement that writes the row is guarded by an active or absent status.
* `CancelledOnRequest`: no snapshot or job row is CANCELLED unless a client asked.
  This is not inductive, since the reaper sets the same flag, and a worker it
  stops carries the outcome CANCELLED. `CancelInv` adds that a flag nobody asked
  for implies a TIMED_OUT row, that such a worker implies one too, and that a
  worker whose fence was open with CANCELLED in hand had a client's request:
  the fence can be open only while the row is not TIMED_OUT. `CancelInvStep`
  shows it inductive, with one step per action; `Kept` is the lemma that
  requests are never withdrawn and deadlines are final.

`LedgerRefinement`, with `~Overlap`:

* `LedgerInvariant`: one process is alive at a time, threads and submissions
  belong to live processes, a run nobody submitted has no owner and no cancel,
  and a cancel flag, or a worker that ends CANCELLED because of it, has left its
  mark in the job row.
* `LedgerRefined`: `Spec => LedgerSpec`. Each action maps to an action of
  `JobLedger` or to a stutter. The claim of a recovery needs the invariant: the
  owner it takes the job from is not alive because the claimant is the only
  live process. With two live processes this fails: a recovery that has listed a
  QUEUED job may claim it after its live submitter has.

`JobClosure`:

* `OwnedJobsHaveWorkers`, with `~ReusePids` and any number of live processes: a live
  owner of an active job has a worker or a submission at work, or an exception outside
  the reach of `run_job`'s handler has ended the worker; nothing else strands it.
  `OwnedInv` adds that an owner is a process that was started, so that a process
  that starts owns nothing; with reused pids it would.
* `ClosedJobsArePublished`, with `~Overlap`: `PublishInv` adds that a job with a worker
  is active or timed out, and that a worker that goes to close the job has stored
  what it closes it with, or a client's cancel has replaced it.
* `OwnedInvStep` and `PublishInvStep` show the two invariants inductive.
* `WorkersReturn`, with any processes and pids: each step of a worker increases its
  step count, or its place (`Leg`), or takes it past a fence, until it returns, and
  then its process has no active job of that run. Steps of others leave it alone,
  but for a crash, and an exception that `run_job` does not catch ends it with its
  job as it was (`Lost`). That no recovery and no claim puts a new worker in the place of
  one at work needs `FreshWorkers`: a job nobody owns has no worker, a process that
  starts has none for the orphans it is still to look at, and lists each once.

`RunActions_proofs`: `ActionInv` ties the version of the decision to its status, a
handler to its receipt, and each place of a handler to what its transactions have
achieved. `ActionHasOneHandler` and `CompletedReceiptIsTrue` follow, and
`DecisionLedgerHolds` is the refinement of `DecisionLedger`: the plan runs at most
once because a handler that may execute it has consumed the decision, and only
one handler holds the receipt of approve.

`SnapshotsAgree` speaks of the states in which all handlers are through. Its
`SnapshotInv` speaks of all states: as long as somebody owes the run a save, the
decision and the snapshot may differ, and each handler that will store the
snapshot again holds a status that agrees with the decision. A handler that is
through owes nothing. `ActionsAreAnswered` is the part of `ReceiptCloses` that
needs no fairness: while no thread has died a receipt in progress has a handler,
and every step of a handler brings it nearer to its return (`Place`), while the
steps of all others leave it alone.

`PlanExecution_proofs`: `PlanInv` has the five safety properties and what they need:
`Backward` (dependencies point backwards through merges), `Progress` (what
is left behind is completed or replanned around, what is ahead is untouched),
`Counted` and `CutOff`. `ExecutionKeepsLog` is the refinement of `PlanLog`; its
`LogInv` adds that the ended steps are a prefix of the plan and that there are no
more failures behind the thread than replan rounds used. `ExecutionAdvances` is
`Advances` with the bounds that make it mean something: every step of the thread
ends the execution or raises rounds, position, attempts or place, in this order of
weight (the last place is a merge that hangs), and `WithinBounds` limits each of the four; the length of the plan is
limited although every round may make it longer, because each merge is validated
again. That ids stay distinct needs no assumption about the planner's: a merge that
returns has made each of its ids in view of those before it (`AllNew`).

`CompositeRuns_proofs`: `CompositeInv` says that every assembled result, stored or in
hand, has the causes the runs of its dependencies give it and the words of its parts
(those of another Domain being blocked), and that
a worker about to close an active job has stored what it closes it with.
`CoordinatorEvaluates` is the refinement of `ComponentGraph`, which also needs
that the code's fold and the abstract verdict are the same function of the states.
`CompositesAreClosed`: while the service is up an active job has a worker or has lost
it to an exception that nobody catches, and each step of a worker takes it to its
failure handler, past one more component or further on its way; a crash takes it away and a restart brings a fresh one
(`FreshInv`).

`ToolApproval_proofs`: `ApprovalInv` relates each thread to the records: a record only
moves from approved to revoked once it is decided, a thread past the decision it
took holds that decision, a thread that stores a result stores one that agrees
with its record, and a registry binds only a proposal that was approved.
`OnlyApproved` and `ReceiptsAgree` follow for any number of runs, clients,
processes, proposals and crashes.

`ApprovalOutcome`: `DecidedRunsEnd` speaks of the states in which all threads are
through, and is not inductive. `OutcomeInv` says of every state that a run which
waits for a proposal decided in time (`Owed`) is answered for: some thread will
store a snapshot of it, or will apply the decision the record has now, or a rival
has the name. It needs that a thread which is about to store a waiting result holds
a pending or an early approval (`SaveSafe`), so that nobody brings a decided run
back to waiting, and that an approval about to be applied is bound (`BindSafe`).
Bindings and answers hold until a process dies. `ThreadsReturn` says that each step of a loop or
of a handler brings the thread nearer to its return, so that the state
`DecidedRunsEnd` speaks of is where a history leads whose threads go on.

Only model-checked: the liveness properties `AcceptedRunCloses`, `ClosedOrStranded`,
`ReceiptCloses`, `Terminates` and `AcceptedComposesToEnd`, since fairness and ENABLED are out of the
reach of TLAPS. Their parts that need no scheduling are proved: whoever must act
exists (`OwnedJobsHaveWorkers`, `ActionsAreAnswered`, `CompositesAreClosed`), and
acts a bounded number of times (`WorkersReturn`, `ActionsAreAnswered`,
`ExecutionAdvances`, `CompositesAreClosed`, `ThreadsReturn`). What is left to TLC is
that the fairness stated lets them act, and that reaper and recovery catch what
they leave. Induction over data and RECURSIVE operators are out of reach as well;
no module here needs either. Every other property of a passing run is a theorem.

## 5. Not modelled

The status and the reason for every component are in `PROJECT.json` under
`components`. In short:

* the memory mode of jobs has no storage to survive it and no guards in its
  writes, so that hardly a property of `AsyncRuns` holds of it; it is not among the
  `hazards` either;
* the run budget is arithmetic over clipped numbers, the progress thread only
  emits events, the sandbox is one subprocess per call;
* planner and model integration are arbitrary answers (`Replacements`, outcomes);
  request understanding, composite planning, evidence, projections, geometry and
  the domain packs are data transformations without shared state, and make up
  most of the lines of the repository;
* the artifact store repeats the fence of `save`; conversations and sessions are
  turn history; a session that is cleared under a live worker is neither modelled nor
  listed as a hazard;
* HTTP adapters are stateless; web console, evaluation and scripts are clients.

Left out of the modelled components are explicit idempotency keys that conflict,
domain actions and clarification replies, restore of a decision from an artifact,
turns and control checks within the ReAct loop, observability, listings and
metrics. SQLite is taken to serialise transactions; `_retry_sqlite_write` retries
a busy database and raises when it gives up. In the workers, submissions, recoveries
and the reaper of `AsyncRuns` and in the workers of `CompositeRuns` that exception is
modelled at every place (section 2). Not modelled are exceptions of the store in the
handlers of clients: within `complete_receipt` in `RunActions`, which would leave a
receipt IN_PROGRESS as the death of its thread does, in the cancel handler of
`AsyncRuns`, and in the threads of `ToolApproval` before they save. The services of
further Domains that a composite builds when it first needs them are one service.

## 6. What could follow

1. `MemoryJobs`: the lifecycle without SQLite, with the properties that survive the
   unguarded writes.
2. Session clearing against a live worker, which brings rows back.
3. Cancel, deadline and retry within `ToolApproval`.
4. The clarification kind of decisions in `RunActions`.
