# Diogenes / Odysseus: a TLA+ verification project

Diogenes is a self-hosted AI workspace: a FastAPI server (one asyncio event
loop and a thread pool) that streams agent turns to browsers, starts detached
processes, and keeps its state in JSON files and SQLite. This project models
the parts of it where concurrency, cancellation, process death and shared
files decide whether it is correct, checks them with TLC, and proves with TLAPS
the safety properties that the runs check on small instances: each of them is a
theorem for every value of the constants.

Paths are relative to the repository; `src/src/x.py` is the file `src/x.py` of
the program.

## 1. Inventory

### Components, their state and operations

| Component | State | Operations | Hard behaviour |
|---|---|---|---|
| Detached agent runs (`src/agent_runs.py`, endpoints in `routes/chat_routes.py`) | `_RUNS`; per run: replay buffer, subscriber queues, status, task, eviction timer | start, resume, stop, `_drain`, `subscribe`, eviction | cancellation at any await, replay against live delivery, chains of replaced runs, timers |
| Runtime lifecycle jobs (`src/ulysses_jobs.py`, `src/ulysses_job_runner.py`) | one JSON file per job, one lock file per runtime | create_plan, execute, get/list, acquire_lock/release_lock, the worker | threads and processes ordered by nothing but a lock file; whole-record overwrites; crashes |
| Background shell jobs (`src/bg_jobs.py`, `src/bg_monitor.py`, `src/agent_tools/bg_job_tools.py`) | `bg_jobs.json`, an exit file per job, session history | launch, refresh, follow-up, kill, list | detached processes against polling, server restarts, a live turn during an await |
| Task scheduler (`src/task_scheduler.py`, `routes/task/task_routes.py`) | task and run rows, `_executing`, `_task_handles`, one semaphore | the loop, run now, force, chains, stop, pause, resume, webhook, recovery at startup | cancellation behind the semaphore, at the gate and in the body; many dispatchers; restarts |
| Interactive gate, event bus (`src/interactive_gate.py`, `src/event_bus.py`) | count of interactive requests, quiet window, event counters | enter/leave, wait until quiet, fire event | starvation, a stop that arrives late, a trigger lost in a restart |
| Exact tool approvals (`src/tool_approvals.py`, `src/tool_approval_scopes.py`, `src/tool_capabilities.py`) | pending cards, one-time grants, the taint of each run, signed grants in chats | create, consume, peek, retire, claim, stamp, verify | expiry, supersession, capacity, restarts, provenance across turns |
| MCP manager (`src/mcp_manager.py`, `src/mcp_oauth.py`, `routes/mcp/mcp_routes.py`) | `_sessions`, `_stacks`, `_connections`, `_connect_tasks`, the cached prompt | connect, disconnect, startup, call with reconnect, authorise | no lock at all: everything read before an await may have changed after it |
| Accounts and browser sessions (`core/auth.py`, `routes/auth_routes.py`) | users, admins, sessions, two JSON files | setup, signup, create, delete, rename, promote, log in and out, change the password | the loop against worker threads; a file written outside the lock; two saves and a crash |
| Session manager (`core/session_manager.py`) | session cache over SQLite | get, add, truncate, replace, delete | cache against rows, deletion under a live turn |
| Agent loop, tool execution | one generator per turn | rounds of model calls and tools | cancellation while a tool runs |
| Others | see `components` in `PROJECT.json` | | pure I/O, vendored clients, UI |

### How they interact

* A chat POST calls `agent_runs.start` with the turn's generator and answers
  with a response bound to that run. The generator runs the agent loop and
  saves the answer to the session, also from its cancellation handlers.
* The bash tool calls `bg_jobs.launch`. The monitor polls, and re-invokes the
  agent in the job's session unless `agent_runs.is_active` says a turn is live.
* The control plane's routes call `RuntimeJobStore` on the thread pool;
  `execute` starts `ulysses_job_runner`, which outlives the server.
* Every tracked request is counted by the interactive gate and spawns a stop of
  background work; the scheduler waits at the gate, and a monitor beside each
  gated execution cancels it when the user comes back. Events count up in the
  task rows and start a task through the scheduler.
* An agent run that has seen external content and proposes a gated action
  seals it in a card and ends. The next request in the chat answers the card
  (and resumes with the sealed action) or dismisses it. Skill tests, audits,
  scheduled tasks and background follow-ups meet the same gate without a user.
* The MCP routes, the `manage_mcp` tool, the startup and failing tool calls
  all connect and disconnect servers through one manager.
* The browser polls an active runtime job once a second, and reconnects to a
  running turn through `/api/chat/resume`.

### What makes each correct

* Runs: what a browser sees is the run's log, without gap or repetition; no
  response waits for ever; finished logs are freed; `is_active` tells the
  truth; two turns of a session do not write at once.
* Runtime jobs: one job at work per runtime; a stored final state is true and
  final; no lock is left behind; every job ends.
* Background jobs: the recorded result is the real one; the user hears of each
  job once, also across restarts; a killed job is left alone.
* Scheduler: every row that says it is running is; a task is not run twice at
  once, nor lost, nor kept out for ever; of the model-backed executions that
  were not started with force, one runs at a time.
* Approvals: an action is executed at most once, as it was sealed, on the
  decision of its owner; dismissing a card does not wash the taint away.
* MCP: an open connection can be found and closed; what is shown and prompted
  is what can be called; a deleted server does not come back.
* Accounts: somebody can administer the instance; a session speaks for the
  account that opened it, and a revoked one never again.

`hazards` in `PROJECT.json` lists where each of these can go wrong, by line,
with the properties that would catch it.

## 2. Modules

| Module | Models | Checked by |
|---|---|---|
| `AgentRuns` | `agent_runs.py` and the start, resume and stop endpoints | `MCAgentRuns` |
| `RunLog` | the abstract specification: what the runs promise to browsers | through `AgentRuns` |
| `AgentRunsProofs` | theorems about `AgentRuns`, the refinement included | TLAPS |
| `RuntimeJobs` | `ulysses_jobs.py`, `ulysses_job_runner.py` | `MCRuntimeJobs` |
| `RuntimeJobsProofs` | theorems about `RuntimeJobs` | TLAPS |
| `BgJobs` | `bg_jobs.py`, `bg_monitor.py`, `bg_job_tools.py` | `MCBgJobs` |
| `JobNews` | the abstract specification: what the agent is told of its jobs | through `BgJobs` |
| `BgJobsProofs` | theorems about `BgJobs`, the refinement included | TLAPS |
| `TaskScheduler` | `task_scheduler.py` composed with `event_bus.py`, `interactive_gate.py` and the task routes | `MCTaskScheduler` |
| `TaskSchedulerProofs` | theorems about `TaskScheduler` | TLAPS |
| `ApprovalLifecycle` | the abstract specification: what a card promises | through `ToolApprovals` |
| `ToolApprovals` | `tool_approvals.py`, `tool_approval_scopes.py`, the gate of a run, the answers in chats and skill tests | `MCToolApprovals` |
| `ToolApprovalsProofs` | theorems about `ToolApprovals`, the refinement included | TLAPS |
| `McpManager` | `mcp_manager.py`, `mcp_oauth.py`, the MCP routes and tool | itself |
| `McpManagerProofs` | theorems about `McpManager` | TLAPS |
| `AuthManager` | `core/auth.py` and the routes that call it | `MCAuthManager` |
| `AuthManagerProofs` | theorems about `AuthManager` | TLAPS |

### AgentRuns and RunLog

asyncio is cooperative, so one action is the code between two points where a
coroutine can suspend. Runs are numbered in the order they start. `registry` is
`_RUNS`; `status` and `buffer` are the fields of `_Run`; `pc` is the await at
which the `_drain` task is suspended (`created` before its first step,
`waiting` for the predecessor, `draining` the generator, `unwinding` in the
generator's cancellation handlers, `barrier` in `shield(prev_task)`). `cancel`
is the set of tasks with an undelivered `Task.cancel()`. A response goes through
`bound` (constructed, body not iterated), `replay`, `live`, `flush`, `closed`.
An event is its position in the log. The generator is nondeterministic: it
yields, ends or raises.

`cut` is a history variable: the runs that stopped holding back their
successors while their own predecessor was still at work. There are three ways:
cancelled before the first step, cancelled a second time in the shield, and
evicted from the registry while waiting there.

`stop()` needs the run's id, which the browser learns from the response
headers; these leave the server after the task's first step, so `Stop` is not
enabled on a task that has not started.

`RunLog` says what the manager is for, without tasks, queues, sentinels,
time-outs and timers: each run has one log, which grows, but never after the
run has completed; a response is opened on a run that is not over and reads
that run's log from the start, one event after the other; the server closes it
only when the run is over and the whole log has been read. The refinement maps
a log to the length of the `buffer`, what a response has read to `got`, and the
open responses to those that are neither free nor closed.

### RuntimeJobs

Nothing but files orders threads and processes, so one action is one file
operation or system call: `OpenLock` is `os.open` with `O_EXCL`, `WriteLock` the
write of the job id, `ReadLock`, `LoadOwner` and `JudgeOwner` what
`acquire_lock` does when the file exists, and so on. A thread or worker keeps
the record it has loaded in `proc[p].record` and `Save` replaces the file with
that copy. `alive` is what `pid_alive` sees: a dead worker stays in it until it
is reaped. `late` holds the launches over 30 s old. `stolen`, `relaunched` and
`wedged` are history: an unlink removed a lock in use, or a launch failed once
its worker had started (`LaunchFails`, which then stores "failed" and releases
the lock); `execute` launched a job that had been launched before; the API died
between locking and storing `launching`. With `Stalls` a launch that has not
died may take more than 30 s.

All jobs belong to one runtime, since runtimes share no file. The token,
phrase and expiry of a confirmation only decide whether `execute` goes on. No
code stores the third terminal state, `cancelled`.

### BgJobs and JobNews

The server is one event loop, but processes and the clock go on while it works.
`refresh()` is therefore split at every look at a process or its exit file
(`Look`, `Probe`), and a follow-up at its await and between its two commits
(`DrainEnds`, `Mark`). `Launch` is the start of the process and `LaunchSaves`
the save of its record; a server that dies between them leaves a command that
nobody knows of. `DrainDropped` is the continuation of a session that was
deleted while the agent ran: it is dropped without an error. `CommandEnds` and
`EchoWrites` are the two steps of `echo $? > file`: the shell opens, which
empties, and then writes. `ServerDies` may happen anywhere. Deletion of a
session happens on a pool thread and does not stop a turn.

`JobNews` says what all this is for, without processes, exit files, polls, lists
and copies of records: a job ends in one way, which is learnt once and never
revised; the agent is told of a job that ended without its doing, of one at a
time, and a job is settled once the agent was told of it or had it killed; a job
that is settled is never told of again. Only a server that dies between telling
and settling forgets that it told. A job is `unheeded` once its session is gone:
then it may be settled without having been told of. The refinement maps the end
of a job to the recorded cause, which outlives the pruning of the record, what
was told to the continuations added to the session, and what is settled to
`followed_up`.

### TaskScheduler

One event loop again, so one action is the code between two suspension points.
An execution is `created` (or `chained`) before its first step, waits for the
`slot` (`_run_semaphore`), waits at the `gate` (`wait_for_interactive_quiet`),
and runs its `body`. `cancelled` holds the asyncio tasks with a cancellation on
its way; where it arrives decides who handles it: `CancelQueued` is the handler
of `_execute_task`, `CancelBody` that of `_execute_task_locked`, and a body that
has already ended swallows it (`BodyReturns`). Time is what the queries compare:
`next_run` is absent, ahead or reached. `recent` orders the active rows by
`started_at`, because `_mark_run_aborted` picks the newest row of a task and not
that of the execution. The gate's five actions and `HandleEvent` are the
composed modules; `StopBackground` is the task the middleware spawns, and
`InRequest` says that a handler runs after the stop its own request spawned.
`Callback(e)` is what the loop runs for an execution when it is ready (its first
step, the slot handed over, a cancellation delivered, a monitor that fires); how
and when a body ends (`Ends`) is up to the tools and models it awaits. `stopped`
and `overridden` are history: tasks stopped by hand, and tasks started with
`force`.

### ToolApprovals and ApprovalLifecycle

Every method of the store holds its lock and no request is suspended between
`peek` and `consume`, so a request is one step up to the start of the run it
asks for. A run is `working`, `sealed` (it was resumed with a sealed action and
has not reached it), `paused` (its card is out) or `ended`. Its kind says who
drives it: a browser, an API token (`delegated`), a skill test, or nobody. The
digest of an action is abstracted to the run that proposed it. `tainted` and
`bypassed` are the two flags of the run's security context; `saved`, `stamped`
and `durable` say which cards are in a chat's history, which carry a signed
grant, and which of those reached the database. `verdict` and `acted` are
history.

`ApprovalLifecycle` says what all of this is for, in four variables and a
place: a card is opened once, allowed at most once while it is open, executed
at most once while allowed, and whatever is void stays void. The refinement
maps `open` to the keys of the store, `allowed` to the cards of runs that are
still to execute their sealed action, and `executed` to `claimed`.

### McpManager

A link is what one connect attempt builds: transport, session, exit stack and
tools; the attempts are numbered. An operation is suspended at one await
(`closing`, `opening`, `failing`, `waiting`, `calling`, ...). `ConnectServer`
and `DisconnectServer` are the code up to the first await, `Disconnected` what
the callers of `disconnect_server` do once it returns. `_generation` is
abstracted to whether the cached prompt is still valid. `CloseCancelled` is a
disconnect that is cancelled while it closes the stack, by the request's time
limit or the end of an agent run: nothing after the close is carried out. Three
history variables state the exact condition under which the manager keeps its
promises: `overlapped` holds the servers whose connect began while another one
was under way or a connection stood (then the older stack is lost, as nothing
closes it), `cut` those a cancelled disconnect left half disconnected, until
they connect or are disconnected again, `dropped` those without a connect since
their last disconnect. A failing or cancelled HTTP attempt never closes its
stack; such a link is `abandoned`.

### AuthManager

The event loop runs most calls; password checks, the issue of a session, setup,
signup and password changes run on worker threads. A step is a critical section
or the code between two. An account is a number, so that a name that was deleted
and taken anew is another account, which the code cannot tell. `_save_sessions`
is `Snapshot` (the copy under the lock) and `WriteFile` (after it was released);
`writes` holds the copies not yet written. The copy is shallow, so a rename
shows in copies made before it. `Restart` may happen anywhere and loads what the
two files hold. History: `owner` is the account whose password opened a session,
`clobbered` says that an older copy was written over a newer one, `crossed` the
sessions whose name may have changed hands between the two threads of a login or
in a torn restart. `outdated` holds the sessions
of an account whose password was changed since, by another session; `stale` the
logins under way that verified a password which was changed since; and `spared`
the outdated sessions that the change does not end: those a rename moved before
the revocation, those of a process that died before the revocation was answered,
and those that a stale login opened after it.

Each mutant (an operator preceded by a comment that starts with "Mutant:")
is a plausible bug; none of them is used by a specification.

## 3. Runs

| Run | Instance | Shows |
|---|---|---|
| `agent_runs_replay` | 1 session, 2 browsers, 2 runs, 2 events | delivery is a gapless prefix; the manager implements `RunLog`; everyone is woken; finished runs stay evictable |
| `agent_runs_live` | 1 session, 1 browser, 3 runs, 1 event | only the registered run is running; the save barrier holds unless a run between was cut; waits end, responses close |
| `runtime_jobs_safe` | 2 jobs, 2 threads, 2 workers | one worker at work unless a lock was stolen or a job launched twice; success implies passed steps |
| `runtime_jobs_live` | 1 job of 1 step, 2 threads, 1 worker, 1 API crash, stalls | no lock left behind except in the `wedged` window; calls return, jobs end |
| `bg_jobs_safe` | 2 jobs, 1 session | no silent completion; jobs and monitor implement `JobNews` (killed jobs stay quiet, ends are final); verdicts are true |
| `bg_jobs_live` | 1 job, 2 crashes, up to 4 posts | at most one follow-up per life of the server; every job is followed up |
| `bg_jobs_result` | 1 job | **violation**: exit 0 stored as failed |
| `task_scheduler_safe` | an event task that uses the model and chains to a "once" task its owner may not run; 2 executions, 1 request, 1 crash | no phantom rows, no leaked membership or slot, no double dispatch unless stopped, triggers survive |
| `task_scheduler_live` | 1 scheduled model task, 2 executions, 1 request, 1 crash | no execution waits for ever, due tasks run, unless a body hangs on the slot or the foreground is never quiet |
| `tool_approvals` | 3 cards, 3 runs, 1 chat and the headless place, room for 2 cards, expiry, 1 restart | one card per chat, consent precedes action, taint carries over, the life cycle is implemented |
| `mcp_manager` | a stdio, an HTTP and a built-in server, 2 operations, 2 connect attempts | prompt, ownership, status and finality of a disconnect; startup, authorisation and calls stop waiting |
| `auth_manager` | 2 names, 3 accounts, 2 sessions, 2 worker threads and the loop, restarts | an admin remains, one founder, sessions follow accounts, revocation is for good, a change of password revokes but for three exceptions |

### Bounds

* Runs: a cut of the barrier needs a chain of three. With two browsers and two
  events one can join in each phase while the other leaves, and an event can be
  both in the buffer and on a queue. The proofs remove these bounds.
* Sessions: one. Runs of different sessions share no state; the proofs cover
  any number.
* Runtime jobs: a stolen lock needs two jobs and two callers; a third caller
  adds no kind of interference (read, judge, unlink against lock, launch,
  release). Workers are bounded by 2, so each of two jobs can run, or one job
  can be relaunched. With one job and a crash of the API one worker is enough to
  die at every point (`runtime_jobs_live`); with two, and two jobs, one record
  can have two workers (`runtime_jobs_safe`). What takes three workers (see
  `OneActive` in section 4) is covered by the theorem, which bounds nothing.
* Background jobs: two jobs let the monitor hold one on its list while another
  is killed, launched or followed up. `MaxPosts` exceeds what `OncePerLife`
  allows, so that the bound cannot hide a violation. Two jobs and a death of the
  server together are beyond a run of minutes: the refinement across a crash
  is left to the proof.
* Scheduler: two executions suffice for an overlap, for a holder and a waiter of
  the slot, and for a chain; an execution's identifier is used again, so their
  number in time is not bounded. One request is enough to gate, to stop and to
  trigger by hand. `VIEW` drops the status of finished rows, which no action
  reads; executions are symmetric.
* Approvals: three cards fill a store of two and supersede one another; three
  runs are one that asks, one that resumes and one that interferes. Several
  chats and owners are left to the proofs, which bound nothing.
* MCP: two attempts and two operations are the smallest instance in which a
  connect meets a connect, a disconnect, a time-out or a failed call. Three
  servers, one per kind of path; they share only the prompt.
* Accounts: three accounts on two names let a name be deleted, renamed and
  taken anew; two workers and the loop are the three parties of every race
  (login, change of password, admin). `VIEW` forgets tokens that are in neither
  the table, the file nor a copy.

`CHECK_DEADLOCK FALSE` is set where the bounds let the system stop: all runs,
jobs, requests, cards or attempts are used up. `BgJobs` and `AuthManager` are
checked for deadlock.

Every property has a mutant, a plausible bug of the code under which TLC finds
the property violated. No run is spent on the type invariants: they are proved.

### Fairness

* `AgentRuns`: the event loop runs each ready task and each expired timer; the
  handlers of a cancelled generator end (each of their awaits has a timeout);
  the HTTP server keeps pulling a response whose browser is there. A generator
  that is not cancelled need not end.
* `RuntimeJobs`: threads and workers are scheduled; each step of a plan has a
  timeout; dead children are reaped; time passes; a browser polls an active
  job (strong fairness of `Get`, as each thread may be busy in between).
* `BgJobs`: time passes; a `refresh()` that began goes on; the loop runs the
  monitor's task (strong fairness, since other requests intervene); an agent
  run ends, and not each of its attempts fails. A job's own process need not
  end. `JobsAreFollowedUp` also assumes that live turns come to an end.
* `TaskScheduler`: the loop ticks and ready callbacks run (`Callback`); time and
  quiet windows pass; a stopped server is started again. A body need not end:
  the agent loop has no limit of its own (`task_scheduler.py:1918`), and tool
  calls of MCP servers are awaited without one (`:1474`, `mcp_manager.py:511`).
  Requests and chat runs need not end either. The properties name the two
  exceptions this makes (`SlotHangs`, `NeverQuiet`). The user need not start,
  stop or resume anything.
* `McpManager`: timers fire, closing a stack ends or is cancelled, a
  cancellation arrives. A
  server need not answer and a user need not authorise.
* `ToolApprovals` and `AuthManager` are checked for safety only.

## 4. Findings

One run has the expectation `violation` and quotes what it contradicts
(`findings` in `PROJECT.json`): `bg_jobs_result` (`src/bg_jobs.py:203`). An exit
file is read between its creation and its writing, and a job that exits 0 is
stored as failed (`ResultIsKept`).

The models show more places where the code falls short of what its comments
and tests say. In most of them the checked property carries the exact condition
under which the code keeps the promise, and the history variable in it names the
way out:

* `SlotIsOwned` (`src/task_scheduler.py:2267`): the comment at `_run_semaphore`
  says "Strict serial execution — exactly one task runs at a time. Anything else
  (manual trigger, scheduled dispatch, task chain) waits behind the semaphore
  ... This is a hard guarantee, not configurable" (`:358-361`). The code does
  not keep it: `run_task_now(force=True)` bypasses the semaphore, so a forced
  body runs beside the one that holds the slot and beside other forced ones;
  and a task that uses no model never asks for the slot. `SlotIsOwned` promises
  less than the comment: it is about the model-backed executions that are not
  forced.
* `BarrierUnlessCut` (`src/agent_runs.py:147`, "the transitive session-save
  ordering barrier"): a run cancelled before its first step, cancelled twice,
  or evicted while it waits no longer holds back its successor.
* `OneActive` (`src/ulysses_jobs.py:329`, `:356`): `acquire_lock` unlinks by
  path after judging an owner it read earlier (`stolen`). And `execute` checks
  that a plan is "planned" before it takes the lock and does not read it again:
  of two calls that read the same plan, the later one launches the job a second
  time after it has run; a poll that still holds the record of the first run
  then finds its process gone, stores the new run as failed and frees its lock,
  and another job's worker starts beside it (`relaunched`). No run with two
  workers shows this; the attempt to prove the property without `relaunched`
  did. And when loading or storing the record fails once the worker has been
  started (`:398-410`), the job is stored as failed and its lock released
  beside a live worker.
* `src/ulysses_jobs.py:259`: `get()` loads the record before it asks whether the
  worker is alive and stores its whole copy. A worker that stores "succeeded" or
  "failed" and exits in between is recorded as failed, with the error "Detached
  runtime worker exited without final state." (`:258`), which is not so. No
  property says that a final state is kept, since the code does not keep it;
  `SucceededMeansPassed` and `JobsEnd` hold in spite of it.
* `JobsAreFollowedUp` (`src/bg_monitor.py:102`, `:115`): the follow-up of a
  deleted session raises on every tick, so the branch meant for it is never
  taken; and `is_active` is asked before a long await only, so a continuation
  can be written into a turn that began meanwhile.
* `NeverSilent` (`core/session_manager.py:249`): the continuation of a session
  that was deleted during the agent run is dropped without an error, and the job
  is marked followed up. A server that dies between `Popen` and the save
  (`src/bg_jobs.py:137`, `:158`) leaves a command without a record.
* `WaitingEnds`, `DueTasksRun` (`src/task_scheduler.py:1918`): nothing limits a
  body; one that hangs keeps the only model slot, and every model-backed
  execution waits until somebody stops it or comes back (`SlotHangs`).
* `SingleFlightUnlessStopped` (`src/task_scheduler.py:2285`): `stop_task` takes
  a task out of `_executing` before its execution has unwound, so it can be
  dispatched beside it. An event task that raises keeps the `next_run` of its
  trigger and is run again at once.
* `MarkResolved` (`src/tool_approvals.py:193`, "stop asking ... for later
  requests in this chat"): a card that is answered before its turn was saved is
  not found in the history, and no grant is stamped.
* `RetiredTaintCarries` (`routes/chat_routes.py:1238`, "preserve the originating
  provenance for this turn so dismissing a card cannot make the same
  model-requested action authoritative"): a message that retires the card and is
  then rejected (`:1249-1265`, no endpoint or model) drops the taint with the
  turn that never starts, and the next message starts a clean one.
* `LinksAreOwned`, `StatusIsTrue`, `DisconnectIsFinal` (`src/mcp_manager.py`):
  a connect over a standing connection loses the older stack; `overlapped`. A
  disconnect cancelled while it closes the stack (`:410`; `app.py:200` cancels a
  request after 45 s) leaves the session, the tools and the status of a
  connection that is gone until the next connect or disconnect; `cut`.
* `RevokedForGood` (`core/auth.py:98`, the lock "guards mutations of
  self._sessions and the on-disk sessions.json"): the file is written after the
  lock was released, so an older copy may be written last and a revoked session
  is back after a restart; `clobbered`.
* `SessionsFollowAccounts` (`core/auth.py:587`): a name given to another account
  between the two threads of a login, and a restart between the save of the
  accounts and that of the sessions; `crossed`.
* `ChangeRevokes` (`routes/auth_routes.py:235-238`; the test
  `test_change_password_route_revokes_other_sessions_after_success`,
  `tests/test_auth_session_revocation.py:138`): the other sessions are revoked
  after the new password was saved, on another thread. A process that dies in
  between leaves every old session valid for good; a rename in between moves the
  sessions away from the name that is revoked; and a login that verified the
  old password before the change (`:171`) gets its session after the revocation
  (`:181`) and keeps it. These sessions are `spared`.

## 5. Proofs

Every safety invariant and every safety property of a step that a passing run
checks is a theorem. The assumptions are the named ones of the modules, about
the constants alone (bounds are numbers, names differ from "none"), and, for
one theorem, `Stalls = FALSE`. Each proof has the same plan: an inductive
invariant, first checked by TLC on the instances of section 3; one lemma per
action or kind of action; temporal steps by PTL.

### AgentRuns

`AgentRunsProofs` proves, for every set of sessions and browsers and every
bound on runs and events, from `BoundsAssumption` and `SessionsAssumption`
only:

| Theorem | Property |
|---|---|
| `TypesHold` | `TypeOK` |
| `DeliveryIsInOrder` | `DeliveredIsPrefix` |
| `DeliveryIsComplete` | `DeliveredComplete` (no run checks it by itself: it is part of what `RunLog` promises) |
| `EveryoneIsWoken` | `NobodyLeftWaiting` |
| `RunningRunsAreRegistered` | `RunningIsRegistered` |
| `FinishedRunsAreEvictable` | `FinishedRunIsEvictable` |
| `SaveBarrierHolds` | `BarrierUnlessCut` |
| `Refinement` | `ImplementsRunLog` |

None of the properties but the type invariant is inductive. The invariant
`Inv` (theorem `InvHolds`) adds:

* `StatusOfTask`: a task that is done or in the shield belongs to a run that is
  not running, only a finished task's run is `done`, and a task cancelled before
  its first step has been replaced and terminated;
* `Chain`: `prev` is the run's immediate predecessor in its session, the
  registered run is the session's last, and for a run at work, a run without
  predecessor and a session without registered run every earlier run is
  `Settled`: finished, or followed by a cut. This is what makes
  `BarrierUnlessCut` inductive: whatever `start` finds in the registry, the
  chain goes on or has been cut;
* `Log`: the k-th event of a buffer is k, what a response has sent is as long
  as its `next_seq`, and `next_seq` is within the buffer;
* `Queues`: the events on a queue are consecutive and reach to the end of the
  buffer, and for a live response leave no gap after `next_seq`: the relation
  that registering the queue before the replay establishes;
* `Endings`: a sentinel is on a queue, and a response flushes or is closed,
  only if its run is over, together with the two properties about endings.

`Refinement` shows that the initial states map to initial states of `RunLog`
and that every step is one of its steps or none that browsers see. It rests on
`Inv`: that a queued event which is not skipped is the next one of the log
(`TakesNext`) is `QueueOrder` with `LiveNext`; that a response which flushes
closes on a run that is over is `SentinelMeansOver`; that a completed log never
grows is `StatusOfTask`. It adds only `Fresh`: a run not yet started has the
status it starts with.

### TaskScheduler

`TaskSchedulerProofs` proves, for any tasks, chains, executions and bounds,
from `ConstantsAssumption`: `PhantomFree` (`NoPhantomRuns`),
`NoLeakedMembership` (`MembershipIsReleased`), `SlotExclusion` (`SlotIsOwned`),
`DispatchedOnce` (`SingleFlightUnlessStopped`) and `TriggerDurability`
(`TriggerSurvives`), all from the inductive `IInv` (theorem `Invariance`). It
adds to them and to the types:

* `ExecInv`: an execution has a task exactly as long as it lives, a chained one
  is neither forced nor triggered, a triggered one belongs to an event task;
* `RowInv`: a row is not "running" before the gate was passed and not "queued"
  after it, which is what `Raise` and `CancelQueued` rely on when they close it;
* `FlightInv`: a task nobody stopped is in `_executing` as long as it has an
  unforced execution in flight. This makes single flight inductive: every
  dispatcher asks `_executing`, and only `stop_task` empties it early.

The actions fall into a few kinds of step (steady, moved, spawned, ended); the
invariant is shown once per kind and each action is shown to be of its kind.

### ToolApprovals

`ToolApprovalsProofs` proves, for any owners, chats, runs, cards and limits:
`OneCard` (`OneCardPerChat`), `Consented` (`ConsentPrecedesAction`), the action
property `TaintCarries` (`RetiredTaintCarries`) and `Refinement`
(`ImplementsLifecycle`): the initial states map to initial states and every
step maps to a step of `ApprovalLifecycle` or leaves it unchanged. The
inductive invariant adds:

* `UsedInv`: a card belongs to a run that was started, and a decided card is no
  longer pending;
* `SealInv`: a run was resumed with an allowed card of its own owner and
  session, no two runs with the same one, and what is still to be executed is
  not claimed. The third part is what makes execution at most once;
* `PlaceInv`, `StampInv`: the runs of a chat are its owner's, and a grant is
  stamped on an approved card of that chat;
* `BypassInv`: the gate is open only for a chat's run with a consent of its
  owner, the stamped grants of earlier turns included.

### BgJobs

`BgJobsProofs` proves `NeverSilent`, `VerdictsAreTrue`, `OncePerLife` and
`Refinement` (`ImplementsJobNews`), for any jobs, sessions, crashes and posts;
also `KilledStaysQuiet`, which no run checks by itself: it is part of what
`JobNews` promises.
The invariant (theorem `Invariance`) relates three views of a job:

* `RecordInv`: the stored record of a job that has not ended carries no
  verdict, that of one that has says how it ended, and only a job that was
  followed up is pruned;
* `RefreshInv`: while `refresh()` works, its copy of a record is the stored one
  or a verdict, true of the command, on a job that is stored as running. This
  is what makes the save at the end harmless, however long ago it loaded;
* `VerdictInv`: the stored verdicts are true, and so is the exit file;
* `DueInv`: a job on the monitor's list has ended by itself and nobody was
  told, although the list was made earlier: a kill cannot reach such a job, as
  it is no longer running, and nothing else marks it;
* `PostInv`: a second continuation needs a crash between post and mark.

The refinement rests on it: that a save learns, and never revises, is
`RefreshInv` (lemma `SavedFacts`); that what the monitor posts has ended, and is
neither killed nor settled, is `DueInv`. Launches, saves, posts, marks, dropped
messages, deletions of sessions and deaths of the server are the steps the agent
sees; no other step changes its view.

### RuntimeJobs

`RuntimeJobsProofs` works in three layers, since each action is a
step of one of a dozen kinds (`Walks`, `Copies`, `Unlinks`, `Opens`, `Writes`,
`Launches`, `Starts`, `Works`, `Closes`, `Tells`, ...; lemma `Kinds`) and each
layer is shown once per kind:

* `Basic`: types; every record that is stored or held in a local reads
  "succeeded" only with all steps passed. Gives `SucceededMeansPassed`;
* `Named`: the lock and the locals name jobs that exist (`Known`); unless the
  API died there, who created the lock file is about to write it, and who wrote
  it is about to store "launching" (`Tended`). Gives `LockIsRecoverable`;
* `stolen \/ relaunched \/ Exclusive`: who holds the lock has it (`Acquired`,
  `Started`, `Held`), no copy that a poll judges or stores makes the active job
  look dead, and a job that was not launched has no worker (`Unlaunched`). Two
  workers at work would both have the lock, so they are one: `OneActive`.

`OneActiveHolds` assumes `Stalls = FALSE`: after 30 s `get()` gives up a launch
that has stored no pid, and one that has not died then starts its worker
without the lock.

### McpManager

`McpManagerProofs` proves `PromptIsCurrent`, `LinksAreOwned`, `StatusIsTrue` and
`DisconnectIsFinal` for any servers, operations and attempts. `PromptIsCurrent`
needs nothing but the kinds of step. The others follow from an invariant with
one part about everything and one per server:

* `Shape`: an operation carries out an attempt at its own server, and no two
  the same; a successful attempt is in `_stacks` or its server in `overlapped`;
  `_stacks` and `_connect_tasks` hold attempts at the server they are kept for;
* for a server that is not in `overlapped`, `AttemptInv`: an attempt under way
  is alone, no stack stands beside it, and a disconnect would find it in
  `_connect_tasks` or has cancelled it; and `SessionInv`: session, stack and
  status agree except while a disconnect awaits the close of the stack or was
  cancelled there (`HalfWay`).

The second part fails for a server in `overlapped` and stays false there, which
is why the properties name that variable. A step is about one server
(`Only`, `About`), so each part is shown for that server alone.

### AuthManager

`AuthManagerProofs` works in three layers as well; most actions leave a layer
alone:

* `First`: the configuration in memory and the one in the file have the same
  accounts, one name per account, an admin as soon as there is an account, and
  the privileges of an admin for admins only (`Good`), also between the two
  saves of a promotion or demotion. With `FounderInv`,
  one thread at most is past the check of the first-run setup. Gives
  `AdminRemains`, `OneFounder`, `PrivilegesStayOwn`;
* `Second`: every copy of the session table that is on its way belongs to a
  thread that will write it; a revoked token is in none of the copies made
  after it; with no copy on its way the file is the table; each unless an older
  copy was written last. Gives `RevokedForGood`;
* `Third`: the name of a session is that of the account which opened it, or the
  loop is about to rename or purge it (`SessionInv`); an outdated session
  that is not spared (`Overdue`) has a thread that will revoke it (`WillRevoke`;
  `ChangeInv`), and so will have one that a stale login opens while such a
  thread is under way. Gives `SessionsFollowAccounts` and `ChangeRevokes`.

### Only model-checked

The liveness properties (`ResponsesClose`, `CallsReturn`,
`JobsEnd`, `JobsAreFollowedUp`, `DueTasksRun`, `WaitsEnd`; `WaitingEnds` of
`AgentRuns` and of `TaskScheduler`):
fairness and ENABLED are out of the prover's reach. What holds under `Stalls` of
`OneActive` is not claimed at all.

## 6. Not modelled

What is said in the `note` of each component: pure I/O, vendored clients,
numerical ranking, model-driven behaviour and the UI. Most of the repository's
lines are of that kind (mail and calendar clients, the model clients, the
cookbook's installers, the built-in actions, the MCP servers it ships): long
sequences of I/O and formatting with little state that is shared.

Within the modelled parts: heartbeats of a stream (they change nothing), the
`_active_streams` table of the chat routes, compare mode (not detached), pid
reuse, Windows process control, loss of data that was not fsynced; the routes
that create, update, revert and delete a task, failing database commits and
notifications; the card of the teacher's escalation, editing and forking of a
history that holds a grant, plan mode, the awaits between the retirement of a
card and the start of the turn that retired it (one step, unless the message is
rejected); a connect of MCP that is cancelled elsewhere than in its time-out;
token storage, pruning of flows and
disabled tools of MCP; two-factor enrolment and codes, stored privilege maps,
rate limits, API tokens and their cache, the owner migration of a rename and
its rollback.

## 7. Plan

1. Done: the seven modules of section 2 checked, their safety proved, three
   of them shown to implement an abstract specification.
2. Abstract specifications for more of them: a queue of tasks with single
   flight for `TaskScheduler`, a log of revocations for `AuthManager`.
3. `SessionManager`: the cache against the rows through hydration, truncation,
   deletion and concurrent turns, composed with `AgentRuns` and the monitor.
4. The table of `research_handler`, the API token cache, and the two-way
   calendar sync.
