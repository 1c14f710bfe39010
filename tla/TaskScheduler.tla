--------------------------- MODULE TaskScheduler ---------------------------
(***************************************************************************)
(* The task scheduler (src/src/task_scheduler.py) with the two modules     *)
(* that drive it: the event bus (src/src/event_bus.py) and the foreground  *)
(* gate (src/src/interactive_gate.py), and the task routes that trigger,   *)
(* stop, pause and resume a task.                                          *)
(*                                                                         *)
(* Everything runs on one event loop, so a step is the code between two    *)
(* suspension points.  _executing_lock is never held across one: it is     *)
(* always free when it is asked for, and the model leaves it out.          *)
(*                                                                         *)
(* Time is abstracted to what the queries compare: next_run is absent,     *)
(* still ahead, or reached.  A TaskRun row is named by the execution that  *)
(* wrote it; a finished row is read by nothing below, so the identifier of *)
(* an ended execution may be used again.                                   *)
(***************************************************************************)
EXTENDS Integers, Sequences, FiniteSets

CONSTANTS
  Tasks,        \* ScheduledTask rows
  Execs,        \* identifiers of executions: at most this many at once
  NoTask, NoExec,
  EventTasks,   \* trigger_type = "event"; every other task has a schedule
  OnceTasks,    \* schedule = "once"
  ModelTasks,   \* tasks that wait for the model slot
  Forbidden,    \* admin-only actions whose owner is no admin
  Then,         \* then_task_id
  Threshold,    \* trigger_count of the event tasks
  MaxRequests,  \* foreground requests in flight at once
  MaxUses,      \* foreground requests in all
  MaxCrashes    \* restarts of the server

MaxDepth == 10  \* _has_chain_cycle(max_depth)

ASSUME ConstantsAssumption ==
  /\ NoTask \notin Tasks
  /\ NoExec \notin Execs
  /\ EventTasks \subseteq Tasks /\ ModelTasks \subseteq Tasks /\ Forbidden \subseteq Tasks
  /\ OnceTasks \subseteq Tasks \ EventTasks
  /\ Then \in [Tasks -> Tasks \cup {NoTask}]
  /\ Threshold \in Nat \ {0}
  /\ MaxRequests \in Nat /\ MaxUses \in Nat /\ MaxCrashes \in Nat

VARIABLES
  up,           \* the server process is running
  status,       \* ScheduledTask.status
  next,         \* ScheduledTask.next_run: "none", "later" or "due"
  counter,      \* ScheduledTask.trigger_counter
  row,          \* TaskRun.status by execution; "none": no such row
  recent,       \* active rows by started_at, the newest last
  executing,    \* _executing
  handle,       \* _task_handles
  holder,       \* the execution inside _run_semaphore
  waitq,        \* the executions waiting for it, first come first served
  phase,        \* where each execution is suspended
  task,         \* the task it executes
  forced,       \* executions started with bypass_model_slot
  triggered,    \* executions started by the event bus
  cancelled,    \* asyncio tasks with a cancellation on its way
  hit,          \* foreground_cancel["hit"]
  requests,     \* _ACTIVE_REQUESTS
  stoppers,     \* requests whose _stop_background task has not run yet
  warm,         \* a quiet window or a heartbeat's lifetime is still open
  chatting,     \* _has_active_chat_stream()
  uses, crashes,
  stopped,      \* history: tasks stop_task was called for since the start
  overridden    \* history: tasks started with force since the start

taskVars == <<status, next, counter>>
rowVars == <<row, recent>>
memVars == <<executing, handle, holder, waitq>>
execVars == <<phase, task, forced, triggered, cancelled, hit>>
gateVars == <<requests, stoppers, warm, chatting, uses>>
handVars == <<stopped, overridden>>
vars == <<up, taskVars, rowVars, memVars, execVars, gateVars, crashes, handVars>>

Active == {"queued", "running"}
Final == {"success", "error", "aborted", "skipped"}
Started == {"slot", "gate", "body"}
Phases == {"free", "created", "chained"} \cup Started

Init ==
  /\ up = TRUE
  /\ status = [t \in Tasks |-> "active"]
  /\ next = [t \in Tasks |-> IF t \in EventTasks THEN "none" ELSE "later"]
  /\ counter = [t \in Tasks |-> 0]
  /\ row = [e \in Execs |-> "none"] /\ recent = << >>
  /\ executing = {} /\ handle = [t \in Tasks |-> NoExec]
  /\ holder = NoExec /\ waitq = << >>
  /\ phase = [e \in Execs |-> "free"] /\ task = [e \in Execs |-> NoTask]
  /\ forced = {} /\ triggered = {} /\ cancelled = {} /\ hit = {}
  /\ requests = 0 /\ stoppers = 0 /\ warm = FALSE /\ chatting = FALSE
  /\ uses = 0 /\ crashes = 0 /\ stopped = {} /\ overridden = {}

-----------------------------------------------------------------------------
(* The foreground gate. *)

\* has_foreground_activity; wait_for_interactive_quiet waits for its negation.
Foreground == requests > 0 \/ warm \/ chatting

\* The middleware takes in a tracked request, or the heartbeat a browser
\* sends: the activity is noted and _stop_background is spawned.
RequestStarts ==
  /\ up /\ requests < MaxRequests /\ uses < MaxUses
  /\ requests' = requests + 1 /\ stoppers' = stoppers + 1
  /\ warm' = TRUE /\ uses' = uses + 1
  /\ UNCHANGED <<up, taskVars, rowVars, memVars, execVars, chatting, crashes, handVars>>

\* A request handler runs after the _stop_background of its own request.
InRequest == up /\ stoppers < requests

RequestEnds ==
  /\ InRequest
  /\ requests' = requests - 1 /\ warm' = TRUE
  /\ UNCHANGED <<up, taskVars, rowVars, memVars, execVars, stoppers, chatting, uses, crashes, handVars>>

\* The last request or heartbeat is long enough ago.
QuietPasses ==
  /\ up /\ warm
  /\ warm' = FALSE
  /\ UNCHANGED <<up, taskVars, rowVars, memVars, execVars, requests, stoppers, chatting, uses, crashes, handVars>>

\* A request starts a detached chat run; the run outlives it.
StreamStarts ==
  /\ InRequest /\ ~chatting
  /\ chatting' = TRUE
  /\ UNCHANGED <<up, taskVars, rowVars, memVars, execVars, requests, stoppers, warm, uses, crashes, handVars>>

StreamEnds ==
  /\ up /\ chatting
  /\ chatting' = FALSE
  /\ UNCHANGED <<up, taskVars, rowVars, memVars, execVars, requests, stoppers, warm, uses, crashes, handVars>>

-----------------------------------------------------------------------------
(* Building blocks. *)

\* compute_next_run: a "once" task has a next run only while its date is
\* ahead; a deferral also leaves next_run ahead when the date has passed.
ComputeNextRun(t) ==
  IF t \in OnceTasks THEN IF next[t] = "later" THEN {"later", "none"} ELSE {"none"}
  ELSE {"later"}

\* The next_run an execution leaves behind.
NextAfter(t) == IF t \in EventTasks THEN {"none"} ELSE ComputeNextRun(t)

\* _has_chain_cycle: the walk along then_task_id does not end within MaxDepth.
HasChainCycle(start) ==
  LET walk[i \in 0..MaxDepth] ==
        IF i = 0 THEN start
        ELSE IF walk[i - 1] = NoTask THEN NoTask ELSE Then[walk[i - 1]]
  IN \A i \in 1..MaxDepth : walk[i] # NoTask

\* The newest active row of t, which _mark_run_aborted(task_id) marks.
Newest(t) ==
  LET mine == SelectSeq(recent, LAMBDA e : task[e] = t /\ row[e] \in Active)
  IN IF mine = << >> THEN NoExec ELSE mine[Len(mine)]

Without(s, e) == SelectSeq(s, LAMBDA x : x # e)

\* _task_needs_model_slot, asked only when the slot is not bypassed: force
\* runs a task beside whoever holds the slot.
NeedsSlot(e) == e \notin forced /\ task[e] \in ModelTasks

\* asyncio.Semaphore lets nobody overtake a waiter.
SlotFree == holder = NoExec /\ waitq = << >>

\* create_task(_execute_task(t)) for each t of ts, one free identifier each.
Spawn(ts, kind, id) ==
  /\ \A t \in ts : phase[id[t]] = "free"
  /\ \A t, u \in ts : t # u => id[t] # id[u]
  /\ phase' = [e \in Execs |-> IF \E t \in ts : id[t] = e THEN kind ELSE phase[e]]
  /\ task' = [e \in Execs |->
                IF \E t \in ts : id[t] = e THEN CHOOSE t \in ts : id[t] = e ELSE task[e]]

\* Mutant: the execution does not leave _executing.
ReleaseKeepsMembership(e) ==
  /\ handle' = [handle EXCEPT ![task[e]] = IF @ = e THEN NoExec ELSE @]
  /\ holder' = IF holder = e THEN NoExec ELSE holder
  /\ waitq' = Without(waitq, e)
  /\ forced' = forced \ {e} /\ triggered' = triggered \ {e}
  /\ cancelled' = cancelled \ {e} /\ hit' = hit \ {e}
  /\ UNCHANGED executing

\* Mutant: the slot is acquired without a finally clause that releases it.
ReleaseKeepsSlot(e) ==
  /\ handle' = [handle EXCEPT ![task[e]] = IF @ = e THEN NoExec ELSE @]
  /\ executing' = IF e \in forced THEN executing ELSE executing \ {task[e]}
  /\ waitq' = Without(waitq, e)
  /\ forced' = forced \ {e} /\ triggered' = triggered \ {e}
  /\ cancelled' = cancelled \ {e} /\ hit' = hit \ {e}
  /\ UNCHANGED holder

\* The finally clauses of _execute_task_locked and _execute_task: the slot,
\* the handle if it is still this execution's, and the membership in
\* _executing, whoever put it there.
Release(e) ==
  /\ handle' = [handle EXCEPT ![task[e]] = IF @ = e THEN NoExec ELSE @]
  /\ executing' = IF e \in forced THEN executing ELSE executing \ {task[e]}
  /\ holder' = IF holder = e THEN NoExec ELSE holder
  /\ waitq' = Without(waitq, e)
  /\ forced' = forced \ {e} /\ triggered' = triggered \ {e}
  /\ cancelled' = cancelled \ {e} /\ hit' = hit \ {e}

Freed(e) ==
  /\ phase' = [phase EXCEPT ![e] = "free"]
  /\ task' = [task EXCEPT ![e] = NoTask]

-----------------------------------------------------------------------------
(* The scheduler loop and the other callers that start an execution. *)

\* next_run is reached.
TimePasses(t) ==
  /\ up /\ next[t] = "later"
  /\ next' = [next EXCEPT ![t] = "due"]
  /\ UNCHANGED <<up, status, counter, rowVars, memVars, execVars, gateVars, crashes, handVars>>

\* _check_due_tasks: with foreground activity every due task is put off,
\* otherwise every one of them is dispatched.
CheckDueTasks ==
  LET due == {t \in Tasks : status[t] = "active" /\ next[t] = "due" /\ t \notin executing}
  IN /\ up /\ due # {}
     /\ IF Foreground
        THEN /\ next' = [t \in Tasks |-> IF t \in due THEN "later" ELSE next[t]]
             /\ UNCHANGED <<executing, phase, task>>
        ELSE /\ executing' = executing \cup due
             /\ \E id \in [due -> Execs] : Spawn(due, "created", id)
             /\ UNCHANGED next
     /\ UNCHANGED <<up, status, counter, rowVars, handle, holder, waitq,
                    forced, triggered, cancelled, hit, gateVars, crashes, handVars>>

\* run_task_now(t) from the run route and from tools; False when t is in
\* flight.  The route refuses an admin-only action.
RunTaskNow(t) ==
  /\ InRequest /\ t \notin Forbidden /\ t \notin executing
  /\ executing' = executing \cup {t}
  /\ \E e \in Execs : Spawn({t}, "created", [x \in {t} |-> e])
  /\ UNCHANGED <<up, taskVars, rowVars, handle, holder, waitq,
                 forced, triggered, cancelled, hit, gateVars, crashes, handVars>>

\* run_task_now(t, force=True): no membership, no model slot, no gate.
ForceTask(t) ==
  /\ InRequest /\ t \notin Forbidden
  /\ \E e \in Execs : /\ Spawn({t}, "created", [x \in {t} |-> e])
                      /\ forced' = forced \cup {e}
  /\ overridden' = overridden \cup {t}
  /\ UNCHANGED <<up, taskVars, rowVars, memVars, triggered, cancelled, hit, gateVars, crashes, stopped>>

\* webhook_trigger: a task its owner may not run is paused instead.
WebhookTrigger(t) ==
  /\ InRequest /\ status[t] = "active"
  /\ IF t \in Forbidden
     THEN /\ status' = [status EXCEPT ![t] = "paused"]
          /\ next' = [next EXCEPT ![t] = "none"]
          /\ UNCHANGED <<executing, phase, task>>
     ELSE /\ t \notin executing
          /\ executing' = executing \cup {t}
          /\ \E e \in Execs : Spawn({t}, "created", [x \in {t} |-> e])
          /\ UNCHANGED <<status, next>>
  /\ UNCHANGED <<up, counter, rowVars, handle, holder, waitq,
                 forced, triggered, cancelled, hit, gateVars, crashes, handVars>>

\* Mutant: the trigger is not persisted before the task is started.
HandleEventInMemory(t) ==
  /\ up /\ t \in EventTasks /\ status[t] = "active"
  /\ counter' = [counter EXCEPT ![t] = IF @ + 1 >= Threshold THEN 0 ELSE @ + 1]
  /\ IF counter[t] + 1 >= Threshold
     THEN /\ UNCHANGED next
          /\ IF t \in executing
             THEN UNCHANGED <<executing, phase, task, triggered>>
             ELSE /\ executing' = executing \cup {t}
                  /\ \E e \in Execs : /\ Spawn({t}, "created", [x \in {t} |-> e])
                                      /\ triggered' = triggered \cup {e}
     ELSE UNCHANGED <<next, executing, phase, task, triggered>>
  /\ UNCHANGED <<up, status, rowVars, handle, holder, waitq,
                 forced, cancelled, hit, gateVars, crashes, handVars>>

\* _handle_event for the task that listens to the event: the counter, and at
\* the threshold the persisted trigger and run_task_now.
HandleEvent(t) ==
  /\ up /\ t \in EventTasks /\ status[t] = "active"
  /\ counter' = [counter EXCEPT ![t] = IF @ + 1 >= Threshold THEN 0 ELSE @ + 1]
  /\ IF counter[t] + 1 >= Threshold
     THEN /\ next' = [next EXCEPT ![t] = "due"]
          /\ IF t \in executing
             THEN UNCHANGED <<executing, phase, task, triggered>>
             ELSE /\ executing' = executing \cup {t}
                  /\ \E e \in Execs : /\ Spawn({t}, "created", [x \in {t} |-> e])
                                      /\ triggered' = triggered \cup {e}
     ELSE UNCHANGED <<next, executing, phase, task, triggered>>
  /\ UNCHANGED <<up, status, rowVars, handle, holder, waitq,
                 forced, cancelled, hit, gateVars, crashes, handVars>>

-----------------------------------------------------------------------------
(* One execution. *)

\* _execute_task_locked up to its first wait: a task that is not active any
\* more is skipped, a forbidden one is paused, a forced one runs at once and
\* any other waits at the gate.  r is the row as it stands; entering and
\* leaving in one step only drops the handle.
Refused(e, r) ==
  LET t == task[e]
  IN /\ \/ /\ status[t] # "active"
           /\ row' = [row EXCEPT ![e] = IF r = "queued" THEN "skipped" ELSE r]
           /\ UNCHANGED <<status, next>>
        \/ /\ status[t] = "active" /\ t \in Forbidden
           /\ row' = [row EXCEPT ![e] = "error"]
           /\ status' = [status EXCEPT ![t] = "paused"]
           /\ next' = [next EXCEPT ![t] = "none"]
     /\ recent' = Without(recent, e)
     /\ Freed(e)

Admitted(e, r) ==
  LET t == task[e]
  IN /\ status[t] = "active" /\ t \notin Forbidden
     /\ phase' = [phase EXCEPT ![e] = IF e \in forced THEN "body" ELSE "gate"]
     /\ row' = [row EXCEPT ![e] = IF e \in forced THEN "running" ELSE r]
     /\ holder' = IF NeedsSlot(e) THEN e ELSE holder
     /\ UNCHANGED <<status, next, task, forced, triggered, cancelled, hit>>

\* The execution begins: handle and queued row, then the semaphore if the
\* task needs it.  _run_chained first asks whether the task is in flight.
StartWaits(e) ==
  LET t == task[e]
  IN /\ NeedsSlot(e) /\ ~SlotFree
     /\ phase' = [phase EXCEPT ![e] = "slot"]
     /\ row' = [row EXCEPT ![e] = "queued"]
     /\ recent' = Append(recent, e)
     /\ waitq' = Append(waitq, e)
     /\ handle' = [handle EXCEPT ![t] = e]
     /\ executing' = IF phase[e] = "chained" THEN executing \cup {t} ELSE executing
     /\ UNCHANGED <<status, next, holder, task, forced, triggered, cancelled, hit>>

StartEnters(e) ==
  LET t == task[e]
  IN /\ NeedsSlot(e) => SlotFree
     /\ \/ /\ Refused(e, "queued")
           /\ handle' = [handle EXCEPT ![t] = NoExec]
           /\ executing' = IF e \in forced THEN executing ELSE executing \ {t}
           /\ forced' = forced \ {e} /\ triggered' = triggered \ {e}
           /\ UNCHANGED <<holder, waitq, cancelled, hit>>
        \/ /\ Admitted(e, "queued")
           /\ handle' = [handle EXCEPT ![t] = e]
           /\ recent' = Append(recent, e)
           /\ executing' = IF phase[e] = "chained" THEN executing \cup {t} ELSE executing
           /\ UNCHANGED waitq

ExecuteTask(e) ==
  /\ up
  /\ phase[e] = "created" \/ (phase[e] = "chained" /\ task[e] \notin executing)
  /\ StartWaits(e) \/ StartEnters(e)
  /\ UNCHANGED <<up, counter, gateVars, crashes, handVars>>

\* _run_chained returns: the task is in flight already.
DropChained(e) ==
  /\ up /\ phase[e] = "chained" /\ task[e] \in executing
  /\ Freed(e)
  /\ UNCHANGED <<up, taskVars, rowVars, memVars, forced, triggered, cancelled, hit, gateVars, crashes, handVars>>

\* The semaphore wakes its first waiter.
AcquireSlot(e) ==
  /\ up /\ holder = NoExec /\ waitq # << >> /\ Head(waitq) = e
  /\ phase[e] = "slot" /\ e \notin cancelled
  /\ \/ Refused(e, row[e]) /\ Release(e)
     \/ Admitted(e, row[e]) /\ waitq' = Tail(waitq) /\ UNCHANGED <<handle, executing, recent>>
  /\ UNCHANGED <<up, counter, gateVars, crashes, handVars>>

\* wait_for_interactive_quiet returns and the run starts, whatever the row
\* says by now.
PassGate(e) ==
  /\ up /\ phase[e] = "gate" /\ e \notin cancelled /\ ~Foreground
  /\ phase' = [phase EXCEPT ![e] = "body"]
  /\ row' = [row EXCEPT ![e] = "running"]
  /\ recent' = Append(Without(recent, e), e)
  /\ UNCHANGED <<up, taskVars, memVars, task, forced, triggered, cancelled, hit, gateVars, crashes, handVars>>

\* _cancel_if_foreground_active, the monitor of a gated run.
ForegroundMonitor(e) ==
  /\ up /\ phase[e] = "body" /\ e \notin forced /\ e \notin hit /\ Foreground
  /\ hit' = hit \cup {e} /\ cancelled' = cancelled \cup {e}
  /\ UNCHANGED <<up, taskVars, rowVars, memVars, phase, task, forced, triggered, gateVars, crashes, handVars>>

\* The body ends by itself.  A cancellation still pending then is one that
\* came while the finished body waited for its cancelled monitor: the finally
\* clause swallows it.  A forced run has no monitor to wait for.
BodyReturns(e) ==
  /\ up /\ phase[e] = "body"
  /\ e \in cancelled => e \notin forced /\ e \notin hit
  /\ recent' = Without(recent, e)
  /\ Release(e)
  /\ UNCHANGED <<up, counter, gateVars, crashes, handVars>>

\* The task whose run a successful run starts, if any.
ChainTarget(t) ==
  IF Then[t] = NoTask THEN {}
  ELSE IF HasChainCycle(Then[t]) THEN {} ELSE {Then[t]}

\* The body returns a result: success, or an action that reports failure.
Complete(e) ==
  LET t == task[e]
  IN /\ BodyReturns(e)
     /\ \E n \in NextAfter(t) :
          /\ next' = [next EXCEPT ![t] = n]
          /\ status' = [status EXCEPT ![t] =
                          IF t \in OnceTasks /\ n = "none" THEN "completed" ELSE @]
     /\ \/ /\ row' = [row EXCEPT ![e] = "error"]
           /\ Freed(e)
        \/ /\ row' = [row EXCEPT ![e] = "success"]
           /\ ChainTarget(t) = {}
           /\ Freed(e)
        \/ /\ row' = [row EXCEPT ![e] = "success"]
           /\ \E u \in ChainTarget(t), c \in Execs \ {e} :
                /\ phase[c] = "free"
                /\ phase' = [phase EXCEPT ![e] = "free", ![c] = "chained"]
                /\ task' = [task EXCEPT ![e] = NoTask, ![c] = u]

\* TaskNoop: nothing to do.
Noop(e) ==
  /\ BodyReturns(e) /\ Freed(e)
  /\ row' = [row EXCEPT ![e] = "skipped"]
  /\ \E n \in NextAfter(task[e]) : next' = [next EXCEPT ![task[e]] = n]
  /\ UNCHANGED status

\* TaskDeferred: the row is deleted and the task comes back later.
Defer(e) ==
  /\ BodyReturns(e) /\ Freed(e)
  /\ row' = [row EXCEPT ![e] = "none"]
  /\ next' = [next EXCEPT ![task[e]] = "later"]
  /\ UNCHANGED status

\* Any other exception: only a scheduled task gets a new next_run.
Raise(e) ==
  LET t == task[e]
  IN /\ BodyReturns(e) /\ Freed(e)
     /\ row' = [row EXCEPT ![e] = IF @ = "running" THEN "error" ELSE @]
     /\ IF t \in EventTasks
        THEN UNCHANGED next
        ELSE \E n \in ComputeNextRun(t) : next' = [next EXCEPT ![t] = n]
     /\ UNCHANGED status

\* CancelledError in the body: handled and swallowed by _execute_task_locked.
CancelBody(e) ==
  LET t == task[e]
  IN /\ up /\ phase[e] = "body" /\ e \in cancelled
     /\ row' = [row EXCEPT ![e] = "aborted"]
     /\ \E n \in (IF e \in hit THEN {"later"} ELSE NextAfter(t)) : next' = [next EXCEPT ![t] = n]
     /\ recent' = Without(recent, e)
     /\ Release(e) /\ Freed(e)
     /\ UNCHANGED <<up, status, counter, gateVars, crashes, handVars>>

\* CancelledError behind the semaphore or at the gate: _execute_task marks
\* the row and puts a task that is due off.
CancelQueued(e) ==
  LET t == task[e]
  IN /\ up /\ phase[e] \in {"slot", "gate"} /\ e \in cancelled
     /\ row' = [row EXCEPT ![e] = IF @ \in Active THEN "aborted" ELSE @]
     /\ next' = [next EXCEPT ![t] =
                   IF status[t] = "active" /\ @ = "due" THEN "later" ELSE @]
     /\ recent' = Without(recent, e)
     /\ Release(e) /\ Freed(e)
     /\ UNCHANGED <<up, status, counter, gateVars, crashes, handVars>>

-----------------------------------------------------------------------------
(* Stopping, pausing, restarting. *)

\* The executions whose handle stands for one of the tasks ts.
HandlesOf(ts) == {handle[t] : t \in ts} \ {NoExec}

\* stop_task: cancel through the handle, leave _executing at once, and mark
\* the newest active row.
StopTask(t) ==
  /\ InRequest
  /\ cancelled' = cancelled \cup HandlesOf({t})
  /\ executing' = executing \ {t}
  /\ row' = [e \in Execs |-> IF e = Newest(t) THEN "aborted" ELSE row[e]]
  /\ recent' = Without(recent, Newest(t))
  /\ stopped' = stopped \cup {t}
  /\ UNCHANGED <<up, taskVars, handle, holder, waitq, phase, task, forced, triggered, hit,
                 gateVars, crashes, overridden>>

\* Mutant: the stopped tasks leave _executing at once, as in stop_task.
StopBackgroundForgets ==
  LET newest == {Newest(t) : t \in executing}
  IN /\ up /\ stoppers > 0
     /\ stoppers' = stoppers - 1
     /\ cancelled' = cancelled \cup HandlesOf(executing)
     /\ row' = [e \in Execs |-> IF e \in newest THEN "aborted" ELSE row[e]]
     /\ recent' = SelectSeq(recent, LAMBDA e : e \notin newest)
     /\ executing' = {}
     /\ UNCHANGED <<up, taskVars, handle, holder, waitq, phase, task, forced, triggered, hit,
                    requests, warm, chatting, uses, crashes, handVars>>

\* stop_background_tasks_for_foreground, spawned by every tracked request:
\* the same for every task in _executing, whose membership stays.
StopBackground ==
  LET newest == {Newest(t) : t \in executing}
  IN /\ up /\ stoppers > 0
     /\ stoppers' = stoppers - 1
     /\ cancelled' = cancelled \cup HandlesOf(executing)
     /\ row' = [e \in Execs |-> IF e \in newest THEN "aborted" ELSE row[e]]
     /\ recent' = SelectSeq(recent, LAMBDA e : e \notin newest)
     /\ UNCHANGED <<up, taskVars, memVars, phase, task, forced, triggered, hit,
                    requests, warm, chatting, uses, crashes, handVars>>

\* The pause and resume routes.
PauseTask(t) ==
  /\ InRequest
  /\ status' = [status EXCEPT ![t] = "paused"]
  /\ UNCHANGED <<up, next, counter, rowVars, memVars, execVars, gateVars, crashes, handVars>>

ResumeTask(t) ==
  /\ InRequest /\ t \notin Forbidden
  /\ status' = [status EXCEPT ![t] = "active"]
  /\ IF t \in EventTasks
     THEN UNCHANGED next
     ELSE \E n \in ComputeNextRun(t) : next' = [next EXCEPT ![t] = n]
  /\ UNCHANGED <<up, counter, rowVars, memVars, execVars, gateVars, crashes, handVars>>

\* The server stops or crashes: the rows stay, everything in memory is gone.
Crash ==
  /\ up /\ crashes < MaxCrashes
  /\ up' = FALSE /\ crashes' = crashes + 1
  /\ executing' = {} /\ handle' = [t \in Tasks |-> NoExec]
  /\ holder' = NoExec /\ waitq' = << >>
  /\ phase' = [e \in Execs |-> "free"] /\ task' = [e \in Execs |-> NoTask]
  /\ forced' = {} /\ triggered' = {} /\ cancelled' = {} /\ hit' = {}
  /\ requests' = 0 /\ stoppers' = 0 /\ warm' = FALSE /\ chatting' = FALSE
  /\ stopped' = {} /\ overridden' = {}
  /\ UNCHANGED <<taskVars, rowVars, uses>>

\* Mutant: start leaves the rows of the last process as they are.
StartKeepsRows ==
  /\ ~up
  /\ up' = TRUE
  /\ next' = [t \in Tasks |->
                IF status[t] = "active" /\ next[t] = "due" THEN "later" ELSE next[t]]
  /\ UNCHANGED <<status, counter, rowVars, memVars, execVars, gateVars, crashes, handVars>>

\* start: leftover rows are aborted, overdue tasks wait another minute.
Start ==
  /\ ~up
  /\ up' = TRUE
  /\ row' = [e \in Execs |-> IF row[e] \in Active THEN "aborted" ELSE row[e]]
  /\ recent' = << >>
  /\ next' = [t \in Tasks |->
                IF status[t] = "active" /\ next[t] = "due" THEN "later" ELSE next[t]]
  /\ UNCHANGED <<status, counter, memVars, execVars, gateVars, crashes, handVars>>

-----------------------------------------------------------------------------
Gate == RequestStarts \/ RequestEnds \/ QuietPasses \/ StreamStarts \/ StreamEnds

Trigger(t) ==
  \/ TimePasses(t) \/ HandleEvent(t)
  \/ RunTaskNow(t) \/ ForceTask(t) \/ WebhookTrigger(t)
  \/ StopTask(t) \/ PauseTask(t) \/ ResumeTask(t)

\* The body ends by itself, if it ever does.
Ends(e) == Complete(e) \/ Noop(e) \/ Defer(e) \/ Raise(e)

\* A callback of an execution that is ready on the event loop: it starts, is
\* given the slot, sees the quiet it waits for, or is handed a cancellation.
Callback(e) ==
  \/ ExecuteTask(e) \/ DropChained(e) \/ AcquireSlot(e) \/ PassGate(e)
  \/ CancelQueued(e) \/ CancelBody(e)

Next ==
  \/ Gate
  \/ CheckDueTasks
  \/ StopBackground
  \/ \E t \in Tasks : Trigger(t)
  \/ \E e \in Execs : Callback(e) \/ Ends(e) \/ ForegroundMonitor(e)
  \/ Crash
  \/ Start

Spec == Init /\ [][Next]_vars

\* The loop ticks, ready callbacks run, a quiet window closes, and a stopped
\* server is started again.  A body need not end: the agent loop has no limit
\* as a whole, and a call of an MCP tool is awaited without one.  Nor need a
\* request or a chat run.
Fairness ==
  /\ WF_vars(CheckDueTasks) /\ WF_vars(StopBackground) /\ WF_vars(Start)
  /\ WF_vars(QuietPasses)
  /\ \A t \in Tasks : WF_vars(TimePasses(t))
  /\ \A e \in Execs : WF_vars(Callback(e))

FairSpec == Spec /\ Fairness

-----------------------------------------------------------------------------
(* Properties. *)

\* The rows and the scheduler's memory, but for the two queues.
StateType ==
  /\ up \in BOOLEAN
  /\ status \in [Tasks -> {"active", "paused", "completed"}]
  /\ next \in [Tasks -> {"none", "later", "due"}]
  /\ row \in [Execs -> {"none"} \cup Active \cup Final]
  /\ executing \subseteq Tasks
  /\ handle \in [Tasks -> Execs \cup {NoExec}]
  /\ holder \in Execs \cup {NoExec}
  /\ phase \in [Execs -> Phases]
  /\ task \in [Execs -> Tasks \cup {NoTask}]
  /\ forced \subseteq Execs /\ triggered \subseteq Execs
  /\ cancelled \subseteq Execs /\ hit \subseteq Execs
  /\ stopped \subseteq Tasks /\ overridden \subseteq Tasks

\* The types of the rows, of the scheduler's memory and of the gate.
TypeOK ==
  /\ StateType
  /\ counter \in [Tasks -> 0..(Threshold - 1)]
  /\ recent \in Seq(Execs) /\ waitq \in Seq(Execs)
  /\ requests \in 0..MaxRequests /\ stoppers \in 0..requests
  /\ warm \in BOOLEAN /\ chatting \in BOOLEAN
  /\ uses \in 0..MaxUses /\ crashes \in 0..MaxCrashes

Live(e) == phase[e] \in {"created"} \cup Started

\* No phantom runs: while the server is up, a row that says "queued" or
\* "running" belongs to an execution that is still there to finish it,
\* whichever way executions ended, were cancelled or were cut off by a
\* restart (the rows start() and _mark_run_aborted are there to clear).
NoPhantomRuns == up => \A e \in Execs : row[e] \in Active => phase[e] \in Started

\* No leaked membership: a task in _executing has an execution that will
\* take it out again; a leaked one would never be dispatched any more.
MembershipIsReleased ==
  \A t \in executing : \E e \in Execs \ forced : task[e] = t /\ Live(e)

\* The model slot: whoever holds _run_semaphore is past it and not ended, and
\* a model-backed execution at the gate or in its body that was not started
\* with force is the one that holds it.  So the slot is never lost, and of two
\* model-backed executions that run together one at least was forced: less than
\* the comment at _run_semaphore promises ("a hard guarantee").
SlotIsOwned ==
  /\ holder # NoExec => phase[holder] \in {"gate", "body"}
  /\ \A e \in Execs \ forced :
       phase[e] \in {"gate", "body"} /\ task[e] \in ModelTasks => holder = e

\* Two executions of one task that both count as "in flight".
Overlap(t) ==
  \E d, e \in Execs \ forced : d # e /\ Live(d) /\ Live(e) /\ task[d] = t /\ task[e] = t

\* A task that nobody stopped by hand is not dispatched twice, by whichever
\* of the loop, a chain, the event bus, a webhook and the run route.
SingleFlightUnlessStopped == \A t \in Tasks \ stopped : ~Overlap(t)

\* The executions that wait to run.
Queued(e) == phase[e] \in {"created", "slot", "gate"}

\* The trigger the event bus persists outlives a restart as long as its
\* execution is queued, unless the user stops or forces that task.
TriggerSurvives ==
  \A e \in triggered : Queued(e) =>
    \/ next[task[e]] # "none"
    \/ task[e] \in stopped \cup overridden \cup Forbidden

\* Before its body.
Waiting(e) == phase[e] \in {"created", "chained", "slot", "gate"}

\* What may keep the others waiting for ever: a body that never ends and has
\* the slot, or foreground activity that never pauses.
SlotHangs == <>[](holder # NoExec /\ phase[holder] = "body")
NeverQuiet == <>[]Foreground

\* No execution is left waiting, for the slot, at the gate or before its
\* first step: it gets to its body or is ended, unless a body that has the
\* slot hangs or the foreground is never quiet.
WaitingEnds ==
  SlotHangs \/ NeverQuiet \/ \A e \in Execs : Waiting(e) ~> ~Waiting(e)

\* With the same two exceptions, a due task of status "active" is run, however
\* often foreground activity or a restart puts it off.  Resuming a "once" task
\* whose date has passed is the one way to lose its run.
DueTasksRun ==
  SlotHangs \/ NeverQuiet \/
    \A t \in Tasks :
      next[t] = "due" /\ status[t] = "active" ~>
        \/ status[t] # "active"
        \/ t \in OnceTasks /\ next[t] = "none"
        \/ \E e \in Execs : task[e] = t /\ phase[e] = "body"

=============================================================================
