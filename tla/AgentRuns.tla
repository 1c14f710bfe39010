------------------------------ MODULE AgentRuns ------------------------------
(***************************************************************************)
(* The detached agent-run manager, src/src/agent_runs.py, driven by the    *)
(* chat endpoints of src/routes/chat_routes.py.                            *)
(*                                                                         *)
(* A chat POST starts a run: an asyncio task drains the response generator *)
(* into a replay buffer, and SSE responses subscribe to that buffer.       *)
(* asyncio is cooperative, so one action is the code between two points    *)
(* where a coroutine can suspend (an await that really waits, or a yield   *)
(* to the HTTP server).  Task.cancel() only marks the task: the            *)
(* CancelledError is raised when the task next runs.                       *)
(*                                                                         *)
(* Runs are numbered in the order they start; 0 stands for None.  The k-th *)
(* event a run publishes is the number k: the properties need to tell the  *)
(* events apart, not what they say.                                        *)
(***************************************************************************)
EXTENDS Integers, Sequences, FiniteSets

CONSTANTS
  Sessions,    \* chat session ids, the keys of _RUNS
  Subs,        \* the connections browsers hold: at most one SSE response on each
  MaxRuns,     \* bound: runs started in a behaviour
  MaxEvents    \* bound: events one generator yields

ASSUME BoundsAssumption == MaxRuns \in Nat /\ MaxEvents \in Nat
ASSUME SessionsAssumption == Sessions # {}

Runs == 1 .. MaxRuns

VARIABLES
  registry,    \* _RUNS: the current run of each session
  nrun,        \* how many runs were started
  sess,        \* the session each run belongs to
  status,      \* _Run.status
  pc,          \* where the run's _drain task is suspended
  cancel,      \* the runs with a Task.cancel() that the task has not seen yet
  prev,        \* prev_task, the run this one must wait for
  buffer,      \* _Run.buffer
  timer,       \* the runs whose evict_task is sleeping
  cut,         \* history: the runs that stopped holding back their successors
               \* while their own predecessor was not done
  spc,         \* where each SSE response is in subscribe()
  srun,        \* the run it is bound to (expected_run)
  nextSeq,     \* next_seq
  queue,       \* its asyncio.Queue
  got          \* history: the events it has sent to the browser

runVars == <<registry, nrun, sess, status, pc, cancel, prev, buffer, cut>>
subVars == <<spc, srun, nextSeq, queue, got>>
vars == <<registry, nrun, sess, status, pc, cancel, prev, buffer, timer, cut,
          spc, srun, nextSeq, queue, got>>

Started == 1 .. nrun

\* The queue items: (seq, ev) for the k-th event, and the end sentinel (None, None).
Item(k) == [seq |-> k - 1, ev |-> k]
End == [seq |-> -1, ev |-> 0]

\* run.subscribers: a response is in the set from add() to the finally's discard().
Attached == {"replay", "live", "flush"}
Subscribers(r) == {c \in Subs : srun[c] = r /\ spc[c] \in Attached}

\* The body of a run's generator is at work: it streams, or its cancellation
\* handlers stop a tool and save the partial answer.
Working(r) == pc[r] \in {"draining", "unwinding"}

PrevDone(r) == prev[r] = 0 \/ pc[prev[r]] = "done"

Init ==
  /\ registry = [s \in Sessions |-> 0]
  /\ nrun = 0
  /\ sess = [r \in Runs |-> CHOOSE s \in Sessions : TRUE]  \* set by Start
  /\ status = [r \in Runs |-> "running"]
  /\ pc = [r \in Runs |-> "unborn"]
  /\ cancel = {}
  /\ prev = [r \in Runs |-> 0]
  /\ buffer = [r \in Runs |-> <<>>]
  /\ timer = {}
  /\ cut = {}
  /\ spc = [c \in Subs |-> "free"]
  /\ srun = [c \in Subs |-> 0]
  /\ nextSeq = [c \in Subs |-> 0]
  /\ queue = [c \in Subs |-> <<>>]
  /\ got = [c \in Subs |-> <<>>]

-----------------------------------------------------------------------------
(***************************************************************************)
(* Helpers of the module: effects on the queues and on the eviction timer. *)
(***************************************************************************)

\* put_nowait of each item on the queue of every subscriber of run r.
PutAll(r, items) ==
  queue' = [c \in Subs |-> IF c \in Subscribers(r) THEN queue[c] \o items
                                                   ELSE queue[c]]

\* _schedule_evict(session_id, run): identity-checked against the registry.
ScheduleEvict(r) ==
  timer' = IF registry[sess[r]] = r THEN timer \cup {r} ELSE timer

\* Mutant: the finally block forgets to re-arm the eviction timer.
LeaveUnarmed(c) == queue' = [queue EXCEPT ![c] = <<>>] /\ UNCHANGED timer

\* A response that ends leaves its queue to the garbage collector; if it was
\* the last subscriber of a finished run it re-arms the timer: the finally
\* block of subscribe().
Leave(c) ==
  LET r == srun[c]
  IN  /\ queue' = [queue EXCEPT ![c] = <<>>]
      /\ IF Subscribers(r) = {c} /\ status[r] # "running"
         THEN ScheduleEvict(r)
         ELSE UNCHANGED timer

-----------------------------------------------------------------------------
(***************************************************************************)
(* Requests: POST a message, GET resume, POST stop.                        *)
(***************************************************************************)

\* A connection carries a new response, whose body is not iterated yet.
Bind(c, r) ==
  /\ spc[c] \in {"free", "closed"}
  /\ spc' = [spc EXCEPT ![c] = "bound"]
  /\ srun' = [srun EXCEPT ![c] = r]
  /\ nextSeq' = [nextSeq EXCEPT ![c] = 0]
  /\ got' = [got EXCEPT ![c] = <<>>]

InFlight(p) == p # 0 /\ pc[p] # "done"

\* Mutant: a replaced run's subscribers are not woken.
TerminalizeSilently(p) ==
  /\ status' = [q \in Runs |-> IF q = p /\ InFlight(p) /\ status[p] = "running"
                               THEN "stopped" ELSE status[q]]
  /\ UNCHANGED queue

\* Mutant: the replaced run's own cleanup is left to do it.
TerminalizeLater(p) == UNCHANGED <<status, queue>>

\* start() ends the in-flight run it replaces before it cancels its task,
\* which may never reach its own cleanup.
Terminalize(p) ==
  IF InFlight(p) /\ status[p] = "running"
  THEN status' = [status EXCEPT ![p] = "stopped"] /\ PutAll(p, <<End>>)
  ELSE UNCHANGED <<status, queue>>

\* Mutant: the replaced run is left to finish by itself.
CancelNothing(p) == UNCHANGED cancel

CancelTask(p) == IF InFlight(p) THEN cancel' = cancel \cup {p}
                                ELSE UNCHANGED cancel

\* start(): the new run takes the predecessor's place in the registry and will
\* wait for its task; response c is bound to it.
Start(s, c) ==
  LET r == nrun + 1
      p == registry[s]
  IN  /\ r \in Runs
      /\ Terminalize(p)
      /\ CancelTask(p)
      /\ timer' = timer \ {p}
      /\ nrun' = r
      /\ sess' = [sess EXCEPT ![r] = s]
      /\ registry' = [registry EXCEPT ![s] = r]
      /\ pc' = [pc EXCEPT ![r] = "created"]
      /\ prev' = [prev EXCEPT ![r] = IF InFlight(p) THEN p ELSE 0]
      /\ Bind(c, r)
      /\ UNCHANGED <<buffer, cut>>

\* chat_resume(): binds a new response to the session's running run.
Resume(s, c) ==
  LET r == registry[s]
  IN  /\ r # 0
      /\ status[r] = "running"
      /\ Bind(c, r)
      /\ UNCHANGED <<runVars, timer, queue>>

\* stop(): cancels the session's run if it is the one the browser names.  The
\* browser learns the id from the response headers, after the task's first step.
Stop(s) ==
  LET r == registry[s]
  IN  /\ r # 0
      /\ pc[r] \notin {"created", "done"}
      /\ cancel' = cancel \cup {r}
      /\ UNCHANGED <<registry, nrun, sess, status, pc, prev, buffer, timer, cut, subVars>>

-----------------------------------------------------------------------------
(***************************************************************************)
(* The run's task, _drain().                                               *)
(***************************************************************************)

\* Mutant: the new run does not wait for its predecessor.
EnterDrainAtOnce(r) ==
  /\ pc[r] = "created"
  /\ pc' = [pc EXCEPT ![r] = IF r \in cancel THEN "done" ELSE "draining"]
  /\ UNCHANGED <<registry, nrun, sess, status, cancel, prev, buffer, timer, cut, subVars>>

\* The task's first step.  A task cancelled before it never enters _drain: no
\* except or finally block runs, and nothing waits for its predecessor.
EnterDrain(r) ==
  /\ pc[r] = "created"
  /\ \/ /\ r \in cancel
        /\ pc' = [pc EXCEPT ![r] = "done"]
        /\ cut' = IF PrevDone(r) THEN cut ELSE cut \cup {r}
     \/ /\ r \notin cancel
        /\ pc' = [pc EXCEPT ![r] = IF PrevDone(r) THEN "draining" ELSE "waiting"]
        /\ UNCHANGED cut
  /\ UNCHANGED <<registry, nrun, sess, status, cancel, prev, buffer, timer, subVars>>

\* asyncio.wait({prev_task}) returns.
PrevFinished(r) ==
  /\ pc[r] = "waiting"
  /\ r \notin cancel
  /\ PrevDone(r)
  /\ pc' = [pc EXCEPT ![r] = "draining"]
  /\ UNCHANGED <<registry, nrun, sess, status, cancel, prev, buffer, timer, cut, subVars>>

\* The generator yields an event: _publish appends and fans out.
Publish(r) ==
  LET k == Len(buffer[r]) + 1
  IN  /\ pc[r] = "draining"
      /\ r \notin cancel
      /\ k <= MaxEvents
      /\ buffer' = [buffer EXCEPT ![r] = Append(@, k)]
      /\ PutAll(r, <<Item(k)>>)
      /\ UNCHANGED <<registry, nrun, sess, status, pc, cancel, prev, timer, cut,
                     spc, srun, nextSeq, got>>

\* The generator ends.
Complete(r) ==
  /\ pc[r] = "draining"
  /\ r \notin cancel
  /\ pc' = [pc EXCEPT ![r] = "done"]
  /\ status' = [status EXCEPT ![r] = IF @ = "running" THEN "done" ELSE @]
  /\ PutAll(r, <<End>>)
  /\ ScheduleEvict(r)
  /\ UNCHANGED <<registry, nrun, sess, cancel, prev, buffer, cut, spc, srun, nextSeq, got>>

\* The generator raises: while it streams, or because a cancellation handler
\* of its own fails.  Two events say so.
Fail(r) ==
  LET k == Len(buffer[r]) + 1
  IN  /\ \/ pc[r] = "draining" /\ r \notin cancel
         \/ pc[r] = "unwinding"
      /\ pc' = [pc EXCEPT ![r] = "done"]
      /\ status' = [status EXCEPT ![r] = "error"]
      /\ buffer' = [buffer EXCEPT ![r] = @ \o <<k, k + 1>>]
      /\ PutAll(r, <<Item(k), Item(k + 1), End>>)
      /\ ScheduleEvict(r)
      /\ UNCHANGED <<registry, nrun, sess, cancel, prev, cut, spc, srun, nextSeq, got>>

\* CancelledError is raised inside the generator, whose handlers await the
\* tool they cancel and save the partial answer.
DeliverCancel(r) ==
  /\ pc[r] = "draining"
  /\ r \in cancel
  /\ pc' = [pc EXCEPT ![r] = "unwinding"]
  /\ cancel' = cancel \ {r}
  /\ UNCHANGED <<registry, nrun, sess, status, prev, buffer, timer, cut, subVars>>

\* ... and leaves the generator: the except and finally blocks of _drain run.
\* The predecessor of a run that got this far is done.
UnwindEnd(r) ==
  /\ pc[r] = "unwinding"
  /\ pc' = [pc EXCEPT ![r] = "done"]
  /\ status' = [status EXCEPT ![r] = "stopped"]
  /\ PutAll(r, <<End>>)
  /\ ScheduleEvict(r)
  /\ UNCHANGED <<registry, nrun, sess, cancel, prev, buffer, cut, spc, srun, nextSeq, got>>

\* CancelledError is raised in the wait for the predecessor: subscribers are
\* closed at once, the task stays to hold back its successors.
CancelWaiting(r) ==
  /\ pc[r] = "waiting"
  /\ r \in cancel
  /\ status' = [status EXCEPT ![r] = "stopped"]
  /\ PutAll(r, <<End>>)
  /\ \/ /\ PrevDone(r)
        /\ pc' = [pc EXCEPT ![r] = "done"]
        /\ ScheduleEvict(r)
        /\ UNCHANGED cancel
     \/ /\ ~PrevDone(r)
        /\ pc' = [pc EXCEPT ![r] = "barrier"]
        /\ cancel' = cancel \ {r}
        /\ UNCHANGED timer
  /\ UNCHANGED <<registry, nrun, sess, prev, buffer, cut, spc, srun, nextSeq, got>>

\* await asyncio.shield(prev_task) returns, or raises because this task is
\* cancelled once more, which the except clause swallows.
BarrierEnd(r) ==
  /\ pc[r] = "barrier"
  /\ PrevDone(r) \/ r \in cancel
  /\ pc' = [pc EXCEPT ![r] = "done"]
  /\ cut' = IF PrevDone(r) THEN cut ELSE cut \cup {r}
  /\ ScheduleEvict(r)
  /\ UNCHANGED <<registry, nrun, sess, status, cancel, prev, buffer, subVars>>

\* The grace period of _evict ends.
EvictFire(r) ==
  LET s == sess[r]
      evicts == registry[s] = r /\ status[r] # "running" /\ Subscribers(r) = {}
  IN  /\ r \in timer
      /\ timer' = timer \ {r}
      /\ registry' = [registry EXCEPT ![s] = IF evicts THEN 0 ELSE @]
      /\ cut' = IF evicts /\ pc[r] # "done" THEN cut \cup {r} ELSE cut
      /\ UNCHANGED <<nrun, sess, status, pc, cancel, prev, buffer, subVars>>

-----------------------------------------------------------------------------
(***************************************************************************)
(* A response's body, subscribe(session_id, expected_run).                 *)
(***************************************************************************)

\* The server starts to iterate the body: the queue is registered before the
\* replay, and a pending eviction is called off.
Subscribe(c) ==
  /\ spc[c] = "bound"
  /\ spc' = [spc EXCEPT ![c] = "replay"]
  /\ timer' = timer \ {srun[c]}
  /\ UNCHANGED <<runVars, srun, nextSeq, queue, got>>

\* yield run.buffer[next_seq], in the replay loop or the loop after the sentinel.
SendFromBuffer(c) ==
  LET b == buffer[srun[c]]
      n == nextSeq[c]
  IN  /\ n < Len(b)
      /\ got' = [got EXCEPT ![c] = Append(@, b[n + 1])]
      /\ nextSeq' = [nextSeq EXCEPT ![c] = n + 1]
      /\ UNCHANGED <<runVars, timer, spc, srun, queue>>

Replay(c) == spc[c] = "replay" /\ SendFromBuffer(c)
Flush(c)  == spc[c] = "flush" /\ SendFromBuffer(c)

\* The buffer is replayed: a finished run ends the response, a running one is
\* followed live.
ReplayDone(c) ==
  /\ spc[c] = "replay"
  /\ nextSeq[c] >= Len(buffer[srun[c]])
  /\ IF status[srun[c]] # "running"
     THEN spc' = [spc EXCEPT ![c] = "closed"] /\ Leave(c)
     ELSE spc' = [spc EXCEPT ![c] = "live"] /\ UNCHANGED <<timer, queue>>
  /\ UNCHANGED <<runVars, srun, nextSeq, got>>

\* Mutant: events already replayed are not skipped.
ReceiveTwice(c) ==
  /\ spc[c] = "live"
  /\ queue[c] # <<>>
  /\ queue' = [queue EXCEPT ![c] = Tail(@)]
  /\ LET item == Head(queue[c])
     IN  IF item = End
         THEN spc' = [spc EXCEPT ![c] = "flush"] /\ UNCHANGED <<nextSeq, got>>
         ELSE /\ got' = [got EXCEPT ![c] = Append(@, item.ev)]
              /\ nextSeq' = [nextSeq EXCEPT ![c] = item.seq + 1]
              /\ UNCHANGED spc
  /\ UNCHANGED <<runVars, timer, srun>>

\* q.get() returns.
Receive(c) ==
  /\ spc[c] = "live"
  /\ queue[c] # <<>>
  /\ queue' = [queue EXCEPT ![c] = Tail(@)]
  /\ LET item == Head(queue[c])
     IN  \/ /\ item = End
            /\ spc' = [spc EXCEPT ![c] = "flush"]
            /\ UNCHANGED <<nextSeq, got>>
         \/ /\ item # End
            /\ item.seq >= nextSeq[c]
            /\ got' = [got EXCEPT ![c] = Append(@, item.ev)]
            /\ nextSeq' = [nextSeq EXCEPT ![c] = item.seq + 1]
            /\ UNCHANGED spc
         \/ /\ item # End
            /\ item.seq < nextSeq[c]
            /\ UNCHANGED <<spc, nextSeq, got>>
  /\ UNCHANGED <<runVars, timer, srun>>

\* Mutant: a timeout on a finished run ends the response without the flush.
TimeoutDrop(c) ==
  /\ spc[c] = "live"
  /\ status[srun[c]] # "running"
  /\ spc' = [spc EXCEPT ![c] = "closed"]
  /\ Leave(c)
  /\ UNCHANGED <<runVars, srun, nextSeq, got>>

\* The 10 s wait times out.  On a running run that is a heartbeat, which changes
\* nothing; on a finished one it counts as the sentinel.  The cancelled get()
\* leaves an item that arrives at that moment on the queue.
TimeoutEnd(c) ==
  /\ spc[c] = "live"
  /\ status[srun[c]] # "running"
  /\ spc' = [spc EXCEPT ![c] = "flush"]
  /\ UNCHANGED <<runVars, timer, srun, nextSeq, queue, got>>

\* Mutant: the break after the flush is missing.
FlushLoops(c) ==
  /\ spc[c] = "flush"
  /\ nextSeq[c] >= Len(buffer[srun[c]])
  /\ spc' = [spc EXCEPT ![c] = "live"]
  /\ UNCHANGED <<runVars, timer, srun, nextSeq, queue, got>>

FlushDone(c) ==
  /\ spc[c] = "flush"
  /\ nextSeq[c] >= Len(buffer[srun[c]])
  /\ spc' = [spc EXCEPT ![c] = "closed"]
  /\ Leave(c)
  /\ UNCHANGED <<runVars, srun, nextSeq, got>>

\* The browser goes away.  A body that was never iterated has no finally to run.
Disconnect(c) ==
  /\ \/ spc[c] = "bound" /\ UNCHANGED <<timer, queue>>
     \/ spc[c] \in Attached /\ Leave(c)
  /\ spc' = [spc EXCEPT ![c] = "free"]
  /\ srun' = [srun EXCEPT ![c] = 0]
  /\ nextSeq' = [nextSeq EXCEPT ![c] = 0]
  /\ got' = [got EXCEPT ![c] = <<>>]
  /\ UNCHANGED runVars

-----------------------------------------------------------------------------
Request ==
  \E s \in Sessions : \/ \E c \in Subs : Start(s, c) \/ Resume(s, c)
                      \/ Stop(s)

\* What the event loop does for a run's task without the generator's help.
TaskStep(r) == \/ EnterDrain(r) \/ PrevFinished(r) \/ DeliverCancel(r)
               \/ CancelWaiting(r) \/ BarrierEnd(r)

\* What the generator does when it is resumed.
GeneratorStep(r) == Publish(r) \/ Complete(r) \/ Fail(r) \/ UnwindEnd(r)

ResponseStep(c) == \/ Replay(c) \/ ReplayDone(c) \/ Receive(c) \/ TimeoutEnd(c)
                   \/ Flush(c) \/ FlushDone(c)

Next ==
  \/ Request
  \/ \E r \in Started : TaskStep(r) \/ GeneratorStep(r) \/ EvictFire(r)
  \/ \E c \in Subs : Subscribe(c) \/ ResponseStep(c) \/ Disconnect(c)

Spec == Init /\ [][Next]_vars

(***************************************************************************)
(* Fairness: the event loop runs every ready task and every expired timer, *)
(* the handlers of a cancelled generator end (each of their awaits has a   *)
(* timeout), and the server keeps pulling a response the browser has not   *)
(* left.  Nothing is assumed of a generator that is not cancelled.         *)
(***************************************************************************)
Fairness ==
  /\ \A r \in Runs : WF_vars(r \in Started /\ TaskStep(r))
  /\ \A r \in Runs : WF_vars(r \in Started /\ (UnwindEnd(r) \/ (pc[r] = "unwinding" /\ Fail(r))))
  /\ \A r \in Runs : WF_vars(r \in Started /\ EvictFire(r))
  /\ \A c \in Subs : WF_vars(ResponseStep(c))

FairSpec == Spec /\ Fairness

-----------------------------------------------------------------------------
(***************************************************************************)
(* Properties.                                                             *)
(***************************************************************************)

RunTypes ==
  /\ nrun \in 0 .. MaxRuns
  /\ registry \in [Sessions -> 0 .. MaxRuns]
  /\ sess \in [Runs -> Sessions]
  /\ status \in [Runs -> {"running", "done", "error", "stopped"}]
  /\ pc \in [Runs -> {"unborn", "created", "waiting", "draining", "unwinding",
                      "barrier", "done"}]
  /\ cancel \subseteq Runs
  /\ prev \in [Runs -> 0 .. MaxRuns]
  /\ timer \subseteq Runs
  /\ cut \subseteq Runs

Events == Nat \ {0}
QueueItems == [seq : Int, ev : Nat]

ResponseTypes ==
  /\ spc \in [Subs -> {"free", "bound", "replay", "live", "flush", "closed"}]
  /\ srun \in [Subs -> 0 .. MaxRuns]
  /\ nextSeq \in [Subs -> Nat]

LogTypes ==
  /\ buffer \in [Runs -> Seq(Events)]
  /\ queue \in [Subs -> Seq(QueueItems)]
  /\ got \in [Subs -> Seq(Events)]

\* The type invariant: the values each variable can hold.
TypeOK == RunTypes /\ ResponseTypes /\ LogTypes

\* What a browser receives, replayed and live together, is a prefix of the
\* run's event log: nothing lost, repeated or out of order, whenever it joined
\* (subscribe() registers its queue before it replays, then skips by sequence
\* number what it has replayed).
DeliveredIsPrefix ==
  \A c \in Subs : \A i \in 1 .. Len(got[c]) : got[c][i] = i

\* A response that the server closed on a run that completed has delivered the
\* whole log, however the end sentinel, the timeout and the last events raced.
DeliveredComplete ==
  \A c \in Subs :
    (spc[c] = "closed" /\ status[srun[c]] = "done") => Len(got[c]) = Len(buffer[srun[c]])

\* A response that waits for live events of a run that is over finds an end
\* sentinel on its queue: replacement, failure, cancellation in the generator
\* and cancellation in the wait for a predecessor all wake every subscriber.
NobodyLeftWaiting ==
  \A c \in Subs :
    (spc[c] = "live" /\ status[srun[c]] # "running")
      => \E i \in 1 .. Len(queue[c]) : queue[c][i] = End

\* Memory is bounded: a finished run that is still registered and has no
\* subscriber always has its eviction timer armed.
FinishedRunIsEvictable ==
  \A s \in Sessions :
    LET r == registry[s]
    IN  (r # 0 /\ pc[r] = "done" /\ Subscribers(r) = {}) => r \in timer

\* A session's only running run is the registered one: is_active(), which the
\* background monitor and the interactive gate ask before they touch a session,
\* is never false while the status of one of its runs is "running".
RunningIsRegistered ==
  \A r \in Started : status[r] = "running" => registry[sess[r]] = r

\* Two runs of one session are never both at work unless a run between them
\* stopped holding the later one back: the wait for prev_task chains through
\* runs that were themselves cancelled while waiting.
BarrierUnlessCut ==
  \A p, r \in Started :
    (p < r /\ sess[p] = sess[r] /\ Working(p) /\ Working(r))
      => \E m \in p .. r - 1 : sess[m] = sess[r] /\ m \in cut

\* A run leaves its wait for the run it replaced, although nothing obliges that
\* run's generator to end by itself: start() has cancelled it.
WaitingEnds ==
  \A r \in Runs : pc[r] = "waiting" ~> pc[r] # "waiting"

\* Every response attached to a run that is over is closed.
ResponsesClose ==
  \A c \in Subs :
    (spc[c] \in Attached /\ status[srun[c]] # "running") ~> spc[c] \notin Attached

\* What the responses see of the runs.
Lengths == [r \in Runs |-> Len(buffer[r])]
Over == {r \in Runs : status[r] # "running"}
Completed == {r \in Runs : status[r] = "done"}
Reading == {c \in Subs : spc[c] \notin {"free", "closed"}}

Browsers ==
  INSTANCE RunLog
    WITH NoRun <- 0, length <- Lengths, over <- Over, complete <- Completed,
         run <- srun, received <- got, reading <- Reading

\* The manager implements the logs and their readers: whatever tasks, queues,
\* sentinels and time-outs do, a response reads the log of its run from the start
\* and in order, and the server closes it only when the run is over and all of
\* its log has been read; the log of a completed run never grows.
ImplementsRunLog == Browsers!LogSpec

=============================================================================
