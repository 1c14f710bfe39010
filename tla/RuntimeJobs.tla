----------------------------- MODULE RuntimeJobs -----------------------------
(***************************************************************************)
(* The durable lifecycle jobs of the control plane:                        *)
(* src/src/ulysses_jobs.py.                                                *)
(*                                                                         *)
(* A job is a JSON file; a runtime's lock is a file made with O_EXCL that  *)
(* names the job.  Requests run on the API's thread pool, each job in a    *)
(* detached worker process, and nothing but the lock file orders them.  So *)
(* one action is what a thread or a process does up to and including one   *)
(* file operation or system call: reading a record, replacing it (always   *)
(* as a whole, from the copy in memory), opening, reading or unlinking the *)
(* lock, starting the worker.                                              *)
(*                                                                         *)
(* The jobs are those of one runtime: runtimes share neither lock nor      *)
(* record.  Token, phrase and expiry of a confirmation only decide whether *)
(* execute() goes on.  Process ids are not reused.                         *)
(***************************************************************************)
EXTENDS Naturals, FiniteSets

CONSTANTS
  Jobs,        \* plans made for the runtime
  Calls,       \* API threads: each carries one call at a time
  NSteps,      \* steps of a plan
  MaxWorkers,  \* bound: worker processes started
  MaxCrashes,  \* bound: times the API process dies
  Stalls,      \* whether threads and workers may stall for 30 s in mid-launch
  Free         \* no lock file

ASSUME BoundsAssumption ==
  NSteps \in Nat \ {0} /\ MaxWorkers \in Nat /\ MaxCrashes \in Nat /\ Stalls \in BOOLEAN
ASSUME NamesAssumption ==
  /\ Jobs \cap Calls = {}
  /\ Free \notin Jobs \cup Calls
  /\ Nat \cap (Jobs \cup Calls) = {}

Pids == 1 .. MaxWorkers
Procs == Calls \cup Pids

VARIABLES
  rec,       \* the job files
  lock,      \* the lock file: Free, the job it names, or the call that has
             \* created it and not yet written it
  alive,     \* the pids pid_alive() finds: a dead child stays until it is reaped
  late,      \* the jobs whose confirmed_at is over 30 s old
  proc,      \* each thread and each worker: where it is, and its locals
  nworkers, crashes,
  stolen,    \* history: an unlink removed a lock that was in use, or a job
             \* gave up its lock while its worker went on
  relaunched,  \* history: a job was launched that had been launched before
  wedged     \* history: the API died between locking and storing "launching"

bounds == <<nworkers, crashes>>
history == <<stolen, relaunched, wedged>>
vars == <<rec, lock, alive, late, proc, bounds, history>>

Active == {"launching", "running"}
Terminal == {"succeeded", "failed"}

\* passed is what step_results amounts to: how many steps passed.  Of the error
\* texts one matters: "Detached runtime worker exited without final state."
Records == [status : {"absent", "planned"} \cup Active \cup Terminal,
            pid : 0 .. MaxWorkers,
            passed : Nat,
            error : {"", "exited"}]

NoRecord == [status |-> "absent", pid |-> 0, passed |-> 0, error |-> ""]
Plan == [NoRecord EXCEPT !.status = "planned"]

\* job: the job_id of the call; owner: the job whose lock it looks at; record:
\* the copy of a job file it holds; child: worker_pid; index: the loop's.
Idle == [at |-> "idle", job |-> Free, owner |-> Free, record |-> NoRecord,
         child |-> 0, index |-> 0]

Init ==
  /\ rec = [j \in Jobs |-> NoRecord]
  /\ lock = Free
  /\ alive = {} /\ late = {}
  /\ proc = [p \in Procs |-> Idle]
  /\ nworkers = 0 /\ crashes = 0
  /\ stolen = FALSE /\ relaunched = FALSE /\ wedged = FALSE

-----------------------------------------------------------------------------
(***************************************************************************)
(* Control flow and file operations.                                       *)
(***************************************************************************)

At(p, l) == proc[p].at = l
Goto(p, l) == proc' = [proc EXCEPT ![p].at = l]

\* ... with no local in use any more but the job id.
Enter(p, l) == proc' = [proc EXCEPT ![p] = [Idle EXCEPT !.at = l, !.job = proc[p].job]]
Hold(p, l, r) == proc' = [proc EXCEPT ![p].at = l, ![p].record = r]

\* A call returns or raises.  A worker that exits keeps its pid until reaped.
Return(c) == proc' = [proc EXCEPT ![c] = Idle]
Exit(p) == proc' = [proc EXCEPT ![p] = [Idle EXCEPT !.at = IF p \in Calls THEN "idle" ELSE "exited"]]

\* _save(record): the file becomes r, whatever it holds by now.
Save(j, r) == rec' = [rec EXCEPT ![j] = r]

\* The lock is in use: its job is not over, or a call took it for a job and is
\* about to launch that.
InUse(l) ==
  \/ l \in Calls
  \/ l \in Jobs /\ rec[l].status \notin Terminal
  \/ \E c \in Calls : At(c, "launch") /\ proc[c].job = l

\* lock_path.unlink() removes the file that is there by now.
Unlink ==
  /\ lock' = Free
  /\ stolen' = (stolen \/ InUse(lock))

\* Mutant: only a job that has said it runs is held against its process.
DeadRunning(r) == r.status = "running" /\ r.pid # 0 /\ r.pid \notin alive

Dead(r) == r.status \in Active /\ r.pid # 0 /\ r.pid \notin alive
Failed(r, error) == [r EXCEPT !.status = "failed", !.error = error]

-----------------------------------------------------------------------------
(***************************************************************************)
(* create_plan() and execute(), on an API thread.                          *)
(***************************************************************************)

CreatePlan(j) ==
  /\ rec[j].status = "absent"
  /\ rec' = [rec EXCEPT ![j] = Plan]
  /\ UNCHANGED <<lock, alive, late, proc, bounds, history>>

\* execute() reads the plan, finds it awaiting confirmation, and confirmed.
Execute(c, j) ==
  /\ At(c, "idle")
  /\ rec[j].status = "planned"
  /\ proc' = [proc EXCEPT ![c].at = "acquire", ![c].job = j]
  /\ UNCHANGED <<rec, lock, alive, late, bounds, history>>

\* Mutant: the lock file is opened without O_EXCL.
OpenLockShared(c) ==
  /\ At(c, "acquire")
  /\ lock' = c
  /\ Goto(c, "write")
  /\ UNCHANGED <<rec, alive, late, bounds, history>>

\* acquire_lock(): os.open with O_CREAT | O_EXCL.
OpenLock(c) ==
  /\ At(c, "acquire")
  /\ \/ lock = Free /\ lock' = c /\ Goto(c, "write")
     \/ lock # Free /\ Goto(c, "readLock") /\ UNCHANGED lock
  /\ UNCHANGED <<rec, alive, late, bounds, history>>

\* The job id goes into the file that was created, if it is still linked.
WriteLock(c) ==
  /\ At(c, "write")
  /\ lock' = IF lock = c THEN proc[c].job ELSE lock
  /\ Goto(c, "launch")
  /\ UNCHANGED <<rec, alive, late, bounds, history>>

\* The file exists: whose is it?  A missing or an empty one is a conflict.
ReadLock(c) ==
  /\ At(c, "readLock")
  /\ \/ /\ lock \in Jobs
        /\ proc' = [proc EXCEPT ![c].at = "loadOwner", ![c].owner = lock]
     \/ /\ lock \notin Jobs
        /\ Return(c)
  /\ UNCHANGED <<rec, lock, alive, late, bounds, history>>

LoadOwner(c) ==
  /\ At(c, "loadOwner")
  /\ Hold(c, "judgeOwner", rec[proc[c].owner])
  /\ UNCHANGED <<rec, lock, alive, late, bounds, history>>

\* Mutant: the lock of a finished owner is not removed before the retry.
JudgeOwnerRetries(c) ==
  /\ At(c, "judgeOwner")
  /\ \/ proc[c].record.status \in Terminal /\ Enter(c, "acquire")
     \/ proc[c].record.status \notin Terminal /\ Return(c)
  /\ UNCHANGED <<rec, lock, alive, late, bounds, history>>

\* A stale owner is declared failed, a finished one loses its lock and the
\* acquisition starts over; any other is a conflict.
JudgeOwner(c) ==
  LET r == proc[c].record
  IN  /\ At(c, "judgeOwner")
      /\ \/ /\ Dead(r)
            /\ Save(proc[c].owner, Failed(r, ""))
            /\ Enter(c, "unlink")
            /\ UNCHANGED <<lock, stolen>>
         \/ /\ r.status \in Terminal
            /\ Unlink
            /\ Enter(c, "acquire")
            /\ UNCHANGED rec
         \/ /\ ~Dead(r) /\ r.status \notin Terminal
            /\ Return(c)
            /\ UNCHANGED <<rec, lock, stolen>>
      /\ UNCHANGED <<alive, late, bounds, relaunched, wedged>>

UnlinkStale(c) ==
  /\ At(c, "unlink")
  /\ Unlink
  /\ Enter(c, "acquire")
  /\ UNCHANGED <<rec, alive, late, bounds, relaunched, wedged>>

\* Mutant: a check after acquire_lock() raises without releasing the lock.
LaunchRaises(c) ==
  /\ At(c, "launch")
  /\ Return(c)
  /\ UNCHANGED <<rec, lock, alive, late, bounds, history>>

\* The plan, as execute() read it before it had the lock, is stored as
\* launching, whatever the file says by now.
Launch(c) ==
  /\ At(c, "launch")
  /\ Save(proc[c].job, [Plan EXCEPT !.status = "launching"])
  /\ relaunched' = (relaunched \/ rec[proc[c].job].status # "planned")
  /\ late' = late \ {proc[c].job}
  /\ Goto(c, "popen")
  /\ UNCHANGED <<lock, alive, bounds, stolen, wedged>>

\* subprocess.Popen starts the detached worker ...
Popen(c) ==
  LET w == nworkers + 1
  IN  /\ At(c, "popen")
      /\ w \in Pids
      /\ nworkers' = w
      /\ alive' = alive \cup {w}
      /\ proc' = [proc EXCEPT ![c].at = "reload", ![c].child = w,
                              ![w].at = "load", ![w].job = proc[c].job]
      /\ UNCHANGED <<rec, lock, late, crashes, history>>

\* ... or raises: the job is stored as failed and its lock released.  The same
\* is done when loading or storing its record raises once the worker has started.
LaunchFails(c) ==
  /\ proc[c].at \in {"popen", "reload", "savePid"}
  /\ Save(proc[c].job, Failed([Plan EXCEPT !.status = "launching"], ""))
  /\ stolen' = (stolen \/ ~At(c, "popen"))
  /\ Enter(c, "release")
  /\ UNCHANGED <<lock, alive, late, bounds, relaunched, wedged>>

\* latest = self._load(job_id): only a job still launching gets the pid.
Reload(c) ==
  LET r == rec[proc[c].job]
  IN  /\ At(c, "reload")
      /\ \/ r.status = "launching" /\ Hold(c, "savePid", r)
         \/ r.status # "launching" /\ Return(c)
      /\ UNCHANGED <<rec, lock, alive, late, bounds, history>>

SavePid(c) ==
  /\ At(c, "savePid")
  /\ Save(proc[c].job, [proc[c].record EXCEPT !.pid = proc[c].child])
  /\ Return(c)
  /\ UNCHANGED <<lock, alive, late, bounds, history>>

-----------------------------------------------------------------------------
(***************************************************************************)
(* get() and list(), which reconcile a record with its process, and        *)
(* release_lock().                                                         *)
(***************************************************************************)

Get(c, j) ==
  /\ At(c, "idle")
  /\ rec[j].status \in Active
  /\ proc' = [proc EXCEPT ![c].at = "judge", ![c].job = j, ![c].record = rec[j]]
  /\ UNCHANGED <<rec, lock, alive, late, bounds, history>>

\* Mutant: a launch without a pid is taken to be under way for ever.
NeverLaunchedIgnored(j, r) == FALSE

NeverLaunched(j, r) == r.status = "launching" /\ r.pid = 0 /\ j \in late

Judge(c) ==
  LET j == proc[c].job
      r == proc[c].record
      lost == Dead(r) \/ NeverLaunched(j, r)
  IN  /\ At(c, "judge")
      /\ \/ lost /\ Save(j, Failed(r, "exited")) /\ Enter(c, "release")
         \/ ~lost /\ Return(c) /\ UNCHANGED rec
      /\ UNCHANGED <<lock, alive, late, bounds, history>>

\* release_lock(): reads the file, and unlinks it if it names the job.
Release(p) ==
  /\ At(p, "release")
  /\ \/ lock = proc[p].job /\ Goto(p, "releaseUnlink")
     \/ lock # proc[p].job /\ Exit(p)
  /\ UNCHANGED <<rec, lock, alive, late, bounds, history>>

ReleaseUnlink(p) ==
  /\ At(p, "releaseUnlink")
  /\ Unlink
  /\ Exit(p)
  /\ UNCHANGED <<rec, alive, late, bounds, relaunched, wedged>>

-----------------------------------------------------------------------------
(***************************************************************************)
(* run_persisted_job(), in a worker process w.                             *)
(***************************************************************************)

\* Reads the record; a job that is not launching or running is refused.
WorkerLoad(w) ==
  LET r == rec[proc[w].job]
  IN  /\ At(w, "load")
      /\ \/ r.status \in Active
            /\ Hold(w, "begin", [r EXCEPT !.status = "running", !.pid = w])
         \/ r.status \notin Active /\ Exit(w)
      /\ UNCHANGED <<rec, lock, alive, late, bounds, history>>

WorkerSave(w) ==
  /\ Save(proc[w].job, proc[w].record)
  /\ UNCHANGED <<lock, alive, late, bounds, history>>

\* Stores "running", and before each step its index.
Begin(w) == At(w, "begin") /\ WorkerSave(w) /\ Goto(w, "next")

BeginStep(w) ==
  /\ At(w, "next") /\ proc[w].index < NSteps
  /\ WorkerSave(w)
  /\ Goto(w, "step")

\* Mutant: the break after a failed step is missing.
EndStepContinues(w, passes) ==
  LET r == IF passes THEN [proc[w].record EXCEPT !.passed = @ + 1] ELSE proc[w].record
  IN  /\ At(w, "step")
      /\ proc' = [proc EXCEPT ![w].at = "next", ![w].record = r, ![w].index = @ + 1]
      /\ Save(proc[w].job, r)
      /\ UNCHANGED <<lock, alive, late, bounds, history>>

\* The step's command ends, or its timeout does; the result is stored.  A code
\* that is neither expected nor allowed to fail, a timeout, or output that
\* lacks the expected text ends the loop.
EndStep(w, passes) ==
  LET r == IF passes THEN [proc[w].record EXCEPT !.passed = @ + 1] ELSE proc[w].record
  IN  /\ At(w, "step")
      /\ proc' = [proc EXCEPT ![w].at = IF passes THEN "next" ELSE "failed",
                              ![w].record = r, ![w].index = @ + 1]
      /\ Save(proc[w].job, r)
      /\ UNCHANGED <<lock, alive, late, bounds, history>>

\* The final state is stored; the finally block releases the lock.
Finish(w) ==
  LET r == proc[w].record
  IN  /\ \/ At(w, "next") /\ proc[w].index = NSteps
            /\ Save(proc[w].job, [r EXCEPT !.status = "succeeded"])
         \/ At(w, "failed")
            /\ Save(proc[w].job, [r EXCEPT !.status = "failed"])
         \* an exception of the worker itself, for instance from the log file
         \/ proc[w].at \in {"next", "step", "failed"}
            /\ Save(proc[w].job, Failed(r, ""))
      /\ Enter(w, "release")
      /\ UNCHANGED <<lock, alive, late, bounds, history>>

-----------------------------------------------------------------------------
(***************************************************************************)
(* The environment: death of a worker, of the API, the passage of time.    *)
(***************************************************************************)

Running(w) == proc[w].at \notin {"idle", "exited"}

WorkerDies(w) ==
  /\ Running(w)
  /\ Exit(w)
  /\ UNCHANGED <<rec, lock, alive, late, bounds, history>>

\* The parent, or init once the parent is dead, collects the process.
Reap(w) ==
  /\ At(w, "exited")
  /\ w \in alive
  /\ alive' = alive \ {w}
  /\ UNCHANGED <<rec, lock, late, proc, bounds, history>>

\* The API process dies with its threads; the detached workers go on.
ApiDies ==
  /\ crashes < MaxCrashes
  /\ crashes' = crashes + 1
  /\ proc' = [p \in Procs |-> IF p \in Calls THEN Idle ELSE proc[p]]
  /\ wedged' = (wedged \/ \E c \in Calls : \/ lock = c
                                           \/ At(c, "launch") /\ lock = proc[c].job)
  /\ UNCHANGED <<rec, lock, alive, late, nworkers, stolen, relaunched>>

\* p is between two steps of launching j or of judging its launch.
MidLaunch(p, j) ==
  proc[p].job = j /\ proc[p].at \in {"popen", "reload", "savePid", "load", "begin", "judge"}

ThirtySeconds(j) ==
  /\ rec[j].status = "launching"
  /\ Stalls \/ \A p \in Procs : ~MidLaunch(p, j)
  /\ j \notin late
  /\ late' = late \cup {j}
  /\ UNCHANGED <<rec, lock, alive, proc, bounds, history>>

-----------------------------------------------------------------------------
CallStep(c) ==
  \/ OpenLock(c) \/ WriteLock(c) \/ ReadLock(c) \/ LoadOwner(c) \/ JudgeOwner(c)
  \/ UnlinkStale(c) \/ Launch(c) \/ Popen(c) \/ LaunchFails(c) \/ Reload(c) \/ SavePid(c)
  \/ Judge(c) \/ Release(c) \/ ReleaseUnlink(c)

WorkerStep(w) ==
  \/ WorkerLoad(w) \/ Begin(w) \/ BeginStep(w) \/ (\E b \in BOOLEAN : EndStep(w, b))
  \/ Finish(w) \/ Release(w) \/ ReleaseUnlink(w)

Next ==
  \/ \E j \in Jobs : CreatePlan(j) \/ ThirtySeconds(j)
  \/ \E c \in Calls : CallStep(c) \/ \E j \in Jobs : Execute(c, j) \/ Get(c, j)
  \/ \E w \in Pids : WorkerStep(w) \/ WorkerDies(w) \/ Reap(w)
  \/ ApiDies

Spec == Init /\ [][Next]_vars

(***************************************************************************)
(* Fairness: threads and workers are scheduled, every step has a timeout,  *)
(* a dead child is reaped (by the API's next Popen, or by init), time      *)
(* passes, and a browser that watches a job asks for it once a second.     *)
(***************************************************************************)
Fairness ==
  /\ \A c \in Calls : WF_vars(CallStep(c))
  /\ \A w \in Pids : WF_vars(WorkerStep(w)) /\ WF_vars(Reap(w))
  /\ \A j \in Jobs : WF_vars(ThirtySeconds(j)) /\ SF_vars(\E c \in Calls : Get(c, j))

FairSpec == Spec /\ Fairness

-----------------------------------------------------------------------------
(***************************************************************************)
(* Properties.                                                             *)
(***************************************************************************)

Locals == [at : {"idle", "acquire", "write", "readLock", "loadOwner", "judgeOwner",
                 "unlink", "launch", "popen", "reload", "savePid", "judge", "release",
                 "releaseUnlink", "load", "begin", "next", "step", "failed", "exited"},
           job : Jobs \cup {Free}, owner : Jobs \cup {Free}, record : Records,
           child : 0 .. MaxWorkers, index : 0 .. NSteps]

\* The type invariant: the values each variable can hold.
TypeOK ==
  /\ rec \in [Jobs -> Records]
  /\ lock \in {Free} \cup Jobs \cup Calls
  /\ alive \subseteq Pids /\ late \subseteq Jobs
  /\ proc \in [Procs -> Locals]
  /\ nworkers \in 0 .. MaxWorkers /\ crashes \in 0 .. MaxCrashes
  /\ stolen \in BOOLEAN /\ relaunched \in BOOLEAN /\ wedged \in BOOLEAN

\* A worker that carries out steps.
AtWork(w) == proc[w].at \in {"next", "step", "failed"}

\* What RuntimeJobConflict stands for: a runtime has at most one active job, so
\* the steps of two workers never interleave on it.  The lock file alone keeps
\* planned, launching, crashed and recovered jobs apart, except where an unlink
\* took away the lock of a job that is not over, where a launch failed once its
\* worker had started, and where two calls confirmed the same plan and the
\* second one launched it again.  (Without a 30 s stall of a launch that has not
\* died.)
OneActive ==
  stolen \/ relaunched \/ \A v, w \in Pids : AtWork(v) /\ AtWork(w) => v = w

\* A job that reads "succeeded" has a passing result for every step of its plan,
\* whichever stale copies of the record were stored meanwhile.
SucceededMeansPassed ==
  \A j \in Jobs : rec[j].status = "succeeded" => rec[j].passed >= NSteps

\* When nothing is under way the lock does not block the runtime for good: the
\* job it names is over, or get() will find it lost.  The exception is an API
\* that died between taking the lock and storing "launching".
LockIsRecoverable ==
  (/\ \A p \in Procs : proc[p].at \in {"idle", "exited"}
   /\ lock # Free /\ ~wedged)
    => lock \in Jobs /\ rec[lock].status \in Active \cup Terminal

\* Every call returns: acquire_lock() recurses only after it removed the lock of
\* a finished job, so no interleaving makes it recurse for ever.
CallsReturn == \A c \in Calls : proc[c].at # "idle" ~> proc[c].at = "idle"

\* A confirmed job reaches a final state although its worker, or the API in the
\* middle of the launch, may die at any point.
JobsEnd == \A j \in Jobs : rec[j].status \in Active ~> rec[j].status \in Terminal
=============================================================================
