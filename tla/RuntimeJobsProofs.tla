-------------------------- MODULE RuntimeJobsProofs --------------------------
(***************************************************************************)
(* The safety of the lifecycle jobs for any number of jobs, threads,       *)
(* workers, steps and crashes.  The first layer of the inductive invariant *)
(* is about the records and the locals of each thread and worker; on it    *)
(* rest what a lock that nobody attends to names, and, where no lock was   *)
(* stolen and no job launched twice, that a launch and a worker that       *)
(* carries out steps hold the lock.                                        *)
(***************************************************************************)
EXTENDS RuntimeJobs, TLAPS

-----------------------------------------------------------------------------
(* The first layer: records and locals. *)

CallPlaces == {"idle", "acquire", "write", "readLock", "loadOwner", "judgeOwner", "unlink", "launch",
               "popen", "reload", "savePid", "judge", "release", "releaseUnlink"}
WorkerPlaces == {"idle", "load", "begin", "next", "step", "failed", "release", "releaseUnlink", "exited"}

\* The locals of a thread or a worker p.  A worker counts as passed no fewer
\* steps than it has carried out, and stores only records that are its own.
Sound(p, r) ==
  /\ r \in Locals
  /\ p \in Calls => r.at \in CallPlaces
  /\ p \in Pids => r.at \in WorkerPlaces
  /\ r.at \notin {"idle", "exited"} => r.job \in Jobs
  /\ r.at \in {"loadOwner", "judgeOwner"} => r.owner \in Jobs
  /\ r.at = "savePid" => r.record.status = "launching"
  /\ r.at \in {"begin", "next", "step", "failed"} => r.record.status = "running" /\ r.record.pid = p
  /\ r.at \in {"load", "begin"} => r.index = 0
  /\ r.at \in {"next", "step"} => r.index <= r.record.passed
  /\ r.at = "step" => r.index < NSteps

\* A record that reads "succeeded" has a passing result for every step, and one
\* of a job that was not launched has no process.
Stored(r) ==
  /\ r \in Records
  /\ r.status = "succeeded" => r.passed >= NSteps
  /\ r.status \in {"absent", "planned"} => r.pid = 0

Basic ==
  /\ TypeOK
  /\ \A j \in Jobs : Stored(rec[j])
  /\ \A p \in Procs : Sound(p, proc[p])
  /\ \A w \in Pids : w > nworkers => proc[w] = Idle

\* p goes on with the locals r; nobody else's change.
Becomes(p, r) == proc' = [proc EXCEPT ![p] = r]

\* The record of j is replaced by r.
Replaced(j, r) == rec' = [rec EXCEPT ![j] = r]

\* Threads and workers have different names.
LEMMA Apart == (\A c \in Calls, w \in Pids : c # w) /\ Procs = Calls \cup Pids /\ Pids \subseteq Nat
BY BoundsAssumption, NamesAssumption DEF Procs, Pids

\* A step of p that stores at most one record keeps the layer if its locals are
\* sound and what it stores is.
LEMMA BasicStep ==
  ASSUME Basic, NEW p \in Procs, NEW r, Sound(p, r), Becomes(p, r), proc[p].at # "idle" \/ p \in Calls,
         UNCHANGED rec \/ \E j \in Jobs : \E s : Stored(s) /\ Replaced(j, s),
         UNCHANGED <<nworkers, crashes, wedged>>, alive' \subseteq Pids, late' \subseteq Jobs,
         lock' \in {Free} \cup Jobs \cup Calls, stolen' \in BOOLEAN, relaunched' \in BOOLEAN
  PROVE  Basic'
<1> USE DEF Basic
<1>1. proc \in [Procs -> Locals] /\ rec \in [Jobs -> Records] /\ r \in Locals
  BY DEF TypeOK, Sound
<1>2. \A q \in Procs : proc'[q] = IF q = p THEN r ELSE proc[q]
  BY <1>1 DEF Becomes
<1>3. proc' \in [Procs -> Locals]
  BY <1>1 DEF Becomes
<1>4. rec' \in [Jobs -> Records] /\ \A j \in Jobs : Stored(rec'[j])
  <2>1. ASSUME NEW j \in Jobs, NEW s, Stored(s), Replaced(j, s)
        PROVE  rec' \in [Jobs -> Records] /\ \A k \in Jobs : Stored(rec'[k])
    <3>1. \A k \in Jobs : rec'[k] = IF k = j THEN s ELSE rec[k]
      BY <1>1, <2>1 DEF Replaced
    <3>2. s \in Records
      BY <2>1 DEF Stored
    <3>3. rec' \in [Jobs -> Records]
      BY <1>1, <2>1, <3>2 DEF Replaced
    <3>4. QED BY <2>1, <3>1, <3>3
  <2>2. QED BY <1>1, <2>1
<1>5. TypeOK'
  BY <1>3, <1>4 DEF TypeOK
<1>6. (\A j \in Jobs : Stored(rec[j]))'
  BY <1>4 DEF Stored
<1>7. (\A q \in Procs : Sound(q, proc[q]))'
  BY <1>2 DEF Sound
<1>8. (\A w \in Pids : w > nworkers => proc[w] = Idle)'
  BY <1>2, Apart DEF Idle
<1>9. QED BY <1>5, <1>6, <1>7, <1>8

-----------------------------------------------------------------------------
(* The kinds of step.  Most actions take p somewhere where it neither holds *)
(* the lock nor a record that it may still store.                           *)

Quiet == {"idle", "acquire", "readLock", "loadOwner", "unlink", "release", "releaseUnlink", "exited"}
Working == {"load", "begin", "next", "step", "failed"}
Launching == {"popen", "reload", "savePid"}

\* p goes on, with the job it has, none, or one whose plan it has read.
Moves(p, r) ==
  /\ Becomes(p, r) /\ Sound(p, r)
  /\ proc[p].at # "idle" \/ p \in Calls
  /\ \/ r.job \in {Free, proc[p].job}
     \/ r.job \in Jobs /\ rec[r.job].status # "absent"
  /\ UNCHANGED <<alive, nworkers, crashes, relaunched, wedged>>

\* It stores nothing and leaves the lock alone.
Walks(p, r) ==
  /\ Moves(p, r) /\ r.at \in Quiet
  /\ proc[p].at \notin {"write", "launch"}
  /\ UNCHANGED <<rec, lock, late, stolen>>

\* It takes a copy of the record of k.
Copies(p, r, k) ==
  /\ Moves(p, r) /\ r.record = rec[k]
  /\ proc[p].at \notin {"write", "launch"}
  /\ \/ r.at = "judgeOwner" /\ r.owner = k /\ k \in Jobs
     \/ r.at = "judge" /\ r.job = k /\ k \in Jobs /\ rec[k].status \in Active
     \/ /\ r.at = "savePid" /\ r.job = k /\ r.child = proc[p].child
        /\ proc[p].at = "reload" /\ proc[p].job = k /\ rec[k].status = "launching"
  /\ UNCHANGED <<rec, lock, late, stolen>>

\* What p knows of a job that it declares over: it has not started the worker,
\* is the worker, judges a copy of the record, or gives up a worker that goes on.
Knows(p, k) ==
  \/ proc[p].at \in {"popen"} \cup Working /\ proc[p].job = k
  \/ proc[p].at = "judgeOwner" /\ proc[p].owner = k /\ Dead(proc[p].record)
  \/ /\ proc[p].at = "judge" /\ proc[p].job = k
     /\ Dead(proc[p].record) \/ NeverLaunched(k, proc[p].record)
  \/ proc[p].at \in Launching /\ proc[p].job = k /\ stolen'

\* It stores that the job k is over.
Closes(p, r, k, s) ==
  /\ Moves(p, r) /\ r.at \in Quiet
  /\ k \in Jobs /\ Knows(p, k)
  /\ Replaced(k, s) /\ Stored(s) /\ s.status \in Terminal
  /\ stolen' \in {stolen, TRUE}
  /\ UNCHANGED <<lock, late>>

\* It unlinks the lock.
Unlinks(p, r) ==
  /\ Moves(p, r) /\ r.at \in Quiet /\ Unlink
  /\ proc[p].at \notin {"write", "launch"}
  /\ UNCHANGED <<rec, late>>

\* A worker stores its copy of its job's record, and goes on.
Works(p, r, s) ==
  /\ Moves(p, r) /\ p \in Pids
  /\ proc[p].at \in {"begin", "next", "step"} /\ r.at \in {"next", "step", "failed"}
  /\ r.job = proc[p].job
  /\ Replaced(r.job, s) /\ Stored(s) /\ s.status = "running" /\ s.pid = p
  /\ UNCHANGED <<lock, late, stolen>>

\* It creates the lock file, ...
Opens(p, r) ==
  /\ Moves(p, r) /\ p \in Calls
  /\ proc[p].at = "acquire" /\ r.at = "write" /\ r.job = proc[p].job
  /\ lock = Free /\ lock' = p
  /\ UNCHANGED <<rec, late, stolen>>

\* ... writes the job into it, ...
Writes(p, r) ==
  /\ Moves(p, r) /\ p \in Calls
  /\ proc[p].at = "write" /\ r.at = "launch" /\ r.job = proc[p].job
  /\ lock' = IF lock = p THEN r.job ELSE lock
  /\ UNCHANGED <<rec, late, stolen>>

\* ... stores that the job is being launched, ...
Launches(p, r, s) ==
  /\ Becomes(p, r) /\ Sound(p, r) /\ p \in Calls
  /\ proc[p].at = "launch" /\ r.at = "popen" /\ r.job = proc[p].job
  /\ Replaced(r.job, s) /\ Stored(s) /\ s.status = "launching" /\ s.pid = 0
  /\ late' = late \ {r.job}
  /\ relaunched' = (relaunched \/ rec[r.job].status # "planned")
  /\ UNCHANGED <<lock, alive, nworkers, crashes, stolen, wedged>>

\* ... starts the worker w, whose locals become v, ...
Starts(p, r, w, v) ==
  /\ p \in Calls /\ w \in Pids /\ w = nworkers + 1
  /\ proc' = [proc EXCEPT ![p] = r, ![w] = v]
  /\ Sound(p, r) /\ Sound(w, v)
  /\ proc[p].at = "popen" /\ r.at = "reload" /\ r.job = proc[p].job /\ r.child = w
  /\ v.at = "load" /\ v.job = proc[p].job
  /\ alive' = alive \cup {w} /\ nworkers' = w
  /\ UNCHANGED <<rec, lock, late, crashes, stolen, relaunched, wedged>>

\* ... and stores its pid.
Tells(p, r, k, s) ==
  /\ Moves(p, r) /\ r.at \in Quiet
  /\ proc[p].at = "savePid" /\ proc[p].job = k /\ k \in Jobs
  /\ Replaced(k, s) /\ Stored(s) /\ s.status = "launching" /\ s.pid = proc[p].child
  /\ UNCHANGED <<lock, late, stolen>>

\* The worker reads its job.
Loads(p, r) ==
  /\ Moves(p, r) /\ p \in Pids
  /\ proc[p].at = "load" /\ r.at = "begin" /\ r.job = proc[p].job
  /\ UNCHANGED <<rec, lock, late, stolen>>

\* What the types say of the locals of p.
LEMMA LocalFacts ==
  ASSUME Basic, NEW p \in Procs
  PROVE  /\ proc \in [Procs -> Locals] /\ rec \in [Jobs -> Records]
         /\ proc[p] \in Locals /\ Sound(p, proc[p]) /\ p \in Procs
         /\ \A j \in Jobs : rec[j] \in Records /\ Stored(rec[j])
BY DEF Basic, TypeOK

\* A process goes on with its locals.
LEMMA GotoLocals ==
  ASSUME NEW q \in Locals, NEW l, NEW r, r = [q EXCEPT !.at = l]
  PROVE  /\ r.at = l /\ r.job = q.job /\ r.owner = q.owner /\ r.record = q.record
         /\ r.child = q.child /\ r.index = q.index
         /\ l \in CallPlaces \cup WorkerPlaces => r \in Locals
BY DEF Locals, CallPlaces, WorkerPlaces

\* The locals of who does nothing.
LEMMA IdleType == Idle \in Locals /\ Idle.at = "idle" /\ Idle.job = Free
<1>1. NoRecord \in Records
  BY BoundsAssumption DEF NoRecord, Records
<1>2. QED BY <1>1, BoundsAssumption DEF Locals, Idle

\* A process goes on with nothing but its job.
LEMMA EnterLocals ==
  ASSUME NEW q \in Locals, NEW l \in CallPlaces \cup WorkerPlaces,
         NEW r, r = [Idle EXCEPT !.at = l, !.job = q.job]
  PROVE  r.at = l /\ r.job = q.job /\ r \in Locals
<1>1. PICK i \in Locals : i = Idle
  BY IdleType
<1>2. r = [i EXCEPT !.at = l, !.job = q.job]
  BY <1>1
<1>3. QED BY <1>2 DEF Locals, CallPlaces, WorkerPlaces

\* A call returns, or a worker exits.
LEMMA IdleLocals ==
  ASSUME NEW l \in {"idle", "exited"}, NEW r, r = [Idle EXCEPT !.at = l]
  PROVE  r.at = l /\ r.job = Free /\ r \in Locals
<1>1. PICK i \in Locals : i = Idle /\ i.job = Free
  BY IdleType
<1>2. r = [i EXCEPT !.at = l]
  BY <1>1
<1>3. QED BY <1>1, <1>2 DEF Locals

\* Where nothing else is asked of the locals of p they are sound.
LEMMA QuietSound ==
  ASSUME NEW p \in Procs, NEW r \in Locals, r.at \in Quiet, r.at # "loadOwner",
         p \in Calls => r.at # "exited",
         p \in Pids => r.at \notin {"acquire", "readLock", "unlink"},
         r.at \in {"idle", "exited"} \/ r.job \in Jobs
  PROVE  Sound(p, r)
BY DEF Sound, Quiet, CallPlaces, WorkerPlaces

\* What the control operators do to the locals of p.
LEMMA Goes ==
  ASSUME Basic, NEW p \in Procs, NEW l \in CallPlaces \cup WorkerPlaces, Goto(p, l)
  PROVE  \E r \in Locals :
           /\ Becomes(p, r) /\ r.at = l /\ r.job = proc[p].job /\ r.owner = proc[p].owner
           /\ r.record = proc[p].record /\ r.child = proc[p].child /\ r.index = proc[p].index
<1>1. PICK r : r = [proc[p] EXCEPT !.at = l]
  OBVIOUS
<1>2. Becomes(p, r)
  BY <1>1 DEF Goto, Becomes
<1>3. proc[p] \in Locals
  BY LocalFacts
<1>4. QED BY <1>1, <1>2, <1>3, GotoLocals

\* Hold.
LEMMA Holds ==
  ASSUME Basic, NEW p \in Procs, NEW l \in CallPlaces \cup WorkerPlaces, NEW s \in Records, Hold(p, l, s)
  PROVE  \E r \in Locals :
           /\ Becomes(p, r) /\ r.at = l /\ r.job = proc[p].job /\ r.owner = proc[p].owner
           /\ r.record = s /\ r.child = proc[p].child /\ r.index = proc[p].index
<1>1. PICK r : r = [proc[p] EXCEPT !.at = l, !.record = s]
  OBVIOUS
<1>2. Becomes(p, r)
  BY <1>1, LocalFacts DEF Hold, Becomes
<1>3. PICK q \in Locals : q = proc[p]
  BY LocalFacts
<1>4. r = [q EXCEPT !.at = l, !.record = s]
  BY <1>1, <1>3
<1>5. /\ r.at = l /\ r.job = q.job /\ r.owner = q.owner /\ r.record = s
      /\ r.child = q.child /\ r.index = q.index /\ r \in Locals
  BY <1>4 DEF Locals, CallPlaces, WorkerPlaces
<1>6. QED BY <1>2, <1>3, <1>5

\* Enter.
LEMMA Enters ==
  ASSUME Basic, NEW p \in Procs, NEW l \in CallPlaces \cup WorkerPlaces, Enter(p, l)
  PROVE  \E r \in Locals : Becomes(p, r) /\ r.at = l /\ r.job = proc[p].job
<1>1. PICK r : r = [Idle EXCEPT !.at = l, !.job = proc[p].job]
  OBVIOUS
<1>2. Becomes(p, r)
  BY <1>1 DEF Enter, Becomes
<1>3. PICK q \in Locals : q = proc[p]
  BY LocalFacts
<1>4. r = [Idle EXCEPT !.at = l, !.job = q.job]
  BY <1>1, <1>3
<1>5. r.at = l /\ r.job = q.job /\ r \in Locals
  <2>1. \A x : x = [Idle EXCEPT !.at = l, !.job = q.job] => x.at = l /\ x.job = q.job /\ x \in Locals
    BY <1>3, EnterLocals
  <2>2. QED BY <1>4, <2>1
<1>6. QED BY <1>2, <1>3, <1>5

\* Return and Exit: the steps that give up everything are of the quiet kind.
LEMMA Leaves ==
  ASSUME Basic, NEW p \in Procs, proc[p].at # "idle" \/ p \in Calls, (p \in Calls /\ Return(p)) \/ Exit(p)
  PROVE  \E r \in Locals : Becomes(p, r) /\ r.at \in Quiet /\ r.job = Free /\ Sound(p, r)
<1>1. p \in Calls \/ p \in Pids
  BY DEF Procs
<1>2. CASE p \in Calls
  <2>1. PICK r : r = Idle
    OBVIOUS
  <2>2. Becomes(p, r)
    BY <1>2, <2>1 DEF Return, Exit, Becomes, Idle
  <2>3. r \in Locals /\ r.at = "idle" /\ r.job = Free
    BY <2>1, IdleType
  <2>4. Sound(p, r)
    BY <1>2, <2>3, Apart, QuietSound DEF Quiet
  <2>5. QED BY <2>2, <2>3, <2>4 DEF Quiet
<1>3. CASE p \in Pids
  <2>1. PICK r : r = [Idle EXCEPT !.at = "exited"]
    OBVIOUS
  <2>2. Becomes(p, r)
    BY <1>3, <2>1, Apart DEF Exit, Becomes
  <2>3. r \in Locals /\ r.at = "exited" /\ r.job = Free
    BY <2>1, IdleLocals
  <2>4. Sound(p, r)
    BY <1>3, <2>3, Apart, QuietSound DEF Quiet
  <2>5. QED BY <2>2, <2>3, <2>4 DEF Quiet
<1>4. QED BY <1>1, <1>2, <1>3

\* Entering a place that asks nothing.
LEMMA EntersQuietly ==
  ASSUME Basic, NEW p \in Procs, NEW l \in {"acquire", "unlink", "release"}, Enter(p, l),
         proc[p].at \notin {"idle", "exited"}, p \in Calls \/ l = "release"
  PROVE  \E r \in Locals : Becomes(p, r) /\ r.at \in Quiet /\ r.job = proc[p].job /\ Sound(p, r)
<1>1. PICK r \in Locals : Becomes(p, r) /\ r.at = l /\ r.job = proc[p].job
  BY Enters DEF CallPlaces
<1>2. r.job \in Jobs
  BY <1>1, LocalFacts DEF Sound
<1>3. Sound(p, r)
  BY <1>1, <1>2, Apart, QuietSound DEF Quiet
<1>4. QED BY <1>1, <1>3 DEF Quiet

\* The actions that store nothing and take no copy.
LEMMA WalkActions ==
  ASSUME Basic, NEW p \in Procs,
         \/ /\ p \in Calls
            /\ \/ \E j \in Jobs : Execute(p, j)
               \/ OpenLock(p) /\ lock # Free
               \/ ReadLock(p)
               \/ Reload(p) /\ rec[proc[p].job].status # "launching"
               \/ /\ UNCHANGED <<rec, lock, alive, late, bounds, history>> /\ Return(p)
                  /\ proc[p].at \notin {"write", "launch"}
         \/ Release(p)
         \/ p \in Pids /\ WorkerDies(p)
         \/ p \in Pids /\ WorkerLoad(p) /\ rec[proc[p].job].status \notin Active
  PROVE  \E r \in Locals : Walks(p, r)
<1> USE DEF bounds, history
<1>1. p \in Pids => proc[p].at \in WorkerPlaces /\ p \notin Calls
  BY LocalFacts, Apart DEF Sound
<1>2. ASSUME (p \in Calls /\ Return(p)) \/ Exit(p),
             UNCHANGED <<rec, lock, alive, late, nworkers, crashes, stolen, relaunched, wedged>>,
             proc[p].at \notin {"write", "launch"}, proc[p].at # "idle" \/ p \in Calls
      PROVE  \E r \in Locals : Walks(p, r)
  BY <1>2, Leaves DEF Walks, Moves
<1>3. ASSUME NEW j \in Jobs, p \in Calls, Execute(p, j) PROVE \E r \in Locals : Walks(p, r)
  <2>1. PICK r : r = [proc[p] EXCEPT !.at = "acquire", !.job = j]
    OBVIOUS
  <2>2. Becomes(p, r) /\ r \in Locals /\ r.at = "acquire" /\ r.job = j
    BY <1>3, <2>1, LocalFacts DEF Execute, Becomes, Locals
  <2>3. Sound(p, r)
    BY <1>3, <2>2, Apart, QuietSound DEF Quiet
  <2>4. QED BY <1>3, <2>2, <2>3 DEF Execute, Walks, Moves, At, Quiet
<1>4. ASSUME p \in Calls, OpenLock(p), lock # Free PROVE \E r \in Locals : Walks(p, r)
  <2>1. Goto(p, "readLock") /\ At(p, "acquire")
        /\ UNCHANGED <<rec, lock, alive, late, nworkers, crashes, stolen, relaunched, wedged>>
    BY <1>4 DEF OpenLock
  <2>2. PICK r \in Locals : Becomes(p, r) /\ r.at = "readLock" /\ r.job = proc[p].job
    BY <2>1, Goes DEF CallPlaces
  <2>3. Sound(p, r)
    BY <1>4, <2>1, <2>2, Apart, LocalFacts, QuietSound DEF Quiet, Sound, At
  <2>4. QED BY <2>1, <2>2, <2>3 DEF Walks, Moves, At, Quiet
<1>5. ASSUME p \in Calls, ReadLock(p) PROVE \E r \in Locals : Walks(p, r)
  <2>1. At(p, "readLock") /\ UNCHANGED <<rec, lock, alive, late, nworkers, crashes, stolen, relaunched, wedged>>
    BY <1>5 DEF ReadLock
  <2>2. CASE Return(p)
    BY <1>2, <1>5, <2>1, <2>2 DEF At
  <2>3. CASE lock \in Jobs /\ proc' = [proc EXCEPT ![p].at = "loadOwner", ![p].owner = lock]
    <3>1. PICK r : r = [proc[p] EXCEPT !.at = "loadOwner", !.owner = lock]
      OBVIOUS
    <3>2. Becomes(p, r) /\ r \in Locals /\ r.at = "loadOwner" /\ r.owner = lock /\ r.job = proc[p].job
      BY <2>3, <3>1, LocalFacts DEF Becomes, Locals
    <3>3. Sound(p, r)
      BY <1>5, <2>1, <2>3, <3>2, Apart, LocalFacts DEF Sound, At, CallPlaces
    <3>4. QED BY <2>1, <3>2, <3>3 DEF Walks, Moves, At, Quiet
  <2>4. QED BY <1>5, <2>2, <2>3 DEF ReadLock
<1>6. ASSUME p \in Calls, Reload(p), rec[proc[p].job].status # "launching" PROVE \E r \in Locals : Walks(p, r)
  BY <1>2, <1>6 DEF Reload, At
<1>7. ASSUME Release(p) PROVE \E r \in Locals : Walks(p, r)
  <2>1. At(p, "release") /\ UNCHANGED <<rec, lock, alive, late, nworkers, crashes, stolen, relaunched, wedged>>
    BY <1>7 DEF Release
  <2>2. CASE Exit(p)
    BY <1>2, <2>1, <2>2 DEF At
  <2>3. CASE Goto(p, "releaseUnlink")
    <3>1. PICK r \in Locals : Becomes(p, r) /\ r.at = "releaseUnlink" /\ r.job = proc[p].job
      BY <2>3, Goes DEF CallPlaces
    <3>2. Sound(p, r)
      BY <2>1, <3>1, LocalFacts, QuietSound DEF Quiet, Sound, At
    <3>3. QED BY <2>1, <3>1, <3>2 DEF Walks, Moves, At, Quiet
  <2>4. QED BY <1>7, <2>2, <2>3 DEF Release
<1>8. ASSUME p \in Pids, WorkerDies(p) PROVE \E r \in Locals : Walks(p, r)
  BY <1>1, <1>2, <1>8 DEF WorkerDies, Running, WorkerPlaces
<1>9. ASSUME p \in Pids, WorkerLoad(p), rec[proc[p].job].status \notin Active PROVE \E r \in Locals : Walks(p, r)
  BY <1>1, <1>2, <1>9 DEF WorkerLoad, At
<1>10. QED BY <1>2, <1>3, <1>4, <1>5, <1>6, <1>7, <1>8, <1>9

\* The actions that take a copy of a record.
LEMMA CopyActions ==
  ASSUME Basic, NEW p \in Calls,
         \/ LoadOwner(p)
         \/ Reload(p) /\ rec[proc[p].job].status = "launching"
         \/ \E j \in Jobs : Get(p, j)
  PROVE  \E r \in Locals, k \in Jobs : Copies(p, r, k)
<1> USE DEF bounds, history
<1>1. p \in Procs /\ p \notin Pids /\ proc[p] \in Locals
  BY LocalFacts, Apart
<1>2. ASSUME LoadOwner(p) PROVE \E r \in Locals, k \in Jobs : Copies(p, r, k)
  <2>1. At(p, "loadOwner") /\ UNCHANGED <<rec, lock, alive, late, nworkers, crashes, stolen, relaunched, wedged>>
    BY <1>2 DEF LoadOwner
  <2>2. PICK k \in Jobs : k = proc[p].owner
    BY <1>1, <2>1, LocalFacts DEF Sound, At
  <2>3. rec[k] \in Records /\ Hold(p, "judgeOwner", rec[k])
    BY <1>2, <2>2, <1>1, LocalFacts DEF LoadOwner
  <2>4. PICK r \in Locals : /\ Becomes(p, r) /\ r.at = "judgeOwner" /\ r.job = proc[p].job
                            /\ r.owner = proc[p].owner /\ r.record = rec[k]
    BY <1>1, <2>3, Holds DEF CallPlaces
  <2>5. Sound(p, r)
    BY <1>1, <2>1, <2>2, <2>4, LocalFacts DEF Sound, At, CallPlaces
  <2>6. Copies(p, r, k)
    BY <1>1, <2>1, <2>2, <2>4, <2>5 DEF Copies, Moves, At
  <2>7. QED BY <2>6
<1>3. ASSUME Reload(p), rec[proc[p].job].status = "launching" PROVE \E r \in Locals, k \in Jobs : Copies(p, r, k)
  <2>1. At(p, "reload") /\ UNCHANGED <<rec, lock, alive, late, nworkers, crashes, stolen, relaunched, wedged>>
    BY <1>3 DEF Reload
  <2>2. PICK k \in Jobs : k = proc[p].job
    BY <1>1, <2>1, LocalFacts DEF Sound, At
  <2>3. rec[k] \in Records /\ Hold(p, "savePid", rec[k])
    BY <1>1, <1>3, <2>2, LocalFacts DEF Reload
  <2>4. PICK r \in Locals : /\ Becomes(p, r) /\ r.at = "savePid" /\ r.job = proc[p].job
                            /\ r.record = rec[k] /\ r.child = proc[p].child
    BY <1>1, <2>3, Holds DEF CallPlaces
  <2>5. Sound(p, r)
    BY <1>1, <1>3, <2>1, <2>2, <2>4, LocalFacts DEF Sound, At, CallPlaces
  <2>6. Copies(p, r, k)
    BY <1>1, <1>3, <2>1, <2>2, <2>4, <2>5 DEF Copies, Moves, At
  <2>7. QED BY <2>6
<1>4. ASSUME NEW j \in Jobs, Get(p, j) PROVE \E r \in Locals, k \in Jobs : Copies(p, r, k)
  <2>1. At(p, "idle") /\ UNCHANGED <<rec, lock, alive, late, nworkers, crashes, stolen, relaunched, wedged>>
        /\ rec[j].status \in Active
    BY <1>4 DEF Get
  <2>2. PICK r : r = [proc[p] EXCEPT !.at = "judge", !.job = j, !.record = rec[j]]
    OBVIOUS
  <2>3. Becomes(p, r)
    BY <1>4, <2>2, LocalFacts, <1>1 DEF Get, Becomes
  <2>4. r \in Locals /\ r.at = "judge" /\ r.job = j /\ r.record = rec[j]
    BY <1>1, <2>2, LocalFacts DEF Locals
  <2>5. Sound(p, r)
    BY <1>1, <2>4 DEF Sound, CallPlaces
  <2>6. Copies(p, r, j)
    BY <1>1, <2>1, <2>3, <2>4, <2>5 DEF Copies, Moves, At, Active
  <2>7. QED BY <2>4, <2>6
<1>5. QED BY <1>2, <1>3, <1>4

\* A record that is declared over.
LEMMA ClosedRecords ==
  ASSUME NEW r \in Records, r.status # "succeeded", NEW s,
         \/ \E e \in {"", "exited"} : s = Failed(r, e)
         \/ s = [r EXCEPT !.status = "failed"]
         \/ s = [r EXCEPT !.status = "succeeded"] /\ r.passed >= NSteps
  PROVE  Stored(s) /\ s.status \in Terminal
BY DEF Stored, Failed, Records, Terminal, Active

\* A plan, and the record of its launch.
LEMMA PlanRecord == Plan \in Records /\ Plan.status = "planned" /\ Plan.pid = 0
<1>0. NoRecord \in Records /\ NoRecord.pid = 0
  BY BoundsAssumption DEF NoRecord, Records
<1>1. PICK n \in Records : n = NoRecord /\ n.pid = 0
  BY <1>0
<1>2. PICK q : q = [n EXCEPT !.status = "planned"]
  OBVIOUS
<1>3. q \in Records /\ q.status = "planned" /\ q.pid = 0
  BY <1>1, <1>2 DEF Records
<1>4. QED BY <1>1, <1>2, <1>3 DEF Plan

LEMMA LaunchRecord ==
  ASSUME NEW q, q = [Plan EXCEPT !.status = "launching"]
  PROVE  q \in Records /\ q.status = "launching" /\ q.pid = 0
<1>1. PICK n \in Records : n = Plan /\ n.pid = 0
  BY PlanRecord
<1>2. q = [n EXCEPT !.status = "launching"]
  BY <1>1
<1>3. QED BY <1>1, <1>2 DEF Records, Active

\* The actions that declare a job over.
LEMMA CloseActions ==
  ASSUME Basic, NEW p \in Procs,
         \/ p \in Calls /\ JudgeOwner(p) /\ Dead(proc[p].record)
         \/ p \in Calls /\ LaunchFails(p)
         \/ p \in Calls /\ Judge(p) /\ (Dead(proc[p].record) \/ NeverLaunched(proc[p].job, proc[p].record))
         \/ p \in Pids /\ Finish(p)
  PROVE  \E r \in Locals, k \in Jobs : \E s : Closes(p, r, k, s)
<1> USE DEF bounds, history
<1>1. proc[p] \in Locals /\ proc[p].record \in Records /\ Sound(p, proc[p])
  BY LocalFacts DEF Locals
<1>2. ASSUME p \in Calls, JudgeOwner(p), Dead(proc[p].record)
      PROVE  \E r \in Locals, k \in Jobs : \E s : Closes(p, r, k, s)
  <2>1. At(p, "judgeOwner") /\ proc[p].record.status \in Active
    BY <1>2 DEF JudgeOwner, Dead
  <2>2. PICK k \in Jobs : k = proc[p].owner
    BY <1>1, <2>1 DEF Sound, At
  <2>3. PICK s : s = Failed(proc[p].record, "")
    OBVIOUS
  <2>4. /\ Replaced(k, s) /\ Enter(p, "unlink")
        /\ UNCHANGED <<lock, alive, late, nworkers, crashes, stolen, relaunched, wedged>>
    BY <1>2, <2>1, <2>2, <2>3 DEF JudgeOwner, Save, Replaced, Active, Terminal
  <2>5. Stored(s) /\ s.status \in Terminal
    BY <1>1, <2>1, <2>3, ClosedRecords DEF Active
  <2>6. PICK r \in Locals : Becomes(p, r) /\ r.at \in Quiet /\ r.job = proc[p].job /\ Sound(p, r)
    BY <1>2, <2>1, <2>4, EntersQuietly DEF At
  <2>7. Closes(p, r, k, s)
    BY <1>2, <2>1, <2>2, <2>4, <2>5, <2>6 DEF Closes, Moves, Knows, At
  <2>8. QED BY <2>7
<1>3. ASSUME p \in Calls, LaunchFails(p) PROVE \E r \in Locals, k \in Jobs : \E s : Closes(p, r, k, s)
  <2>1. proc[p].at \in Launching
    BY <1>3 DEF LaunchFails, Launching
  <2>2. PICK k \in Jobs : k = proc[p].job
    BY <1>1, <2>1 DEF Sound, Launching
  <2>3. PICK q, s : q = [Plan EXCEPT !.status = "launching"] /\ s = Failed(q, "")
    OBVIOUS
  <2>4. /\ Replaced(k, s) /\ Enter(p, "release")
        /\ stolen' \in {stolen, TRUE} /\ (proc[p].at = "popen" \/ stolen')
        /\ UNCHANGED <<lock, alive, late, nworkers, crashes, relaunched, wedged>>
    <3>1. Replaced(k, s) /\ Enter(p, "release")
      BY <1>3, <2>2, <2>3 DEF LaunchFails, Save, Replaced
    <3>2. UNCHANGED <<lock, alive, late, nworkers, crashes, relaunched, wedged>>
      BY <1>3 DEF LaunchFails
    <3>3. stolen' = (stolen \/ proc[p].at # "popen")
      BY <1>3, Zenon DEF LaunchFails, At
    <3>4. stolen \in BOOLEAN
      BY DEF Basic, TypeOK
    <3>5. CASE proc[p].at = "popen"
      BY <3>1, <3>2, <3>3, <3>4, <3>5
    <3>6. CASE proc[p].at # "popen"
      BY <3>1, <3>2, <3>3, <3>6
    <3>7. QED BY <3>5, <3>6
  <2>5. q \in Records /\ q.status = "launching"
    BY <2>3, LaunchRecord
  <2>6. Stored(s) /\ s.status \in Terminal
    BY <2>3, <2>5, ClosedRecords
  <2>7. PICK r \in Locals : Becomes(p, r) /\ r.at \in Quiet /\ r.job = proc[p].job /\ Sound(p, r)
    BY <1>3, <2>1, <2>4, EntersQuietly DEF Launching
  <2>8. Closes(p, r, k, s)
    BY <1>3, <2>1, <2>2, <2>4, <2>6, <2>7 DEF Closes, Moves, Knows, Launching
  <2>9. QED BY <2>8
<1>4. ASSUME p \in Calls, Judge(p), Dead(proc[p].record) \/ NeverLaunched(proc[p].job, proc[p].record)
      PROVE  \E r \in Locals, k \in Jobs : \E s : Closes(p, r, k, s)
  <2>1. At(p, "judge") /\ proc[p].record.status # "succeeded"
    BY <1>4 DEF Judge, Dead, NeverLaunched, Active
  <2>2. PICK k \in Jobs : k = proc[p].job
    BY <1>1, <2>1 DEF Sound, At
  <2>3. PICK s : s = Failed(proc[p].record, "exited")
    OBVIOUS
  <2>4. /\ Replaced(k, s) /\ Enter(p, "release")
        /\ UNCHANGED <<lock, alive, late, nworkers, crashes, stolen, relaunched, wedged>>
    BY <1>4, <2>1, <2>2, <2>3 DEF Judge, Save, Replaced
  <2>5. Stored(s) /\ s.status \in Terminal
    BY <1>1, <2>1, <2>3, ClosedRecords
  <2>6. PICK r \in Locals : Becomes(p, r) /\ r.at \in Quiet /\ r.job = proc[p].job /\ Sound(p, r)
    BY <1>4, <2>1, <2>4, EntersQuietly DEF At
  <2>7. Closes(p, r, k, s)
    BY <1>4, <2>1, <2>2, <2>4, <2>5, <2>6 DEF Closes, Moves, Knows, At
  <2>8. QED BY <2>7
<1>5. ASSUME p \in Pids, Finish(p) PROVE \E r \in Locals, k \in Jobs : \E s : Closes(p, r, k, s)
  <2>1. /\ proc[p].at \in {"next", "step", "failed"} /\ proc[p].record.status # "succeeded"
        /\ proc[p].at = "next" => proc[p].index <= proc[p].record.passed
        /\ proc[p].record.passed \in Nat
    BY <1>1, <1>5 DEF Finish, At, Sound, Records
  <2>2. PICK k \in Jobs : k = proc[p].job
    BY <1>1, <2>1 DEF Sound
  <2>3. PICK s : /\ \/ s = Failed(proc[p].record, "")
                    \/ s = [proc[p].record EXCEPT !.status = "failed"]
                    \/ s = [proc[p].record EXCEPT !.status = "succeeded"] /\ proc[p].record.passed >= NSteps
                 /\ Replaced(k, s)
    BY <1>5, <2>1, <2>2, BoundsAssumption DEF Finish, At, Save, Replaced
  <2>4. Enter(p, "release") /\ UNCHANGED <<lock, alive, late, nworkers, crashes, stolen, relaunched, wedged>>
    BY <1>5 DEF Finish
  <2>5. Stored(s) /\ s.status \in Terminal
    BY <1>1, <2>1, <2>3, ClosedRecords
  <2>6. PICK r \in Locals : Becomes(p, r) /\ r.at \in Quiet /\ r.job = proc[p].job /\ Sound(p, r)
    BY <2>1, <2>4, EntersQuietly
  <2>7. Closes(p, r, k, s)
    BY <1>5, <2>1, <2>2, <2>3, <2>4, <2>5, <2>6 DEF Closes, Moves, Knows, Working
  <2>8. QED BY <2>7
<1>6. QED BY <1>2, <1>3, <1>4, <1>5

\* The actions that unlink the lock.
LEMMA UnlinkActions ==
  ASSUME Basic, NEW p \in Procs,
         \/ p \in Calls /\ JudgeOwner(p) /\ proc[p].record.status \in Terminal
         \/ p \in Calls /\ UnlinkStale(p)
         \/ ReleaseUnlink(p)
  PROVE  \E r \in Locals : Unlinks(p, r)
<1> USE DEF bounds, history
<1>1. proc[p] \in Locals
  BY LocalFacts
<1>2. ASSUME p \in Calls, JudgeOwner(p), proc[p].record.status \in Terminal
      PROVE  \E r \in Locals : Unlinks(p, r)
  <2>1. At(p, "judgeOwner") /\ Unlink /\ Enter(p, "acquire")
        /\ UNCHANGED <<rec, alive, late, nworkers, crashes, relaunched, wedged>>
    BY <1>2 DEF JudgeOwner, Dead, Active, Terminal
  <2>2. PICK r \in Locals : Becomes(p, r) /\ r.at \in Quiet /\ r.job = proc[p].job /\ Sound(p, r)
    BY <1>2, <2>1, EntersQuietly DEF At
  <2>3. Unlinks(p, r)
    BY <1>2, <2>1, <2>2 DEF Unlinks, Moves, At
  <2>4. QED BY <2>3
<1>3. ASSUME p \in Calls, UnlinkStale(p) PROVE \E r \in Locals : Unlinks(p, r)
  <2>1. At(p, "unlink") /\ Unlink /\ Enter(p, "acquire")
        /\ UNCHANGED <<rec, alive, late, nworkers, crashes, relaunched, wedged>>
    BY <1>3 DEF UnlinkStale
  <2>2. PICK r \in Locals : Becomes(p, r) /\ r.at \in Quiet /\ r.job = proc[p].job /\ Sound(p, r)
    BY <1>3, <2>1, EntersQuietly DEF At
  <2>3. Unlinks(p, r)
    BY <1>3, <2>1, <2>2 DEF Unlinks, Moves, At
  <2>4. QED BY <2>3
<1>4. ASSUME ReleaseUnlink(p) PROVE \E r \in Locals : Unlinks(p, r)
  <2>1. At(p, "releaseUnlink") /\ Unlink /\ Exit(p)
        /\ UNCHANGED <<rec, alive, late, nworkers, crashes, relaunched, wedged>>
    BY <1>4 DEF ReleaseUnlink
  <2>2. PICK r \in Locals : Becomes(p, r) /\ r.at \in Quiet /\ r.job = Free /\ Sound(p, r)
    BY <2>1, Leaves DEF At
  <2>3. Unlinks(p, r)
    BY <2>1, <2>2 DEF Unlinks, Moves, At
  <2>4. QED BY <2>3
<1>5. QED BY <1>2, <1>3, <1>4

\* The worker's own steps.
LEMMA WorkActions ==
  ASSUME Basic, NEW p \in Pids, Begin(p) \/ BeginStep(p) \/ (\E b \in BOOLEAN : EndStep(p, b))
  PROVE  \E r \in Locals : \E s : Works(p, r, s)
<1> USE DEF bounds, history
<1>1. p \in Procs /\ proc[p] \in Locals /\ proc[p].record \in Records /\ Sound(p, proc[p]) /\ p \notin Calls
      /\ p \in Nat \ {0}
  BY LocalFacts, Apart DEF Locals, Pids
<1>2. proc[p].at \in {"begin", "next", "step"} /\ UNCHANGED <<lock, alive, late, nworkers, crashes, history>>
  BY DEF Begin, BeginStep, EndStep, WorkerSave, At
<1>3. PICK k \in Jobs : k = proc[p].job
  BY <1>1, <1>2 DEF Sound
<1>4. proc[p].record.status = "running" /\ proc[p].record.pid = p
  BY <1>1, <1>2 DEF Sound
<1>5. ASSUME Begin(p) PROVE \E r \in Locals : \E s : Works(p, r, s)
  <2>1. Replaced(k, proc[p].record) /\ Goto(p, "next") /\ proc[p].at = "begin"
    BY <1>3, <1>5 DEF Begin, WorkerSave, Save, Replaced, At
  <2>2. PICK r \in Locals : /\ Becomes(p, r) /\ r.at = "next" /\ r.job = k /\ r.record = proc[p].record
                            /\ r.index = proc[p].index
    BY <1>1, <1>3, <2>1, Goes DEF WorkerPlaces
  <2>3. r.index = 0 /\ proc[p].record.passed \in Nat
    BY <1>1, <2>1, <2>2 DEF Sound, Records
  <2>4. Sound(p, r)
    BY <1>1, <1>4, <2>2, <2>3, BoundsAssumption DEF Sound, WorkerPlaces
  <2>5. Works(p, r, proc[p].record)
    BY <1>1, <1>2, <1>3, <1>4, <2>1, <2>2, <2>4 DEF Works, Moves, Stored
  <2>6. QED BY <2>5
<1>6. ASSUME BeginStep(p) PROVE \E r \in Locals : \E s : Works(p, r, s)
  <2>1. Replaced(k, proc[p].record) /\ Goto(p, "step") /\ proc[p].at = "next" /\ proc[p].index < NSteps
    BY <1>3, <1>6 DEF BeginStep, WorkerSave, Save, Replaced, At
  <2>2. PICK r \in Locals : /\ Becomes(p, r) /\ r.at = "step" /\ r.job = k /\ r.record = proc[p].record
                            /\ r.index = proc[p].index
    BY <1>1, <1>3, <2>1, Goes DEF WorkerPlaces
  <2>3. Sound(p, r)
    BY <1>1, <1>4, <2>1, <2>2 DEF Sound, WorkerPlaces, Records
  <2>4. Works(p, r, proc[p].record)
    BY <1>1, <1>2, <1>3, <1>4, <2>1, <2>2, <2>3 DEF Works, Moves, Stored
  <2>5. QED BY <2>4
<1>7. ASSUME NEW b \in BOOLEAN, EndStep(p, b) PROVE \E r \in Locals : \E s : Works(p, r, s)
  <2>1. PICK q \in Locals, c \in Records : q = proc[p] /\ c = proc[p].record
    BY <1>1
  <2>2. PICK s : s = IF b THEN [c EXCEPT !.passed = @ + 1] ELSE c
    OBVIOUS
  <2>3. PICK r : r = [q EXCEPT !.at = IF b THEN "next" ELSE "failed", !.record = s, !.index = @ + 1]
    OBVIOUS
  <2>4. Replaced(k, s) /\ Becomes(p, r) /\ proc[p].at = "step"
    <3>1. Replaced(k, s) /\ proc[p].at = "step"
      BY <1>3, <1>7, <2>1, <2>2 DEF EndStep, Save, Replaced, At
    <3>2. Becomes(p, r)
      BY <1>7, <2>1, <2>2, <2>3 DEF EndStep, Becomes
    <3>3. QED BY <3>1, <3>2
  <2>5. s \in Records /\ s.status = "running" /\ s.pid = p /\ c.passed \in Nat
        /\ s.passed = IF b THEN c.passed + 1 ELSE c.passed
    <3>1. c.status = "running" /\ c.pid = p /\ c.passed \in Nat
      BY <1>4, <2>1 DEF Records
    <3>2. CASE b
      <4>1. s = [c EXCEPT !.passed = @ + 1] /\ c.passed + 1 \in Nat
        BY <2>2, <3>1, <3>2
      <4>2. s \in Records /\ s.status = c.status /\ s.pid = c.pid /\ s.passed = c.passed + 1
        BY <4>1 DEF Records
      <4>3. QED BY <3>1, <3>2, <4>2
    <3>3. CASE ~b
      BY <2>2, <3>1, <3>3
    <3>4. QED BY <3>2, <3>3
  <2>6. /\ q.index \in 0 .. NSteps /\ q.index < NSteps /\ q.index <= c.passed /\ q.job = k
    BY <1>1, <1>3, <2>1, <2>4 DEF Sound, Locals
  <2>7. r \in Locals /\ r.at = (IF b THEN "next" ELSE "failed") /\ r.job = k /\ r.record = s
        /\ r.index = q.index + 1
    <3>1. q.index + 1 \in 0 .. NSteps
      BY <2>6, BoundsAssumption
    <3>2. PICK l, i : l = (IF b THEN "next" ELSE "failed") /\ i = q.index + 1
      OBVIOUS
    <3>3. r = [q EXCEPT !.at = l, !.record = s, !.index = i]
      BY <2>3, <3>2
    <3>4. l \in {"next", "failed"} /\ i \in 0 .. NSteps
      BY <3>1, <3>2
    <3>5. r \in Locals /\ r.at = l /\ r.job = q.job /\ r.record = s /\ r.index = i
      BY <2>5, <3>3, <3>4 DEF Locals
    <3>6. QED BY <2>6, <3>2, <3>5
  <2>8. Sound(p, r)
    BY <1>1, <2>5, <2>6, <2>7 DEF Sound, WorkerPlaces
  <2>9. Works(p, r, s)
    BY <1>1, <1>2, <1>3, <2>4, <2>5, <2>7, <2>8 DEF Works, Moves, Stored
  <2>10. QED BY <2>7, <2>9
<1>8. QED BY <1>5, <1>6, <1>7


\* The lock file is created, and written.
LEMMA LockActions ==
  ASSUME Basic, NEW p \in Calls, (OpenLock(p) /\ lock = Free) \/ WriteLock(p)
  PROVE  \E r \in Locals : Opens(p, r) \/ Writes(p, r)
<1> USE DEF bounds, history
<1>1. p \in Procs /\ proc[p] \in Locals /\ Sound(p, proc[p]) /\ p \notin Pids
  BY LocalFacts, Apart
<1>2. CASE OpenLock(p) /\ lock = Free
  <2>1. /\ At(p, "acquire") /\ Goto(p, "write") /\ lock' = p
        /\ UNCHANGED <<rec, alive, late, nworkers, crashes, stolen, relaunched, wedged>>
    BY <1>2 DEF OpenLock
  <2>2. PICK r \in Locals : Becomes(p, r) /\ r.at = "write" /\ r.job = proc[p].job
    BY <1>1, <2>1, Goes DEF CallPlaces
  <2>3. Sound(p, r)
    BY <1>1, <2>1, <2>2 DEF Sound, At, CallPlaces
  <2>4. Opens(p, r)
    BY <1>2, <2>1, <2>2, <2>3 DEF Opens, Moves, At
  <2>5. QED BY <2>4
<1>3. CASE WriteLock(p)
  <2>1. /\ At(p, "write") /\ Goto(p, "launch") /\ lock' = IF lock = p THEN proc[p].job ELSE lock
        /\ UNCHANGED <<rec, alive, late, nworkers, crashes, stolen, relaunched, wedged>>
    BY <1>3 DEF WriteLock
  <2>2. PICK r \in Locals : Becomes(p, r) /\ r.at = "launch" /\ r.job = proc[p].job
    BY <1>1, <2>1, Goes DEF CallPlaces
  <2>3. Sound(p, r)
    BY <1>1, <2>1, <2>2 DEF Sound, At, CallPlaces
  <2>4. Writes(p, r)
    BY <1>3, <2>1, <2>2, <2>3 DEF Writes, Moves, At
  <2>5. QED BY <2>4
<1>4. QED BY <1>2, <1>3

\* The launch.
LEMMA LaunchActions ==
  ASSUME Basic, NEW p \in Calls, Launch(p)
  PROVE  \E r \in Locals : \E s : Launches(p, r, s)
<1> USE DEF bounds, history
<1>1. p \in Procs /\ proc[p] \in Locals /\ Sound(p, proc[p]) /\ p \notin Pids
  BY LocalFacts, Apart
<1>2. PICK s : s = [Plan EXCEPT !.status = "launching"]
  OBVIOUS
<1>3. /\ At(p, "launch") /\ Goto(p, "popen") /\ Replaced(proc[p].job, s)
      /\ UNCHANGED <<lock, alive, nworkers, crashes, stolen, wedged>>
      /\ late' = late \ {proc[p].job}
      /\ relaunched' = (relaunched \/ rec[proc[p].job].status # "planned")
  BY <1>2 DEF Launch, Save, Replaced
<1>4. PICK r \in Locals : Becomes(p, r) /\ r.at = "popen" /\ r.job = proc[p].job
  BY <1>1, <1>3, Goes DEF CallPlaces
<1>5. Sound(p, r)
  BY <1>1, <1>3, <1>4 DEF Sound, At, CallPlaces
<1>6. Stored(s) /\ s.status = "launching" /\ s.pid = 0
  BY <1>2, LaunchRecord DEF Stored
<1>7. Launches(p, r, s)
  BY <1>3, <1>4, <1>5, <1>6 DEF Launches, At
<1>8. QED BY <1>7

\* The worker is started, and its pid stored.
LEMMA StartActions ==
  ASSUME Basic, NEW p \in Calls, Popen(p)
  PROVE  \E r \in Locals, v \in Locals, w \in Pids : Starts(p, r, w, v)
<1> USE DEF bounds, history
<1>1. p \in Procs /\ Sound(p, proc[p]) /\ p \notin Pids /\ proc \in [Procs -> Locals]
  BY LocalFacts, Apart
<1>2. PICK q \in Locals : q = proc[p]
  BY LocalFacts, <1>1
<1>3. PICK w \in Pids : w = nworkers + 1
  BY DEF Popen
<1>4. PICK i \in Locals : i = proc[w] /\ i = Idle
  BY <1>3, Apart, LocalFacts DEF Basic, TypeOK
<1>5. PICK r : r = [q EXCEPT !.at = "reload", !.child = w]
  OBVIOUS
<1>6. PICK v : v = [i EXCEPT !.at = "load", !.job = q.job]
  OBVIOUS
<1>7. proc' = [proc EXCEPT ![p] = r, ![w] = v]
  <2>1. p # w /\ w \in Procs
    BY Apart
  <2>2. proc' = [proc EXCEPT ![p].at = "reload", ![p].child = w, ![w].at = "load", ![w].job = q.job]
    BY <1>2, <1>3 DEF Popen
  <2>3. QED BY <1>1, <1>2, <1>4, <1>5, <1>6, <2>1, <2>2
<1>8. proc[p].at = "popen" /\ q.job \in Jobs
  BY <1>1, <1>2 DEF Popen, At, Sound
<1>9. r \in Locals /\ r.at = "reload" /\ r.job = q.job /\ r.child = w
  <2>1. w \in 0 .. MaxWorkers
    BY BoundsAssumption DEF Pids
  <2>2. QED BY <1>5, <2>1 DEF Locals
<1>10. v \in Locals /\ v.at = "load" /\ v.job = q.job /\ v.index = 0
  <2>1. i.index = 0
    BY <1>4 DEF Idle
  <2>2. QED BY <1>6, <1>8, <2>1 DEF Locals
<1>11. Sound(p, r)
  BY <1>1, <1>8, <1>9 DEF Sound, CallPlaces
<1>12. Sound(w, v)
  BY <1>8, <1>10, Apart DEF Sound, WorkerPlaces
<1>13. /\ alive' = alive \cup {w} /\ nworkers' = w
       /\ UNCHANGED <<rec, lock, late, crashes, stolen, relaunched, wedged>>
  BY <1>3 DEF Popen
<1>14. Starts(p, r, w, v)
  BY <1>2, <1>3, <1>7, <1>8, <1>9, <1>10, <1>11, <1>12, <1>13 DEF Starts
<1>15. QED BY <1>9, <1>10, <1>14

LEMMA TellActions ==
  ASSUME Basic, NEW p \in Calls, SavePid(p)
  PROVE  \E r \in Locals, k \in Jobs : \E s : Tells(p, r, k, s)
<1> USE DEF bounds, history
<1>1. p \in Procs /\ proc[p] \in Locals /\ Sound(p, proc[p]) /\ p \notin Pids
  BY LocalFacts, Apart
<1>2. At(p, "savePid") /\ Return(p) /\ UNCHANGED <<lock, alive, late, nworkers, crashes, stolen, relaunched, wedged>>
  BY DEF SavePid
<1>3. PICK k \in Jobs : k = proc[p].job
  BY <1>1, <1>2 DEF Sound, At
<1>4. PICK q \in Records, c \in 0 .. MaxWorkers : q = proc[p].record /\ c = proc[p].child
  BY <1>1 DEF Locals
<1>5. q.status = "launching"
  BY <1>1, <1>2, <1>4 DEF Sound, At
<1>6. PICK s : s = [q EXCEPT !.pid = c]
  OBVIOUS
<1>7. Replaced(k, s)
  BY <1>3, <1>4, <1>6 DEF SavePid, Save, Replaced
<1>8. s \in Records /\ s.status = "launching" /\ s.pid = c
  BY <1>5, <1>6 DEF Records
<1>9. PICK r \in Locals : Becomes(p, r) /\ r.at \in Quiet /\ r.job = Free /\ Sound(p, r)
  BY <1>1, <1>2, Leaves DEF At
<1>10. Tells(p, r, k, s)
  BY <1>2, <1>3, <1>4, <1>7, <1>8, <1>9 DEF Tells, Moves, Stored, At
<1>11. QED BY <1>10

LEMMA LoadActions ==
  ASSUME Basic, NEW p \in Pids, WorkerLoad(p), rec[proc[p].job].status \in Active
  PROVE  \E r \in Locals : Loads(p, r)
<1> USE DEF bounds, history
<1>1. p \in Procs /\ proc[p] \in Locals /\ Sound(p, proc[p]) /\ p \notin Calls
  BY LocalFacts, Apart
<1>2. At(p, "load") /\ UNCHANGED <<rec, lock, alive, late, nworkers, crashes, stolen, relaunched, wedged>>
  BY DEF WorkerLoad
<1>3. PICK k \in Jobs : k = proc[p].job
  BY <1>1, <1>2 DEF Sound, At
<1>4. PICK q \in Records : q = rec[k]
  BY LocalFacts, <1>1
<1>5. PICK s : s = [q EXCEPT !.status = "running", !.pid = p]
  OBVIOUS
<1>6. s \in Records /\ s.status = "running" /\ s.pid = p
  <2>1. p \in 0 .. MaxWorkers
    BY BoundsAssumption DEF Pids
  <2>2. QED BY <1>5, <2>1 DEF Records, Active
<1>7. Hold(p, "begin", s)
  BY <1>3, <1>4, <1>5 DEF WorkerLoad
<1>8. PICK r \in Locals : /\ Becomes(p, r) /\ r.at = "begin" /\ r.job = proc[p].job /\ r.record = s
                          /\ r.index = proc[p].index
  BY <1>1, <1>6, <1>7, Holds DEF WorkerPlaces
<1>9. Sound(p, r)
  BY <1>1, <1>2, <1>3, <1>6, <1>8 DEF Sound, At, WorkerPlaces
<1>10. Loads(p, r)
  BY <1>2, <1>8, <1>9 DEF Loads, Moves, At
<1>11. QED BY <1>10

\* Every step is of one of the kinds, or of those the environment takes.
LEMMA Kinds ==
  ASSUME Basic, [Next]_vars
  PROVE  \/ \E p \in Procs, r \in Locals :
              \/ Walks(p, r) \/ Unlinks(p, r) \/ Opens(p, r) \/ Writes(p, r) \/ Loads(p, r)
              \/ \E k \in Jobs : Copies(p, r, k)
              \/ \E k \in Jobs : \E s : Closes(p, r, k, s)
              \/ \E s : Works(p, r, s)
              \/ \E s : Launches(p, r, s)
              \/ \E v \in Locals, w \in Pids : Starts(p, r, w, v)
              \/ \E k \in Jobs : \E s : Tells(p, r, k, s)
         \/ \E j \in Jobs : CreatePlan(j) \/ ThirtySeconds(j)
         \/ \E w \in Pids : Reap(w)
         \/ ApiDies
         \/ UNCHANGED vars
<1> DEFINE Kind(p, r) ==
              \/ Walks(p, r) \/ Unlinks(p, r) \/ Opens(p, r) \/ Writes(p, r) \/ Loads(p, r)
              \/ \E k \in Jobs : Copies(p, r, k)
              \/ \E k \in Jobs : \E s : Closes(p, r, k, s)
              \/ \E s : Works(p, r, s)
              \/ \E s : Launches(p, r, s)
              \/ \E v \in Locals, w \in Pids : Starts(p, r, w, v)
              \/ \E k \in Jobs : \E s : Tells(p, r, k, s)
<1>1. ASSUME NEW c \in Calls, CallStep(c) \/ \E j \in Jobs : Execute(c, j) \/ Get(c, j)
      PROVE  \E p \in Procs, r \in Locals : Kind(p, r)
  <2>1. c \in Procs
    BY Apart
  <2>2. CASE OpenLock(c)
    BY <2>1, <2>2, WalkActions, LockActions
  <2>3. CASE WriteLock(c)
    BY <2>1, <2>3, LockActions
  <2>4. CASE ReadLock(c) \/ \E j \in Jobs : Execute(c, j)
    BY <2>1, <2>4, WalkActions
  <2>5. CASE LoadOwner(c) \/ \E j \in Jobs : Get(c, j)
    BY <2>1, <2>5, CopyActions
  <2>6. CASE JudgeOwner(c)
    <3>1. CASE Dead(proc[c].record)
      BY <2>1, <2>6, <3>1, CloseActions
    <3>2. CASE proc[c].record.status \in Terminal
      BY <2>1, <2>6, <3>2, UnlinkActions
    <3>3. CASE ~Dead(proc[c].record) /\ proc[c].record.status \notin Terminal
      <4>1. UNCHANGED <<rec, lock, alive, late, bounds, history>> /\ Return(c)
            /\ proc[c].at \notin {"write", "launch"}
        BY <2>6, <3>3 DEF JudgeOwner, At, history
      <4>2. QED BY <2>1, <4>1, WalkActions
    <3>4. QED BY <3>1, <3>2, <3>3
  <2>7. CASE UnlinkStale(c) \/ ReleaseUnlink(c)
    BY <2>1, <2>7, UnlinkActions
  <2>8. CASE Launch(c)
    BY <2>1, <2>8, LaunchActions
  <2>9. CASE Popen(c)
    BY <2>1, <2>9, StartActions
  <2>10. CASE LaunchFails(c)
    BY <2>1, <2>10, CloseActions
  <2>11. CASE Reload(c)
    BY <2>1, <2>11, CopyActions, WalkActions
  <2>12. CASE SavePid(c)
    BY <2>1, <2>12, TellActions
  <2>13. CASE Judge(c)
    <3>1. CASE Dead(proc[c].record) \/ NeverLaunched(proc[c].job, proc[c].record)
      BY <2>1, <2>13, <3>1, CloseActions
    <3>2. CASE ~(Dead(proc[c].record) \/ NeverLaunched(proc[c].job, proc[c].record))
      <4>1. UNCHANGED <<rec, lock, alive, late, bounds, history>> /\ Return(c)
            /\ proc[c].at \notin {"write", "launch"}
        BY <2>13, <3>2 DEF Judge, At
      <4>2. QED BY <2>1, <4>1, WalkActions
    <3>3. QED BY <3>1, <3>2
  <2>14. CASE Release(c)
    BY <2>1, <2>14, WalkActions
  <2>15. QED BY <1>1, <2>2, <2>3, <2>4, <2>5, <2>6, <2>7, <2>8, <2>9, <2>10, <2>11, <2>12, <2>13, <2>14
         DEF CallStep
<1>2. ASSUME NEW w \in Pids, WorkerStep(w) \/ WorkerDies(w)
      PROVE  \E p \in Procs, r \in Locals : Kind(p, r)
  <2>1. w \in Procs
    BY Apart
  <2>2. CASE WorkerLoad(w)
    BY <2>1, <2>2, WalkActions, LoadActions
  <2>3. CASE Begin(w) \/ BeginStep(w) \/ (\E b \in BOOLEAN : EndStep(w, b))
    BY <2>1, <2>3, WorkActions
  <2>4. CASE Finish(w)
    BY <2>1, <2>4, CloseActions
  <2>5. CASE Release(w) \/ WorkerDies(w)
    BY <2>1, <2>5, WalkActions
  <2>6. CASE ReleaseUnlink(w)
    BY <2>1, <2>6, UnlinkActions
  <2>7. QED BY <1>2, <2>2, <2>3, <2>4, <2>5, <2>6 DEF WorkerStep
<1>3. QED BY <1>1, <1>2 DEF Next

-----------------------------------------------------------------------------
(* The first layer is kept. *)

LEMMA BasicInit == Init => Basic
<1> SUFFICES ASSUME Init PROVE Basic
  OBVIOUS
<1>1. NoRecord \in Records /\ NoRecord.status = "absent" /\ NoRecord.pid = 0
  BY BoundsAssumption DEF NoRecord, Records
<1>2. TypeOK
  <2>1. rec \in [Jobs -> Records]
    BY <1>1 DEF Init
  <2>2. proc \in [Procs -> Locals]
    BY IdleType DEF Init
  <2>3. nworkers \in 0 .. MaxWorkers /\ crashes \in 0 .. MaxCrashes
    BY BoundsAssumption DEF Init
  <2>4. QED BY <2>1, <2>2, <2>3 DEF Init, TypeOK
<1>3. \A p \in Procs : proc[p] = Idle
  BY DEF Init
<1>4. ASSUME NEW p \in Procs PROVE Sound(p, Idle)
  BY IdleType DEF Sound, CallPlaces, WorkerPlaces
<1>5. \A j \in Jobs : Stored(rec[j])
  BY <1>1 DEF Init, Stored
<1>6. QED BY <1>2, <1>3, <1>4, <1>5, Apart DEF Basic

\* A step of p alone.
LEMMA BasicMoves ==
  ASSUME Basic, NEW p \in Procs, NEW r \in Locals, Moves(p, r),
         UNCHANGED rec \/ \E j \in Jobs : \E s : Stored(s) /\ Replaced(j, s),
         UNCHANGED crashes, UNCHANGED late, lock' \in {Free} \cup Jobs \cup Calls, stolen' \in BOOLEAN
  PROVE  Basic'
<1>1. /\ alive' \subseteq Pids /\ late' \subseteq Jobs /\ relaunched' \in BOOLEAN
      /\ UNCHANGED <<nworkers, crashes, wedged>>
  BY DEF Moves, Basic, TypeOK
<1>2. QED BY <1>1, BasicStep DEF Moves

LEMMA BasicInductive == Basic /\ [Next]_vars => Basic'
<1> SUFFICES ASSUME Basic, [Next]_vars PROVE Basic'
  OBVIOUS
<1>1. TypeOK
  BY DEF Basic
<1>2. ASSUME NEW p \in Procs, NEW r \in Locals, Walks(p, r) PROVE Basic'
  BY <1>1, <1>2, BasicMoves DEF Walks, Moves, TypeOK
<1>3. ASSUME NEW p \in Procs, NEW r \in Locals, NEW k \in Jobs, Copies(p, r, k) PROVE Basic'
  BY <1>1, <1>3, BasicMoves DEF Copies, Moves, TypeOK
<1>4. ASSUME NEW p \in Procs, NEW r \in Locals, Unlinks(p, r) PROVE Basic'
  <2>1. lock' = Free /\ stolen' \in BOOLEAN
    BY <1>1, <1>4 DEF Unlinks, Unlink, TypeOK, InUse
  <2>2. QED BY <1>4, <2>1, BasicMoves DEF Unlinks, Moves
<1>5. ASSUME NEW p \in Procs, NEW r \in Locals, Opens(p, r) PROVE Basic'
  BY <1>1, <1>5, BasicMoves DEF Opens, Moves, TypeOK
<1>6. ASSUME NEW p \in Procs, NEW r \in Locals, Writes(p, r) PROVE Basic'
  <2>1. r.job \in Jobs
    BY <1>6 DEF Writes, Moves, Sound
  <2>2. QED BY <1>1, <1>6, <2>1, BasicMoves DEF Writes, Moves, TypeOK
<1>7. ASSUME NEW p \in Procs, NEW r \in Locals, Loads(p, r) PROVE Basic'
  BY <1>1, <1>7, BasicMoves DEF Loads, Moves, TypeOK
<1>8. ASSUME NEW p \in Procs, NEW r \in Locals, NEW k \in Jobs, NEW s, Closes(p, r, k, s) PROVE Basic'
  <2>1. \E j \in Jobs : \E t : Stored(t) /\ Replaced(j, t)
    BY <1>8 DEF Closes
  <2>2. QED BY <1>1, <1>8, <2>1, BasicMoves DEF Closes, Moves, TypeOK
<1>9. ASSUME NEW p \in Procs, NEW r \in Locals, NEW s, Works(p, r, s) PROVE Basic'
  <2>1. r.job \in Jobs
    BY <1>9 DEF Works, Moves, Sound
  <2>2. \E j \in Jobs : \E t : Stored(t) /\ Replaced(j, t)
    BY <1>9, <2>1 DEF Works
  <2>3. QED BY <1>1, <1>9, <2>2, BasicMoves DEF Works, Moves, TypeOK
<1>10. ASSUME NEW p \in Procs, NEW r \in Locals, NEW k \in Jobs, NEW s, Tells(p, r, k, s) PROVE Basic'
  <2>1. \E j \in Jobs : \E t : Stored(t) /\ Replaced(j, t)
    BY <1>10 DEF Tells
  <2>2. QED BY <1>1, <1>10, <2>1, BasicMoves DEF Tells, Moves, TypeOK
<1>11. ASSUME NEW p \in Procs, NEW r \in Locals, NEW s, Launches(p, r, s) PROVE Basic'
  <2>1. r.job \in Jobs
    BY <1>11 DEF Launches, Sound
  <2>2. \E j \in Jobs : \E t : Stored(t) /\ Replaced(j, t)
    BY <1>11, <2>1 DEF Launches
  <2>3. /\ alive' \subseteq Pids /\ late' \subseteq Jobs /\ relaunched' \in BOOLEAN
        /\ lock' \in {Free} \cup Jobs \cup Calls /\ stolen' \in BOOLEAN
    BY <1>1, <1>11 DEF Launches, TypeOK
  <2>4. QED BY <1>11, <2>2, <2>3, BasicStep DEF Launches
<1>12. ASSUME NEW p \in Procs, NEW r \in Locals, NEW w \in Pids, NEW v \in Locals, Starts(p, r, w, v)
       PROVE  Basic'
  <2>1. /\ proc \in [Procs -> Locals] /\ p \in Procs /\ w \in Procs
        /\ \A q \in Procs : Sound(q, proc[q])
        /\ \A q \in Pids : q > nworkers => proc[q] = Idle
    BY <1>1, <1>12, Apart DEF TypeOK, Basic
  <2>2. proc' = [proc EXCEPT ![p] = r, ![w] = v] /\ Sound(p, r) /\ Sound(w, v) /\ p # w /\ p \notin Pids
    BY <1>12, Apart DEF Starts
  <2>3. proc' \in [Procs -> Locals]
    BY <2>1, <2>2
  <2>4. \A q \in Procs : proc'[q] = IF q = w THEN v ELSE IF q = p THEN r ELSE proc[q]
    BY <2>1, <2>2
  <2>5. TypeOK'
    BY <1>1, <1>12, <2>3, BoundsAssumption DEF TypeOK, Starts, Pids
  <2>6. (\A q \in Procs : Sound(q, proc[q]))'
    BY <2>1, <2>2, <2>4 DEF Sound
  <2>7. (\A q \in Pids : q > nworkers => proc[q] = Idle)'
    <3>1. w = nworkers + 1 /\ nworkers' = w /\ nworkers \in Nat
      BY <1>1, <1>12, BoundsAssumption DEF Starts, TypeOK
    <3>2. ASSUME NEW q \in Pids, q > nworkers' PROVE proc'[q] = Idle
      <4>1. q \in Nat /\ q > nworkers /\ q # w /\ q # p /\ q \in Procs
        BY <2>2, <3>1, <3>2, Apart
      <4>2. QED BY <2>1, <2>4, <4>1
    <3>3. QED BY <3>2 DEF Idle, NoRecord
  <2>8. (\A j \in Jobs : Stored(rec[j]))'
    BY <1>12 DEF Basic, Starts, Stored
  <2>9. QED BY <2>5, <2>6, <2>7, <2>8 DEF Basic
<1>13. ASSUME NEW j \in Jobs, CreatePlan(j) PROVE Basic'
  <2>1. PICK s \in Records : s = Plan /\ Stored(s)
    BY PlanRecord DEF Stored
  <2>2. rec' = [rec EXCEPT ![j] = s] /\ rec \in [Jobs -> Records]
    BY <1>1, <1>13, <2>1 DEF CreatePlan, TypeOK
  <2>3. rec' \in [Jobs -> Records] /\ \A k \in Jobs : rec'[k] = IF k = j THEN s ELSE rec[k]
    BY <2>2
  <2>4. UNCHANGED <<lock, alive, late, proc, nworkers, crashes, stolen, relaunched, wedged>>
    BY <1>13 DEF CreatePlan, bounds, history
  <2>5. TypeOK'
    BY <1>1, <2>3, <2>4 DEF TypeOK
  <2>6. (\A k \in Jobs : Stored(rec[k]))'
    BY <2>1, <2>3 DEF Basic, Stored
  <2>7. (\A p \in Procs : Sound(p, proc[p]))' /\ (\A w \in Pids : w > nworkers => proc[w] = Idle)'
    BY <2>4 DEF Basic, Sound, Idle
  <2>8. QED BY <2>5, <2>6, <2>7 DEF Basic
<1>14. ASSUME ApiDies PROVE Basic'
  <2>1. /\ crashes < MaxCrashes /\ crashes' = crashes + 1
        /\ proc' = [p \in Procs |-> IF p \in Calls THEN Idle ELSE proc[p]]
        /\ wedged' \in BOOLEAN
        /\ UNCHANGED <<rec, lock, alive, late, nworkers, stolen, relaunched>>
    BY <1>1, <1>14 DEF ApiDies, TypeOK
  <2>2. proc \in [Procs -> Locals] /\ crashes \in 0 .. MaxCrashes
    BY <1>1 DEF TypeOK
  <2>3. proc' \in [Procs -> Locals] /\ \A p \in Procs : proc'[p] = IF p \in Calls THEN Idle ELSE proc[p]
    BY <2>1, <2>2, IdleType
  <2>4. crashes' \in 0 .. MaxCrashes
    BY <2>1, <2>2, BoundsAssumption
  <2>5. TypeOK'
    BY <1>1, <2>1, <2>3, <2>4 DEF TypeOK
  <2>6. (\A k \in Jobs : Stored(rec[k]))'
    BY <2>1 DEF Basic, Stored
  <2>7. ASSUME NEW p \in Procs PROVE Sound(p, Idle)
    BY IdleType DEF Sound, CallPlaces, WorkerPlaces
  <2>8. (\A p \in Procs : Sound(p, proc[p]))'
    BY <2>3, <2>7 DEF Basic, Sound
  <2>9. (\A w \in Pids : w > nworkers => proc[w] = Idle)'
    BY <2>1, <2>3, Apart DEF Basic, Idle, NoRecord
  <2>10. QED BY <2>5, <2>6, <2>8, <2>9 DEF Basic
<1>15. ASSUME UNCHANGED <<rec, lock, proc, bounds, history>>, alive' \subseteq Pids, late' \subseteq Jobs PROVE Basic'
  <2>1. TypeOK'
    BY <1>1, <1>15 DEF TypeOK, bounds, history
  <2>2. QED BY <1>15, <2>1 DEF Basic, bounds, Sound, Stored, Idle, NoRecord
<1>16. ASSUME (\E j \in Jobs : ThirtySeconds(j)) \/ (\E w \in Pids : Reap(w)) \/ UNCHANGED vars PROVE Basic'
  <2>1. UNCHANGED <<rec, lock, proc, bounds, history>> /\ alive' \subseteq Pids /\ late' \subseteq Jobs
    BY <1>1, <1>16 DEF TypeOK, ThirtySeconds, Reap, vars, bounds, history
  <2>2. QED BY <1>15, <2>1
<1>17. QED
  BY <1>2, <1>3, <1>4, <1>5, <1>6, <1>7, <1>8, <1>9, <1>10, <1>11, <1>12, <1>13, <1>14, <1>16, Kinds

\* Whatever the threads and workers do, each variable keeps its type.
THEOREM TypeCorrect == Spec => []TypeOK
<1>1. Basic => TypeOK
  BY DEF Basic
<1>2. QED BY <1>1, BasicInit, BasicInductive, PTL DEF Spec

\* A job that reads "succeeded" has a passing result for every step of its plan
\* (run_persisted_job() stores its own record only, every other writer stores
\* one that is launching or failed).
THEOREM SucceededMeansPassedHolds == Spec => []SucceededMeansPassed
<1>1. Basic => SucceededMeansPassed
  BY DEF Basic, Stored, SucceededMeansPassed
<1>2. QED BY <1>1, BasicInit, BasicInductive, PTL DEF Spec

-----------------------------------------------------------------------------
(* The second layer: what the lock names. *)

\* Whoever has a job has one that was planned, and so has the lock.
Known ==
  /\ \A p \in Procs : proc[p].job \in Jobs => rec[proc[p].job].status # "absent"
  /\ lock \in Jobs => rec[lock].status # "absent"

\* Unless the API died on the way, who created the lock file is about to write
\* it, and who wrote it is about to store that the job is being launched.
Tended ==
  /\ lock \in Calls => wedged \/ proc[lock].at = "write"
  /\ lock \in Jobs /\ rec[lock].status = "planned"
       => wedged \/ \E c \in Calls : proc[c].at = "launch" /\ proc[c].job = lock

Named == Known /\ Tended

\* A step of p that neither creates nor writes the lock file.
LEMMA NamedMoves ==
  ASSUME Basic, Named, NEW p \in Procs, NEW r \in Locals, Becomes(p, r),
         \/ r.job \in {Free, proc[p].job}
         \/ r.job \in Jobs /\ rec[r.job].status # "absent",
         \/ UNCHANGED rec
         \/ \E j \in Jobs : \E s : Replaced(j, s) /\ s.status \notin {"absent", "planned"},
         lock' \in {lock, Free},
         \/ proc[p].at \notin {"write", "launch"}
         \/ proc[p].at = "launch" /\ rec'[proc[p].job].status # "planned",
         UNCHANGED wedged
  PROVE  Named'
<1>1. /\ proc \in [Procs -> Locals] /\ rec \in [Jobs -> Records]
      /\ Free \notin Jobs /\ Free \notin Calls /\ Calls \subseteq Procs
  BY LocalFacts, NamesAssumption, Apart
<1>2. \A q \in Procs : proc'[q] = IF q = p THEN r ELSE proc[q]
  BY <1>1 DEF Becomes
<1>3. \A j \in Jobs : \/ rec'[j] = rec[j]
                      \/ rec'[j].status \notin {"absent", "planned"}
  <2>1. ASSUME NEW j \in Jobs, NEW s, Replaced(j, s), s.status \notin {"absent", "planned"}
        PROVE  \A k \in Jobs : rec'[k] = rec[k] \/ rec'[k].status \notin {"absent", "planned"}
    BY <1>1, <2>1 DEF Replaced
  <2>2. QED BY <2>1
<1>4. (\A q \in Procs : proc[q].job \in Jobs => rec[proc[q].job].status # "absent")'
  <2>1. ASSUME NEW q \in Procs, proc'[q].job \in Jobs PROVE rec'[proc'[q].job].status # "absent"
    <3>1. rec[proc'[q].job].status # "absent"
      BY <1>1, <1>2, <2>1 DEF Named, Known
    <3>2. QED BY <1>3, <2>1, <3>1
  <2>2. QED BY <2>1
<1>5. (lock \in Jobs => rec[lock].status # "absent")'
  BY <1>1, <1>3 DEF Named, Known
<1>6. (lock \in Calls => wedged \/ proc[lock].at = "write")'
  BY <1>1, <1>2 DEF Named, Tended
<1>7. (lock \in Jobs /\ rec[lock].status = "planned"
         => wedged \/ \E c \in Calls : proc[c].at = "launch" /\ proc[c].job = lock)'
  <2>1. SUFFICES ASSUME lock' \in Jobs, rec'[lock'].status = "planned", ~wedged'
                 PROVE  \E c \in Calls : proc'[c].at = "launch" /\ proc'[c].job = lock'
    OBVIOUS
  <2>2. lock' = lock /\ rec[lock].status = "planned" /\ ~wedged
    BY <1>1, <1>3, <2>1
  <2>3. PICK c \in Calls : proc[c].at = "launch" /\ proc[c].job = lock
    BY <2>1, <2>2 DEF Named, Tended
  <2>4. c # p
    BY <2>1, <2>2, <2>3
  <2>5. QED BY <1>1, <1>2, <2>2, <2>3, <2>4
<1>8. QED BY <1>4, <1>5, <1>6, <1>7 DEF Named, Known, Tended

LEMMA NamedInit == Init => Named
<1> SUFFICES ASSUME Init PROVE Named
  OBVIOUS
<1>1. \A p \in Procs : proc[p].job = Free
  BY IdleType DEF Init
<1>2. QED BY <1>1, NamesAssumption DEF Init, Named, Known, Tended

LEMMA NamedInductive == Basic /\ Named /\ [Next]_vars => Named'
<1> SUFFICES ASSUME Basic, Named, [Next]_vars PROVE Named'
  OBVIOUS
<1>1. /\ proc \in [Procs -> Locals] /\ rec \in [Jobs -> Records]
      /\ Free \notin Jobs /\ Free \notin Calls /\ Calls \subseteq Procs /\ Pids \subseteq Procs
      /\ \A c \in Calls : c \notin Jobs /\ c \notin Pids
  BY NamesAssumption, Apart DEF Basic, TypeOK
<1>2. ASSUME NEW p \in Procs, NEW r \in Locals, Walks(p, r) \/ Loads(p, r) PROVE Named'
  <2>1. /\ Becomes(p, r) /\ proc[p].at \notin {"write", "launch"} /\ UNCHANGED <<rec, lock, wedged>>
        /\ r.job \in {Free, proc[p].job} \/ (r.job \in Jobs /\ rec[r.job].status # "absent")
    BY <1>2 DEF Walks, Loads, Moves
  <2>2. QED BY <2>1, NamedMoves
<1>3. ASSUME NEW p \in Procs, NEW r \in Locals, NEW k \in Jobs, Copies(p, r, k) PROVE Named'
  <2>1. /\ Becomes(p, r) /\ proc[p].at \notin {"write", "launch"} /\ UNCHANGED <<rec, lock, wedged>>
        /\ r.job \in {Free, proc[p].job} \/ (r.job \in Jobs /\ rec[r.job].status # "absent")
    BY <1>3 DEF Copies, Moves
  <2>2. QED BY <2>1, NamedMoves
<1>4. ASSUME NEW p \in Procs, NEW r \in Locals, Unlinks(p, r) PROVE Named'
  <2>1. /\ Becomes(p, r) /\ proc[p].at \notin {"write", "launch"} /\ UNCHANGED <<rec, wedged>> /\ lock' = Free
        /\ r.job \in {Free, proc[p].job} \/ (r.job \in Jobs /\ rec[r.job].status # "absent")
    BY <1>4 DEF Unlinks, Unlink, Moves
  <2>2. QED BY <2>1, NamedMoves
<1>5. ASSUME NEW p \in Procs, NEW r \in Locals, NEW j \in Jobs, NEW s, Replaced(j, s),
             s.status \notin {"absent", "planned"}, Moves(p, r), UNCHANGED lock,
             proc[p].at \notin {"write", "launch"}
      PROVE  Named'
  <2>1. /\ Becomes(p, r) /\ UNCHANGED <<lock, wedged>>
        /\ r.job \in {Free, proc[p].job} \/ (r.job \in Jobs /\ rec[r.job].status # "absent")
        /\ \E i \in Jobs : \E t : Replaced(i, t) /\ t.status \notin {"absent", "planned"}
    BY <1>5 DEF Moves
  <2>2. QED BY <1>5, <2>1, NamedMoves
<1>6. ASSUME NEW p \in Procs, NEW r \in Locals, NEW k \in Jobs, NEW s, Closes(p, r, k, s) \/ Tells(p, r, k, s)
      PROVE  Named'
  <2>1. /\ Replaced(k, s) /\ s.status \notin {"absent", "planned"} /\ Moves(p, r) /\ UNCHANGED lock
        /\ proc[p].at \notin {"write", "launch"}
    BY <1>6 DEF Closes, Tells, Knows, Launching, Working, Terminal
  <2>2. QED BY <1>5, <2>1
<1>7. ASSUME NEW p \in Procs, NEW r \in Locals, NEW s, Works(p, r, s) PROVE Named'
  <2>1. PICK k \in Jobs : k = r.job
    BY <1>7 DEF Works, Moves, Sound
  <2>2. /\ Replaced(k, s) /\ s.status \notin {"absent", "planned"} /\ Moves(p, r) /\ UNCHANGED lock
        /\ proc[p].at \notin {"write", "launch"}
    BY <1>7, <2>1 DEF Works
  <2>3. QED BY <1>5, <2>2
<1>8. ASSUME NEW p \in Procs, NEW r \in Locals, NEW s, Launches(p, r, s) PROVE Named'
  <2>1. PICK k \in Jobs : k = r.job
    BY <1>8 DEF Launches, Sound
  <2>2. /\ Becomes(p, r) /\ UNCHANGED <<lock, wedged>> /\ r.job = proc[p].job
        /\ Replaced(k, s) /\ s.status \notin {"absent", "planned"} /\ proc[p].at = "launch"
    BY <1>8, <2>1 DEF Launches
  <2>3. rec'[proc[p].job].status # "planned"
    BY <1>1, <2>1, <2>2 DEF Replaced
  <2>4. QED BY <2>2, <2>3, NamedMoves
<1>9. ASSUME NEW p \in Procs, NEW r \in Locals, Opens(p, r) PROVE Named'
  <2>1. /\ \A q \in Procs : proc'[q] = IF q = p THEN r ELSE proc[q]
        /\ r.job = proc[p].job /\ lock' = p /\ p \in Calls /\ r.at = "write" /\ UNCHANGED rec
    BY <1>1, <1>9 DEF Opens, Moves, Becomes
  <2>2. Known'
    BY <1>1, <2>1 DEF Named, Known
  <2>3. Tended'
    BY <1>1, <2>1 DEF Tended
  <2>4. QED BY <2>2, <2>3 DEF Named
<1>10. ASSUME NEW p \in Procs, NEW r \in Locals, Writes(p, r) PROVE Named'
  <2>1. /\ \A q \in Procs : proc'[q] = IF q = p THEN r ELSE proc[q]
        /\ r.job = proc[p].job /\ lock' = (IF lock = p THEN r.job ELSE lock) /\ p \in Calls
        /\ r.at = "launch" /\ proc[p].at = "write" /\ UNCHANGED <<rec, wedged>> /\ r.job \in Jobs
    BY <1>1, <1>10 DEF Writes, Moves, Becomes, Sound
  <2>2. Known'
    BY <1>1, <2>1 DEF Named, Known
  <2>3. (lock \in Calls => wedged \/ proc[lock].at = "write")'
    BY <1>1, <2>1 DEF Named, Tended
  <2>4. (lock \in Jobs /\ rec[lock].status = "planned"
           => wedged \/ \E c \in Calls : proc[c].at = "launch" /\ proc[c].job = lock)'
    <3>1. CASE lock = p
      BY <1>1, <2>1, <3>1
    <3>2. CASE lock # p
      <4>1. SUFFICES ASSUME lock \in Jobs, rec[lock].status = "planned", ~wedged
                     PROVE  \E c \in Calls : proc'[c].at = "launch" /\ proc'[c].job = lock
        BY <2>1, <3>2
      <4>2. PICK c \in Calls : proc[c].at = "launch" /\ proc[c].job = lock
        BY <4>1 DEF Named, Tended
      <4>3. QED BY <1>1, <2>1, <4>2
    <3>3. QED BY <3>1, <3>2
  <2>5. QED BY <2>2, <2>3, <2>4 DEF Named, Tended
<1>11. ASSUME NEW p \in Procs, NEW r \in Locals, NEW w \in Pids, NEW v \in Locals, Starts(p, r, w, v)
       PROVE  Named'
  <2>1. /\ \A q \in Procs : proc'[q] = IF q = w THEN v ELSE IF q = p THEN r ELSE proc[q]
        /\ r.job = proc[p].job /\ v.job = proc[p].job /\ p \in Calls /\ proc[p].at = "popen"
        /\ UNCHANGED <<rec, lock, wedged>>
    BY <1>1, <1>11 DEF Starts
  <2>2. Known'
    BY <1>1, <2>1 DEF Named, Known
  <2>3. (lock \in Calls => wedged \/ proc[lock].at = "write")'
    BY <1>1, <2>1 DEF Named, Tended
  <2>4. (lock \in Jobs /\ rec[lock].status = "planned"
           => wedged \/ \E c \in Calls : proc[c].at = "launch" /\ proc[c].job = lock)'
    <3>1. SUFFICES ASSUME lock \in Jobs, rec[lock].status = "planned", ~wedged
                   PROVE  \E c \in Calls : proc'[c].at = "launch" /\ proc'[c].job = lock
      BY <2>1
    <3>2. PICK c \in Calls : proc[c].at = "launch" /\ proc[c].job = lock
      BY <3>1 DEF Named, Tended
    <3>3. QED BY <1>1, <2>1, <3>2
  <2>5. QED BY <2>2, <2>3, <2>4 DEF Named, Tended
<1>12. ASSUME NEW j \in Jobs, CreatePlan(j) PROVE Named'
  <2>1. rec[j].status = "absent" /\ UNCHANGED <<lock, proc, wedged>>
    BY <1>12 DEF CreatePlan, history
  <2>2. \A k \in Jobs : rec'[k] = IF k = j THEN Plan ELSE rec[k]
    BY <1>1, <1>12 DEF CreatePlan
  <2>3. \A k \in Jobs : rec'[k].status # "absent" \/ rec'[k] = rec[k]
    BY <2>2, PlanRecord
  <2>4. Known'
    BY <2>1, <2>3 DEF Named, Known
  <2>5. lock \in Jobs => rec'[lock] = rec[lock]
    BY <2>1, <2>2 DEF Named, Known
  <2>6. Tended'
    BY <2>1, <2>5 DEF Named, Tended
  <2>7. QED BY <2>4, <2>6 DEF Named
<1>13. ASSUME ApiDies PROVE Named'
  <2>1. /\ \A p \in Procs : proc'[p] = IF p \in Calls THEN Idle ELSE proc[p]
        /\ wedged' = (wedged \/ \E c \in Calls : \/ lock = c
                                                 \/ proc[c].at = "launch" /\ lock = proc[c].job)
        /\ UNCHANGED <<rec, lock>>
    BY <1>13 DEF ApiDies, At
  <2>2. Known'
    BY <1>1, <2>1, IdleType DEF Named, Known
  <2>3. Tended'
    BY <1>1, <2>1 DEF Named, Tended
  <2>4. QED BY <2>2, <2>3 DEF Named
<1>14. ASSUME (\E j \in Jobs : ThirtySeconds(j)) \/ (\E w \in Pids : Reap(w)) \/ UNCHANGED vars PROVE Named'
  <2>1. UNCHANGED <<rec, lock, proc, wedged>>
    BY <1>14 DEF ThirtySeconds, Reap, vars, history
  <2>2. QED BY <2>1 DEF Named, Known, Tended
<1>15. QED
  BY <1>2, <1>3, <1>4, <1>6, <1>7, <1>8, <1>9, <1>10, <1>11, <1>12, <1>13, <1>14, Kinds

\* When no call is under way and no worker runs, the lock names a job that is
\* over, or that get() will find lost, unless the API died in between creating
\* it and storing "launching": acquire_lock() can clear what any interleaving
\* of launches, unlinks and dying workers leaves behind.
THEOREM LockIsRecoverableHolds == Spec => []LockIsRecoverable
<1>1. Basic /\ Named => LockIsRecoverable
  <2>1. SUFFICES ASSUME Basic, Named, \A p \in Procs : proc[p].at \in {"idle", "exited"}, lock # Free, ~wedged
                 PROVE  lock \in Jobs /\ rec[lock].status \in Active \cup Terminal
    BY DEF LockIsRecoverable
  <2>2. lock \notin Calls
    BY <2>1, Apart DEF Named, Tended
  <2>3. lock \in Jobs /\ rec[lock] \in Records
    BY <2>1, <2>2 DEF Basic, TypeOK
  <2>4. rec[lock].status \notin {"absent", "planned"}
    BY <2>1, <2>3, Apart DEF Named, Known, Tended
  <2>5. QED BY <2>3, <2>4 DEF Records
<1>2. Basic /\ Named /\ [Next]_vars => Basic' /\ Named'
  BY BasicInductive, NamedInductive
<1>3. QED BY <1>1, <1>2, BasicInit, NamedInit, PTL DEF Spec

-----------------------------------------------------------------------------
(* The third layer: where no lock was stolen and no job launched twice, who *)
(* is launching a job or carrying it out holds the lock.                    *)

AtWorkPlaces == {"next", "step", "failed"}
Holders == {"write", "launch", "popen"} \cup Working

\* p is launching j, or is its worker.
Runs(p, j) == proc[p].job = j /\ proc[p].at \in Launching \cup Working

\* p holds a copy of the record of j that it may store again.
HasCopy(p, j) ==
  \/ proc[p].at \in {"judge", "savePid"} /\ proc[p].job = j
  \/ proc[p].at = "judgeOwner" /\ proc[p].owner = j

Acquired(c) ==
  /\ proc[c].at = "write" => lock = c
  /\ proc[c].at = "launch" => lock = proc[c].job

\* A job that was not launched has neither launch nor worker, and no copy of
\* its record names a process.
Unlaunched(j) ==
  rec[j].status \in {"absent", "planned"} =>
    \A p \in Procs : ~Runs(p, j) /\ (HasCopy(p, j) => proc[p].record.pid = 0)

\* Before its worker is started a job has the lock and no process, and nobody
\* has a copy that would make it look dead.
Started(c, j) ==
  proc[c].at = "popen" /\ proc[c].job = j =>
    /\ lock = j /\ rec[j].status = "launching" /\ rec[j].pid = 0 /\ j \notin late
    /\ \A p \in Procs : /\ p # c => ~Runs(p, j)
                        /\ HasCopy(p, j) => proc[p].record.pid = 0

\* While its worker w is at it, a job has the lock, and whatever copy is
\* judged or stored names w or nobody; nobody, only where w is not too late.
Held(w, j) ==
  proc[w].at \in Working /\ proc[w].job = j =>
    /\ lock = j /\ rec[j].status \in Active /\ w \in alive /\ rec[j].pid \in {0, w}
    /\ proc[w].at \in {"load", "begin"} => j \notin late
    /\ proc[w].at \in AtWorkPlaces => rec[j].pid = w
    /\ \A p \in Procs :
         /\ p # w /\ proc[p].job = j => proc[p].at \notin Working \cup {"popen"}
         /\ HasCopy(p, j) => proc[p].record.pid \in {0, w}
         /\ proc[p].at \in {"reload", "savePid"} /\ proc[p].job = j => proc[p].child = w
         /\ proc[p].at = "judge" /\ proc[p].job = j /\ proc[p].record.pid = 0 => j \notin late

Exclusive ==
  /\ \A c \in Calls : Acquired(c)
  /\ \A j \in Jobs : Unlaunched(j)
  /\ \A c \in Calls, j \in Jobs : Started(c, j)
  /\ \A w \in Pids, j \in Jobs : Held(w, j)

\* What the types and the first layer say of who holds the lock.
LEMMA HolderFacts ==
  ASSUME Basic
  PROVE  /\ proc \in [Procs -> Locals] /\ rec \in [Jobs -> Records]
         /\ Calls \subseteq Procs /\ Pids \subseteq Procs /\ Free \notin Jobs /\ Free \notin Calls
         /\ \A c \in Calls : c \notin Jobs /\ c \notin Pids
         /\ \A w \in Pids : w \in Nat \ {0}
         /\ \A j \in Jobs : rec[j].status \in {"absent", "planned"} => rec[j].pid = 0
         /\ \A p \in Procs : Sound(p, proc[p])
BY NamesAssumption, Apart DEF Basic, TypeOK, Stored, Pids

\* s can become the record of k when p moves on: nobody else is about to start
\* a worker of k, and a worker of k finds its own pid in it, or none yet.
Fits(p, k, s) ==
  /\ s.status \notin {"absent", "planned"}
  /\ \A q \in Procs : q # p /\ proc[q].job = k =>
       /\ proc[q].at # "popen"
       /\ proc[q].at \in Working => s.status \in Active /\ s.pid \in {0, q}
       /\ proc[q].at \in AtWorkPlaces => s.pid = q

\* A step of p alone that gives up what p had.
LEMMA ExclusiveQuiet ==
  ASSUME Basic, Exclusive, NEW p \in Procs, NEW r, Becomes(p, r), r.at \in Quiet,
         lock' = lock \/ \A q \in Procs : proc[q].at \notin Holders,
         UNCHANGED rec \/ \E k \in Jobs : \E s : Replaced(k, s) /\ Fits(p, k, s),
         UNCHANGED <<alive, late>>
  PROVE  Exclusive'
<1>1. \A q \in Procs : proc'[q] = IF q = p THEN r ELSE proc[q]
  BY HolderFacts DEF Becomes
<1>2. \A j \in Jobs : rec'[j] = rec[j] \/ Fits(p, j, rec'[j])
  <2>1. ASSUME NEW k \in Jobs, NEW s, Replaced(k, s), Fits(p, k, s)
        PROVE  \A j \in Jobs : rec'[j] = rec[j] \/ Fits(p, j, rec'[j])
    <3>1. \A j \in Jobs : rec'[j] = IF j = k THEN s ELSE rec[j]
      BY <2>1, HolderFacts DEF Replaced
    <3>2. rec'[k] = s
      BY <3>1
    <3>3. Fits(p, k, rec'[k])
      BY <2>1, <3>2
    <3>4. QED BY <3>1, <3>3
  <2>2. QED BY <2>1
<1>3. Calls \subseteq Procs /\ Pids \subseteq Procs
  BY HolderFacts
<1>4. ASSUME NEW c \in Calls PROVE Acquired(c)'
  <2>1. Acquired(c)
    BY DEF Exclusive
  <2>2. QED BY <1>1, <1>3, <2>1 DEF Acquired, Quiet, Holders
<1>5. ASSUME NEW j \in Jobs PROVE Unlaunched(j)'
  <2>1. Unlaunched(j)
    BY DEF Exclusive
  <2>2. QED BY <1>1, <1>2, <2>1 DEF Unlaunched, Fits, Runs, HasCopy, Quiet, Launching, Working
<1>6. ASSUME NEW c \in Calls, NEW j \in Jobs PROVE Started(c, j)'
  <2>1. Started(c, j)
    BY DEF Exclusive
  <2>2. SUFFICES ASSUME proc'[c].at = "popen", proc'[c].job = j
                 PROVE  /\ lock' = j /\ rec'[j].status = "launching" /\ rec'[j].pid = 0 /\ j \notin late'
                        /\ \A q \in Procs : /\ q # c => ~Runs(q, j)'
                                            /\ HasCopy(q, j)' => proc'[q].record.pid = 0
    BY DEF Started
  <2>3. c # p /\ proc[c].at = "popen" /\ proc[c].job = j
    BY <1>1, <1>3, <2>2 DEF Quiet
  <2>4. rec'[j] = rec[j] /\ lock' = lock
    BY <1>2, <1>3, <2>3 DEF Fits, Holders
  <2>5. \A q \in Procs : (q # c => ~Runs(q, j)') /\ (HasCopy(q, j)' => proc'[q].record.pid = 0)
    BY <1>1, <2>1, <2>3 DEF Started, Runs, HasCopy, Quiet, Launching, Working
  <2>6. QED BY <2>1, <2>3, <2>4, <2>5 DEF Started
<1>7. ASSUME NEW w \in Pids, NEW j \in Jobs PROVE Held(w, j)'
  <2>1. Held(w, j)
    BY DEF Exclusive
  <2>2. SUFFICES ASSUME proc'[w].at \in Working, proc'[w].job = j PROVE Held(w, j)'
    BY DEF Held
  <2>3. w # p /\ proc[w].at \in Working /\ proc[w].job = j /\ proc'[w] = proc[w]
    BY <1>1, <1>3, <2>2 DEF Quiet, Working
  <2>4. lock' = lock
    BY <1>3, <2>3 DEF Holders
  <2>5. /\ rec'[j].status \in Active /\ rec'[j].pid \in {0, w}
        /\ proc[w].at \in AtWorkPlaces => rec'[j].pid = w
    BY <1>2, <1>3, <2>1, <2>3 DEF Fits, Held
  <2>6. ASSUME NEW q \in Procs
        PROVE  /\ q # w /\ proc'[q].job = j => proc'[q].at \notin Working \cup {"popen"}
               /\ HasCopy(q, j)' => proc'[q].record.pid \in {0, w}
               /\ proc'[q].at \in {"reload", "savePid"} /\ proc'[q].job = j => proc'[q].child = w
               /\ proc'[q].at = "judge" /\ proc'[q].job = j /\ proc'[q].record.pid = 0 => j \notin late'
    BY <1>1, <2>1, <2>3 DEF Held, HasCopy, Quiet, Working
  <2>7. QED BY <2>1, <2>3, <2>4, <2>5, <2>6 DEF Held
<1>8. QED BY <1>4, <1>5, <1>6, <1>7 DEF Exclusive

\* A step that takes a copy: it names no process of a job that has none, and no
\* other than the worker's of one that has.
LEMMA ExclusiveCopies ==
  ASSUME Basic, Exclusive, NEW p \in Procs, NEW r \in Locals, NEW k \in Jobs, Copies(p, r, k)
  PROVE  Exclusive'
<1>1. /\ \A q \in Procs : proc'[q] = IF q = p THEN r ELSE proc[q]
      /\ UNCHANGED <<rec, lock, alive, late>>
  BY HolderFacts DEF Copies, Moves, Becomes
<1>2. /\ r.record = rec[k]
      /\ \/ r.at = "judgeOwner" /\ r.owner = k
         \/ r.at = "judge" /\ r.job = k /\ rec[k].status \in Active
         \/ /\ r.at = "savePid" /\ r.job = k /\ r.child = proc[p].child
            /\ proc[p].at = "reload" /\ proc[p].job = k /\ rec[k].status = "launching"
  BY DEF Copies
<1>3. Calls \subseteq Procs /\ Pids \subseteq Procs
  BY HolderFacts
<1>4. ASSUME NEW c \in Calls PROVE Acquired(c)'
  <2>1. Acquired(c)
    BY DEF Exclusive
  <2>2. QED BY <1>1, <1>2, <1>3, <2>1 DEF Acquired
<1>5. ASSUME NEW j \in Jobs PROVE Unlaunched(j)'
  <2>1. Unlaunched(j) /\ (rec[j].status \in {"absent", "planned"} => rec[j].pid = 0)
    BY HolderFacts DEF Exclusive
  <2>2. QED BY <1>1, <1>2, <2>1 DEF Unlaunched, Runs, HasCopy, Launching, Working
<1>6. ASSUME NEW c \in Calls, NEW j \in Jobs PROVE Started(c, j)'
  <2>1. Started(c, j)
    BY DEF Exclusive
  <2>2. QED BY <1>1, <1>2, <1>3, <2>1 DEF Started, Runs, HasCopy, Launching, Working
<1>7. ASSUME NEW w \in Pids, NEW j \in Jobs PROVE Held(w, j)'
  <2>1. Held(w, j) /\ w # 0
    BY HolderFacts DEF Exclusive
  <2>2. SUFFICES ASSUME proc'[w].at \in Working, proc'[w].job = j PROVE Held(w, j)'
    BY DEF Held
  <2>3. w # p /\ proc[w].at \in Working /\ proc[w].job = j /\ proc'[w] = proc[w]
    BY <1>1, <1>2, <1>3, <2>2 DEF Working
  <2>4. ASSUME NEW q \in Procs
        PROVE  /\ q # w /\ proc'[q].job = j => proc'[q].at \notin Working \cup {"popen"}
               /\ HasCopy(q, j)' => proc'[q].record.pid \in {0, w}
               /\ proc'[q].at \in {"reload", "savePid"} /\ proc'[q].job = j => proc'[q].child = w
               /\ proc'[q].at = "judge" /\ proc'[q].job = j /\ proc'[q].record.pid = 0 => j \notin late'
    BY <1>1, <1>2, <2>1, <2>3 DEF Held, HasCopy, Working, AtWorkPlaces
  <2>5. QED BY <1>1, <2>1, <2>3, <2>4 DEF Held
<1>8. QED BY <1>4, <1>5, <1>6, <1>7 DEF Exclusive

\* A step of the worker p that goes on with its job.
LEMMA ExclusiveWorks ==
  ASSUME Basic, Exclusive, NEW p \in Pids, NEW r \in Locals, Becomes(p, r), NEW j0 \in Jobs,
         proc[p].job = j0, r.job = j0, UNCHANGED <<lock, alive, late>>,
         \/ proc[p].at = "load" /\ r.at = "begin" /\ UNCHANGED rec
         \/ /\ proc[p].at \in {"begin", "next", "step"} /\ r.at \in AtWorkPlaces
            /\ \E s : Replaced(j0, s) /\ s.status = "running" /\ s.pid = p
  PROVE  Exclusive'
<1> USE DEF Working, AtWorkPlaces
<1>1. /\ \A q \in Procs : proc'[q] = IF q = p THEN r ELSE proc[q]
      /\ Calls \subseteq Procs /\ Pids \subseteq Procs /\ p \notin Calls
  BY HolderFacts DEF Becomes
<1>2. /\ \A j \in Jobs : j # j0 => rec'[j] = rec[j]
      /\ rec'[j0] = rec[j0] \/ (rec'[j0].status = "running" /\ rec'[j0].pid = p)
      /\ r.at \in AtWorkPlaces => rec'[j0].status = "running" /\ rec'[j0].pid = p
  <2>1. CASE UNCHANGED rec /\ r.at = "begin"
    BY <2>1
  <2>2. ASSUME NEW s, Replaced(j0, s), s.status = "running", s.pid = p
        PROVE  /\ \A j \in Jobs : j # j0 => rec'[j] = rec[j]
               /\ rec'[j0].status = "running" /\ rec'[j0].pid = p
    BY <2>2, HolderFacts DEF Replaced
  <2>3. QED BY <2>1, <2>2
<1>3. ASSUME NEW c \in Calls PROVE Acquired(c)'
  <2>1. Acquired(c)
    BY DEF Exclusive
  <2>2. QED BY <1>1, <2>1 DEF Acquired
<1>4. Held(p, j0) /\ proc[p].at \in Working
  BY DEF Exclusive
<1>5. ASSUME NEW j \in Jobs PROVE Unlaunched(j)'
  <2>1. Unlaunched(j)
    BY DEF Exclusive
  <2>2. QED BY <1>1, <1>2, <1>4, <2>1 DEF Unlaunched, Runs, HasCopy, Launching
<1>6. ASSUME NEW c \in Calls, NEW j \in Jobs PROVE Started(c, j)'
  <2>1. Started(c, j)
    BY DEF Exclusive
  <2>2. SUFFICES ASSUME proc'[c].at = "popen", proc'[c].job = j PROVE Started(c, j)'
    BY DEF Started
  <2>3. c # p /\ proc'[c] = proc[c] /\ j # j0
    BY <1>1, <1>4, <2>2 DEF Held
  <2>4. rec'[j] = rec[j]
    BY <1>2, <2>3
  <2>5. QED BY <1>1, <2>1, <2>2, <2>3, <2>4 DEF Started, Runs, HasCopy
<1>7. ASSUME NEW w \in Pids, NEW j \in Jobs PROVE Held(w, j)'
  <2>1. Held(w, j)
    BY DEF Exclusive
  <2>2. SUFFICES ASSUME proc'[w].at \in Working, proc'[w].job = j PROVE Held(w, j)'
    BY DEF Held
  <2>3. proc[w].at \in Working /\ proc[w].job = j
    BY <1>1, <1>4, <2>2
  <2>4. w = p => j = j0
    BY <2>3
  <2>5. w # p => j # j0 /\ rec'[j] = rec[j] /\ proc'[w] = proc[w]
    BY <1>1, <1>2, <1>4, <2>3 DEF Held
  <2>6. /\ rec'[j].status \in Active /\ rec'[j].pid \in {0, w}
        /\ proc'[w].at \in AtWorkPlaces => rec'[j].pid = w
    BY <1>1, <1>2, <2>1, <2>3, <2>4, <2>5 DEF Held, Active
  <2>7. proc'[w].at \in {"load", "begin"} => j \notin late
    BY <1>1, <2>1, <2>3 DEF Held
  <2>8. ASSUME NEW q \in Procs
        PROVE  /\ q # w /\ proc'[q].job = j => proc'[q].at \notin Working \cup {"popen"}
               /\ HasCopy(q, j)' => proc'[q].record.pid \in {0, w}
               /\ proc'[q].at \in {"reload", "savePid"} /\ proc'[q].job = j => proc'[q].child = w
               /\ proc'[q].at = "judge" /\ proc'[q].job = j /\ proc'[q].record.pid = 0 => j \notin late'
    BY <1>1, <1>4, <2>1, <2>3 DEF Held, HasCopy
  <2>9. QED BY <2>1, <2>3, <2>6, <2>7, <2>8 DEF Held
<1>8. QED BY <1>3, <1>5, <1>6, <1>7 DEF Exclusive

\* Nobody else holds the lock when p creates or writes the lock file.
LEMMA ExclusiveOpens ==
  ASSUME Basic, Exclusive, NEW p \in Procs, NEW r \in Locals, Opens(p, r) \/ Writes(p, r)
  PROVE  Exclusive'
<1>1. /\ \A q \in Procs : proc'[q] = IF q = p THEN r ELSE proc[q]
      /\ UNCHANGED <<rec, alive, late>> /\ r.job = proc[p].job /\ p \in Calls
      /\ \/ proc[p].at = "acquire" /\ r.at = "write" /\ lock = Free /\ lock' = p
         \/ proc[p].at = "write" /\ r.at = "launch" /\ lock' = (IF lock = p THEN r.job ELSE lock)
  BY HolderFacts DEF Opens, Writes, Moves, Becomes
<1>2. /\ Calls \subseteq Procs /\ Pids \subseteq Procs /\ Free \notin Jobs /\ Free \notin Calls
      /\ \A c \in Calls : c \notin Jobs /\ c \notin Pids
      /\ \A c \in Procs : proc[c].at \in Holders => proc[c].job \in Jobs
  BY HolderFacts DEF Sound, Holders, Working
<1>3. proc[p].at = "write" => lock = p
  BY <1>1 DEF Exclusive, Acquired
<1>4. lock \notin Jobs /\ \A c \in Calls : lock = c => c = p
  BY <1>1, <1>2, <1>3
<1>5. \A c \in Procs : c # p => proc[c].at \notin Holders
  <2>1. ASSUME NEW c \in Procs, c # p, proc[c].at \in Holders PROVE FALSE
    <3>1. PICK j \in Jobs : j = proc[c].job
      BY <1>2, <2>1
    <3>2. CASE proc[c].at \in {"write", "launch"}
      <4>1. c \in Calls
        BY <3>2, HolderFacts DEF Sound, WorkerPlaces, Procs
      <4>2. QED BY <1>4, <2>1, <3>1, <3>2, <4>1 DEF Exclusive, Acquired
    <3>3. CASE proc[c].at = "popen"
      <4>1. c \in Calls
        BY <3>3, HolderFacts DEF Sound, WorkerPlaces, Procs
      <4>2. Started(c, j)
        BY <4>1 DEF Exclusive
      <4>3. QED BY <1>4, <3>1, <3>3, <4>2 DEF Started
    <3>4. CASE proc[c].at \in Working
      <4>1. c \in Pids
        BY <3>4, HolderFacts DEF Sound, CallPlaces, Procs, Working
      <4>2. Held(c, j)
        BY <4>1 DEF Exclusive
      <4>3. QED BY <1>4, <3>1, <3>4, <4>2 DEF Held
    <3>5. QED BY <2>1, <3>2, <3>3, <3>4 DEF Holders
  <2>2. QED BY <2>1
<1>6. ASSUME NEW c \in Calls PROVE Acquired(c)'
  BY <1>1, <1>2, <1>3, <1>5 DEF Acquired, Holders
<1>7. ASSUME NEW j \in Jobs PROVE Unlaunched(j)'
  <2>1. Unlaunched(j)
    BY DEF Exclusive
  <2>2. QED BY <1>1, <2>1 DEF Unlaunched, Runs, HasCopy, Launching, Working
<1>8. ASSUME NEW c \in Calls, NEW j \in Jobs PROVE Started(c, j)'
  BY <1>1, <1>2, <1>5 DEF Started, Holders
<1>9. ASSUME NEW w \in Pids, NEW j \in Jobs PROVE Held(w, j)'
  BY <1>1, <1>2, <1>5 DEF Held, Holders, Working
<1>10. QED BY <1>6, <1>7, <1>8, <1>9 DEF Exclusive

\* A job that is launched for the first time: nobody has anything of it yet.
LEMMA ExclusiveLaunches ==
  ASSUME Basic, Exclusive, NEW p \in Procs, NEW r \in Locals, NEW s, Launches(p, r, s), ~relaunched'
  PROVE  Exclusive'
<1>1. PICK k \in Jobs : k = r.job
  BY DEF Launches, Sound
<1>2. /\ \A q \in Procs : proc'[q] = IF q = p THEN r ELSE proc[q]
      /\ \A j \in Jobs : rec'[j] = IF j = k THEN s ELSE rec[j]
      /\ late' = late \ {k} /\ UNCHANGED <<lock, alive>>
      /\ p \in Calls /\ proc[p].at = "launch" /\ proc[p].job = k /\ r.at = "popen" /\ r.job = k
      /\ s.status = "launching" /\ s.pid = 0 /\ rec[k].status = "planned"
  BY <1>1, HolderFacts DEF Launches, Becomes, Replaced
<1>3. lock = k /\ Unlaunched(k)
  BY <1>2 DEF Exclusive, Acquired
<1>4. \A q \in Procs : ~Runs(q, k) /\ (HasCopy(q, k) => proc[q].record.pid = 0)
  BY <1>2, <1>3 DEF Unlaunched
<1>5. Calls \subseteq Procs /\ Pids \subseteq Procs /\ \A c \in Calls : c \notin Pids
  BY HolderFacts
<1>6. ASSUME NEW c \in Calls PROVE Acquired(c)'
  <2>1. Acquired(c)
    BY DEF Exclusive
  <2>2. QED BY <1>2, <1>5, <2>1 DEF Acquired
<1>7. ASSUME NEW j \in Jobs PROVE Unlaunched(j)'
  <2>1. Unlaunched(j)
    BY DEF Exclusive
  <2>2. QED BY <1>2, <2>1 DEF Unlaunched, Runs, HasCopy, Launching, Working
<1>8. ASSUME NEW c \in Calls, NEW j \in Jobs PROVE Started(c, j)'
  <2>1. Started(c, j)
    BY DEF Exclusive
  <2>2. SUFFICES ASSUME proc'[c].at = "popen", proc'[c].job = j PROVE Started(c, j)'
    BY DEF Started
  <2>3. c = p /\ j = k
    <3>1. CASE c # p
      <4>1. proc[c].at = "popen" /\ proc[c].job = j
        BY <1>2, <1>5, <2>2, <3>1
      <4>2. lock = j
        BY <2>1, <4>1 DEF Started
      <4>3. Runs(c, k)
        BY <1>3, <4>1, <4>2 DEF Runs, Launching
      <4>4. QED BY <1>4, <1>5, <4>3
    <3>2. QED BY <1>2, <1>5, <2>2, <3>1
  <2>4. \A q \in Procs : (q # p => ~Runs(q, k)') /\ (HasCopy(q, k)' => proc'[q].record.pid = 0)
    BY <1>2, <1>4 DEF Runs, HasCopy
  <2>5. QED BY <1>2, <1>3, <2>3, <2>4 DEF Started
<1>9. ASSUME NEW w \in Pids, NEW j \in Jobs PROVE Held(w, j)'
  <2>1. Held(w, j)
    BY DEF Exclusive
  <2>2. ASSUME proc'[w].at \in Working, proc'[w].job = j PROVE FALSE
    <3>1. proc[w].at \in Working /\ proc[w].job = j
      BY <1>2, <1>5, <2>2 DEF Working
    <3>2. lock = j
      BY <2>1, <3>1 DEF Held
    <3>3. Runs(w, k)
      BY <1>3, <3>1, <3>2 DEF Runs
    <3>4. QED BY <1>4, <1>5, <3>3
  <2>3. QED BY <2>2 DEF Held
<1>10. QED BY <1>6, <1>7, <1>8, <1>9 DEF Exclusive

\* The worker that is started is the only one of its job.
LEMMA ExclusiveStarts ==
  ASSUME Basic, Exclusive, NEW p \in Procs, NEW r \in Locals, NEW w \in Pids, NEW v \in Locals,
         Starts(p, r, w, v)
  PROVE  Exclusive'
<1>1. PICK k \in Jobs : k = proc[p].job
  BY HolderFacts DEF Starts, Sound
<1>2. /\ \A q \in Procs : proc'[q] = IF q = w THEN v ELSE IF q = p THEN r ELSE proc[q]
      /\ alive' = alive \cup {w} /\ UNCHANGED <<rec, lock, late>>
      /\ p \in Calls /\ proc[p].at = "popen" /\ r.at = "reload" /\ r.job = k /\ r.child = w
      /\ v.at = "load" /\ v.job = k
  BY <1>1, HolderFacts DEF Starts
<1>3. Calls \subseteq Procs /\ Pids \subseteq Procs /\ \A c \in Calls : c \notin Pids
  BY HolderFacts
<1>4. /\ lock = k /\ rec[k].status = "launching" /\ rec[k].pid = 0 /\ k \notin late
      /\ \A q \in Procs : (q # p => ~Runs(q, k)) /\ (HasCopy(q, k) => proc[q].record.pid = 0)
  <2>1. Started(p, k)
    BY <1>2 DEF Exclusive
  <2>2. QED BY <1>1, <1>2, <2>1 DEF Started
<1>5. ASSUME NEW c \in Calls PROVE Acquired(c)'
  <2>1. Acquired(c)
    BY DEF Exclusive
  <2>2. QED BY <1>2, <1>3, <2>1 DEF Acquired
<1>6. ASSUME NEW j \in Jobs PROVE Unlaunched(j)'
  <2>1. Unlaunched(j)
    BY DEF Exclusive
  <2>2. QED BY <1>2, <1>4, <2>1 DEF Unlaunched, Runs, HasCopy, Launching, Working
<1>7. ASSUME NEW c \in Calls, NEW j \in Jobs PROVE Started(c, j)'
  <2>1. Started(c, j)
    BY DEF Exclusive
  <2>2. ASSUME proc'[c].at = "popen", proc'[c].job = j PROVE FALSE
    <3>1. proc[c].at = "popen" /\ proc[c].job = j /\ c # p
      BY <1>2, <1>3, <2>2
    <3>2. lock = j
      BY <2>1, <3>1 DEF Started
    <3>3. Runs(c, k)
      BY <1>4, <3>1, <3>2 DEF Runs, Launching
    <3>4. QED BY <1>3, <1>4, <3>1, <3>3
  <2>3. QED BY <2>2 DEF Started
<1>8. ASSUME NEW u \in Pids, NEW j \in Jobs PROVE Held(u, j)'
  <2>1. Held(u, j)
    BY DEF Exclusive
  <2>2. SUFFICES ASSUME proc'[u].at \in Working, proc'[u].job = j PROVE Held(u, j)'
    BY DEF Held
  <2>3. u = w /\ j = k
    <3>1. CASE u # w
      <4>1. proc[u].at \in Working /\ proc[u].job = j /\ u # p
        BY <1>2, <1>3, <2>2, <3>1
      <4>2. lock = j
        BY <2>1, <4>1 DEF Held
      <4>3. Runs(u, k)
        BY <1>4, <4>1, <4>2 DEF Runs
      <4>4. QED BY <1>3, <1>4, <4>1, <4>3
    <3>2. QED BY <1>2, <1>3, <2>2, <3>1
  <2>4. ASSUME NEW q \in Procs
        PROVE  /\ q # w /\ proc'[q].job = k => proc'[q].at \notin Working \cup {"popen"}
               /\ HasCopy(q, k)' => proc'[q].record.pid \in {0, w}
               /\ proc'[q].at \in {"reload", "savePid"} /\ proc'[q].job = k => proc'[q].child = w
               /\ proc'[q].at = "judge" /\ proc'[q].job = k /\ proc'[q].record.pid = 0 => k \notin late'
    BY <1>2, <1>4 DEF HasCopy, Runs, Working, Launching
  <2>5. QED BY <1>2, <1>3, <1>4, <2>3, <2>4 DEF Held, Active, AtWorkPlaces
<1>9. QED BY <1>5, <1>6, <1>7, <1>8 DEF Exclusive

\* A plan is made, time passes, a worker is reaped, the API dies.
LEMMA ExclusiveEnvironment ==
  ASSUME Basic, Exclusive, Stalls = FALSE,
         \/ \E j \in Jobs : CreatePlan(j) \/ ThirtySeconds(j)
         \/ \E w \in Pids : Reap(w)
         \/ ApiDies
         \/ UNCHANGED vars
  PROVE  Exclusive'
<1> USE DEF bounds, history
<1>1. /\ Calls \subseteq Procs /\ Pids \subseteq Procs /\ \A c \in Calls : c \notin Pids
      /\ \A w \in Pids : w # 0
      /\ rec \in [Jobs -> Records]
  BY HolderFacts
<1>2. ASSUME NEW k \in Jobs, CreatePlan(k) PROVE Exclusive'
  <2>1. /\ \A j \in Jobs : rec'[j] = IF j = k THEN Plan ELSE rec[j]
        /\ rec[k].status = "absent" /\ UNCHANGED <<lock, alive, late, proc>>
    BY <1>1, <1>2 DEF CreatePlan
  <2>2. ASSUME NEW c \in Calls PROVE Acquired(c)'
    BY <2>1 DEF Exclusive, Acquired
  <2>3. ASSUME NEW j \in Jobs PROVE Unlaunched(j)'
    <3>1. Unlaunched(j)
      BY DEF Exclusive
    <3>2. rec[j].status \in {"absent", "planned"} \/ rec'[j] = rec[j]
      BY <2>1
    <3>3. QED BY <2>1, <3>1, <3>2 DEF Unlaunched, Runs, HasCopy
  <2>4. ASSUME NEW c \in Calls, NEW j \in Jobs PROVE Started(c, j)'
    <3>1. Started(c, j)
      BY DEF Exclusive
    <3>2. QED BY <2>1, <3>1 DEF Started, Runs, HasCopy
  <2>5. ASSUME NEW w \in Pids, NEW j \in Jobs PROVE Held(w, j)'
    <3>1. Held(w, j)
      BY DEF Exclusive
    <3>2. QED BY <2>1, <3>1 DEF Held, HasCopy, Active
  <2>6. QED BY <2>2, <2>3, <2>4, <2>5 DEF Exclusive
<1>3. ASSUME UNCHANGED <<rec, lock, proc>>, UNCHANGED alive \/ \E u \in Pids : Reap(u),
             UNCHANGED late \/ \E k \in Jobs : ThirtySeconds(k)
      PROVE  Exclusive'
  <2>1. \A w \in Pids : proc[w].at \in Working /\ w \in alive => w \in alive'
    BY <1>3 DEF Reap, At, Working
  <2>2. \A j \in Jobs : j \in late' => \/ j \in late
                                      \/ \A q \in Procs : ~MidLaunch(q, j)
    BY <1>3 DEF ThirtySeconds
  <2>3. ASSUME NEW c \in Calls PROVE Acquired(c)'
    BY <1>3 DEF Exclusive, Acquired
  <2>4. ASSUME NEW j \in Jobs PROVE Unlaunched(j)'
    BY <1>3 DEF Exclusive, Unlaunched, Runs, HasCopy
  <2>5. ASSUME NEW c \in Calls, NEW j \in Jobs PROVE Started(c, j)'
    <3>1. Started(c, j)
      BY DEF Exclusive
    <3>2. QED BY <1>1, <1>3, <2>2, <3>1 DEF Started, Runs, HasCopy, MidLaunch
  <2>6. ASSUME NEW w \in Pids, NEW j \in Jobs PROVE Held(w, j)'
    <3>1. Held(w, j)
      BY DEF Exclusive
    <3>2. SUFFICES ASSUME proc[w].at \in Working, proc[w].job = j PROVE Held(w, j)'
      BY <1>3 DEF Held
    <3>3. proc[w].at \in {"load", "begin"} => j \notin late'
      BY <1>1, <2>2, <3>1, <3>2 DEF Held, MidLaunch
    <3>4. \A q \in Procs : proc[q].at = "judge" /\ proc[q].job = j /\ proc[q].record.pid = 0 => j \notin late'
      BY <2>2, <3>1, <3>2 DEF Held, MidLaunch
    <3>5. QED BY <1>3, <2>1, <3>1, <3>2, <3>3, <3>4 DEF Held, HasCopy
  <2>7. QED BY <2>3, <2>4, <2>5, <2>6 DEF Exclusive
<1>4. ASSUME ApiDies PROVE Exclusive'
  <2>1. /\ \A q \in Procs : proc'[q] = IF q \in Calls THEN Idle ELSE proc[q]
        /\ UNCHANGED <<rec, lock, alive, late>>
    BY <1>4 DEF ApiDies
  <2>2. Idle.at = "idle"
    BY DEF Idle
  <2>3. ASSUME NEW c \in Calls PROVE Acquired(c)'
    BY <1>1, <2>1, <2>2 DEF Acquired
  <2>4. ASSUME NEW j \in Jobs PROVE Unlaunched(j)'
    <3>1. Unlaunched(j)
      BY DEF Exclusive
    <3>2. QED BY <2>1, <2>2, <3>1 DEF Unlaunched, Runs, HasCopy, Launching, Working
  <2>5. ASSUME NEW c \in Calls, NEW j \in Jobs PROVE Started(c, j)'
    BY <1>1, <2>1, <2>2 DEF Started
  <2>6. ASSUME NEW w \in Pids, NEW j \in Jobs PROVE Held(w, j)'
    <3>1. Held(w, j)
      BY DEF Exclusive
    <3>2. SUFFICES ASSUME proc'[w].at \in Working, proc'[w].job = j PROVE Held(w, j)'
      BY DEF Held
    <3>3. proc'[w] = proc[w]
      BY <1>1, <2>1
    <3>4. ASSUME NEW q \in Procs
          PROVE  /\ q # w /\ proc'[q].job = j => proc'[q].at \notin Working \cup {"popen"}
                 /\ HasCopy(q, j)' => proc'[q].record.pid \in {0, w}
                 /\ proc'[q].at \in {"reload", "savePid"} /\ proc'[q].job = j => proc'[q].child = w
                 /\ proc'[q].at = "judge" /\ proc'[q].job = j /\ proc'[q].record.pid = 0 => j \notin late'
      BY <2>1, <2>2, <3>1, <3>2, <3>3 DEF Held, HasCopy, Working
    <3>5. QED BY <2>1, <3>1, <3>2, <3>3, <3>4 DEF Held
  <2>7. QED BY <2>3, <2>4, <2>5, <2>6 DEF Exclusive
<1>5. ASSUME (\E j \in Jobs : ThirtySeconds(j)) \/ (\E w \in Pids : Reap(w)) \/ UNCHANGED vars
      PROVE  Exclusive'
  <2>1. /\ UNCHANGED <<rec, lock, proc>>
        /\ UNCHANGED alive \/ \E u \in Pids : Reap(u)
        /\ UNCHANGED late \/ \E k \in Jobs : ThirtySeconds(k)
    BY <1>5 DEF ThirtySeconds, Reap, vars
  <2>2. QED BY <1>3, <2>1
<1>6. QED BY <1>2, <1>4, <1>5

\* Who declares a job over that he knows of: it has no worker, and no launch
\* about to start one, but his own.
LEMMA ClosesFits ==
  ASSUME Basic, Exclusive, NEW p \in Procs, NEW k \in Jobs, Knows(p, k), ~stolen', NEW s, s.status \in Terminal
  PROVE  Fits(p, k, s)
<1>1. /\ \A q \in Procs : proc[q].at = "popen" => q \in Calls
      /\ \A q \in Procs : proc[q].at \in Working => q \in Pids
  BY HolderFacts DEF Sound, CallPlaces, WorkerPlaces, Procs, Working
<1>2. ASSUME NEW q \in Procs, q # p, proc[q].job = k, proc[q].at \in {"popen"} \cup Working PROVE FALSE
  <2>1. CASE proc[p].at = "popen" /\ proc[p].job = k
    <3>1. Started(p, k)
      BY <1>1, <2>1 DEF Exclusive
    <3>2. QED BY <1>2, <2>1, <3>1 DEF Started, Runs, Launching
  <2>2. CASE proc[p].at \in Working /\ proc[p].job = k
    <3>1. Held(p, k)
      BY <1>1, <2>2 DEF Exclusive
    <3>2. QED BY <1>2, <2>2, <3>1 DEF Held
  <2>3. CASE HasCopy(p, k) /\ Dead(proc[p].record)
    <3>1. proc[p].record.pid # 0 /\ proc[p].record.pid \notin alive
      BY <2>3 DEF Dead
    <3>2. CASE proc[q].at = "popen"
      <4>1. Started(q, k)
        BY <1>1, <3>2 DEF Exclusive
      <4>2. QED BY <1>2, <2>3, <3>1, <3>2, <4>1 DEF Started
    <3>3. CASE proc[q].at \in Working
      <4>1. Held(q, k)
        BY <1>1, <3>3 DEF Exclusive
      <4>2. QED BY <1>2, <2>3, <3>1, <3>3, <4>1 DEF Held
    <3>4. QED BY <1>2, <3>2, <3>3
  <2>4. CASE proc[p].at = "judge" /\ proc[p].job = k /\ NeverLaunched(k, proc[p].record)
    <3>1. proc[p].record.pid = 0 /\ k \in late
      BY <2>4 DEF NeverLaunched
    <3>2. CASE proc[q].at = "popen"
      <4>1. Started(q, k)
        BY <1>1, <3>2 DEF Exclusive
      <4>2. QED BY <1>2, <3>1, <3>2, <4>1 DEF Started
    <3>3. CASE proc[q].at \in Working
      <4>1. Held(q, k)
        BY <1>1, <3>3 DEF Exclusive
      <4>2. QED BY <1>2, <2>4, <3>1, <3>3, <4>1 DEF Held
    <3>4. QED BY <1>2, <3>2, <3>3
  <2>5. QED BY <2>1, <2>2, <2>3, <2>4 DEF Knows, HasCopy
<1>3. QED BY <1>2 DEF Fits, Terminal, AtWorkPlaces, Working

\* The lock that is unlinked without being stolen has no holder.
LEMMA UnlinkedUnused ==
  ASSUME Basic, Exclusive, Unlink, ~stolen'
  PROVE  \A q \in Procs : proc[q].at \notin Holders
<1>1. ~InUse(lock)
  BY DEF Unlink
<1>2. ASSUME NEW q \in Procs, proc[q].at \in Holders PROVE FALSE
  <2>1. PICK j \in Jobs : j = proc[q].job
    BY <1>2, HolderFacts DEF Sound, Holders, Working
  <2>2. CASE proc[q].at \in {"write", "launch"}
    <3>1. q \in Calls
      BY <2>2, HolderFacts DEF Sound, WorkerPlaces, Procs
    <3>2. Acquired(q)
      BY <3>1 DEF Exclusive
    <3>3. QED BY <1>1, <2>2, <3>1, <3>2 DEF Acquired, InUse, At
  <2>3. CASE proc[q].at = "popen"
    <3>1. q \in Calls
      BY <2>3, HolderFacts DEF Sound, WorkerPlaces, Procs
    <3>2. Started(q, j)
      BY <3>1 DEF Exclusive
    <3>3. QED BY <1>1, <2>1, <2>3, <3>2 DEF Started, InUse, Terminal
  <2>4. CASE proc[q].at \in Working
    <3>1. q \in Pids
      BY <2>4, HolderFacts DEF Sound, CallPlaces, Procs, Working
    <3>2. Held(q, j)
      BY <3>1 DEF Exclusive
    <3>3. QED BY <1>1, <2>1, <2>4, <3>2 DEF Held, InUse, Terminal, Active
  <2>5. QED BY <1>2, <2>2, <2>3, <2>4 DEF Holders
<1>3. QED BY <1>2

LEMMA ExclusiveInit == Init => Exclusive
<1> SUFFICES ASSUME Init PROVE Exclusive
  OBVIOUS
<1>1. \A p \in Procs : proc[p].at = "idle"
  BY IdleType DEF Init
<1>2. Calls \subseteq Procs /\ Pids \subseteq Procs
  BY Apart
<1>3. QED
  BY <1>1, <1>2 DEF Exclusive, Acquired, Unlaunched, Started, Held, Runs, HasCopy, Launching, Working

LEMMA ExclusiveInductive ==
  ASSUME Basic, Exclusive, Stalls = FALSE, [Next]_vars, ~stolen', ~relaunched'
  PROVE  Exclusive'
<1>1. ASSUME NEW p \in Procs, NEW r \in Locals, Walks(p, r) PROVE Exclusive'
  BY <1>1, ExclusiveQuiet DEF Walks, Moves
<1>2. ASSUME NEW p \in Procs, NEW r \in Locals, Unlinks(p, r) PROVE Exclusive'
  <2>1. \A q \in Procs : proc[q].at \notin Holders
    BY <1>2, UnlinkedUnused DEF Unlinks
  <2>2. QED BY <1>2, <2>1, ExclusiveQuiet DEF Unlinks, Moves
<1>3. ASSUME NEW p \in Procs, NEW r \in Locals, NEW k \in Jobs, NEW s, Closes(p, r, k, s) PROVE Exclusive'
  <2>1. Fits(p, k, s)
    BY <1>3, ClosesFits DEF Closes
  <2>2. \E j \in Jobs : \E t : Replaced(j, t) /\ Fits(p, j, t)
    BY <1>3, <2>1 DEF Closes
  <2>3. QED BY <1>3, <2>2, ExclusiveQuiet DEF Closes, Moves
<1>4. ASSUME NEW p \in Procs, NEW r \in Locals, NEW k \in Jobs, NEW s, Tells(p, r, k, s) PROVE Exclusive'
  <2>1. s.status = "launching" /\ s.pid = proc[p].child /\ proc[p].at = "savePid" /\ proc[p].job = k
    BY <1>4 DEF Tells
  <2>2. ASSUME NEW q \in Procs, q # p, proc[q].job = k, proc[q].at = "popen" PROVE FALSE
    <3>1. q \in Calls
      BY <2>2, HolderFacts DEF Sound, WorkerPlaces, Procs
    <3>2. Started(q, k)
      BY <3>1 DEF Exclusive
    <3>3. QED BY <2>1, <2>2, <3>2 DEF Started, Runs, Launching
  <2>3. ASSUME NEW q \in Procs, q # p, proc[q].job = k, proc[q].at \in Working PROVE s.pid = q
    <3>1. q \in Pids
      BY <2>3, HolderFacts DEF Sound, CallPlaces, Procs, Working
    <3>2. Held(q, k)
      BY <3>1 DEF Exclusive
    <3>3. QED BY <2>1, <2>3, <3>2 DEF Held
  <2>4. Fits(p, k, s)
    BY <2>1, <2>2, <2>3 DEF Fits, Active, AtWorkPlaces, Working
  <2>5. \E j \in Jobs : \E t : Replaced(j, t) /\ Fits(p, j, t)
    BY <1>4, <2>4 DEF Tells
  <2>6. QED BY <1>4, <2>5, ExclusiveQuiet DEF Tells, Moves
<1>5. ASSUME NEW p \in Procs, NEW r \in Locals, NEW s, Works(p, r, s) PROVE Exclusive'
  <2>1. PICK k \in Jobs : k = r.job
    BY <1>5 DEF Works, Moves, Sound
  <2>2. /\ p \in Pids /\ Becomes(p, r) /\ proc[p].job = k /\ r.job = k /\ UNCHANGED <<lock, alive, late>>
        /\ proc[p].at \in {"begin", "next", "step"} /\ r.at \in AtWorkPlaces
        /\ \E t : Replaced(k, t) /\ t.status = "running" /\ t.pid = p
    BY <1>5, <2>1 DEF Works, Moves, AtWorkPlaces
  <2>3. QED BY <2>2, ExclusiveWorks
<1>6. ASSUME NEW p \in Procs, NEW r \in Locals, Loads(p, r) PROVE Exclusive'
  <2>1. PICK k \in Jobs : k = r.job
    BY <1>6 DEF Loads, Moves, Sound
  <2>2. /\ p \in Pids /\ Becomes(p, r) /\ proc[p].job = k /\ r.job = k /\ UNCHANGED <<lock, alive, late>>
        /\ proc[p].at = "load" /\ r.at = "begin" /\ UNCHANGED rec
    BY <1>6, <2>1 DEF Loads, Moves
  <2>3. QED BY <2>2, ExclusiveWorks
<1>7. QED
  BY <1>1, <1>2, <1>3, <1>4, <1>5, <1>6, Kinds, ExclusiveCopies, ExclusiveOpens, ExclusiveLaunches,
     ExclusiveStarts, ExclusiveEnvironment

\* Nothing undoes a theft or a second launch.
LEMMA HistoryStays ==
  ASSUME Basic, [Next]_vars
  PROVE  (stolen => stolen') /\ (relaunched => relaunched')
<1>1. ASSUME NEW p \in Procs, NEW r \in Locals, Moves(p, r), stolen' \in {stolen, TRUE} \/ Unlink
      PROVE  (stolen => stolen') /\ (relaunched => relaunched')
  <2>1. stolen => stolen'
    BY <1>1 DEF Unlink
  <2>2. UNCHANGED relaunched
    BY <1>1 DEF Moves
  <2>3. QED BY <2>1, <2>2
<1>2. ASSUME NEW p \in Procs, NEW r \in Locals,
             \/ Walks(p, r) \/ Unlinks(p, r) \/ Opens(p, r) \/ Writes(p, r) \/ Loads(p, r)
             \/ \E k \in Jobs : Copies(p, r, k)
             \/ \E k \in Jobs : \E s : Closes(p, r, k, s) \/ Tells(p, r, k, s)
             \/ \E s : Works(p, r, s)
      PROVE  (stolen => stolen') /\ (relaunched => relaunched')
  <2>1. Moves(p, r) /\ (stolen' \in {stolen, TRUE} \/ Unlink)
    BY <1>2 DEF Walks, Unlinks, Opens, Writes, Loads, Copies, Closes, Tells, Works
  <2>2. QED BY <1>1, <2>1
<1>3. ASSUME NEW p \in Procs, NEW r \in Locals,
             \/ \E s : Launches(p, r, s)
             \/ \E v \in Locals, w \in Pids : Starts(p, r, w, v)
      PROVE  (stolen => stolen') /\ (relaunched => relaunched')
  <2>1. UNCHANGED stolen
    BY <1>3 DEF Launches, Starts
  <2>2. UNCHANGED relaunched \/ \E s : Launches(p, r, s)
    BY <1>3 DEF Starts
  <2>3. relaunched => relaunched'
    BY <2>2 DEF Launches
  <2>4. QED BY <2>1, <2>3
<1>4. ASSUME \/ \E j \in Jobs : CreatePlan(j) \/ ThirtySeconds(j)
             \/ \E w \in Pids : Reap(w)
             \/ ApiDies
             \/ UNCHANGED vars
      PROVE  (stolen => stolen') /\ (relaunched => relaunched')
  BY <1>4 DEF CreatePlan, ThirtySeconds, Reap, ApiDies, vars, history
<1>5. QED BY <1>2, <1>3, <1>4, Kinds

\* A runtime has at most one worker at work, whatever threads, workers and
\* crashes interleave, unless an unlink took the lock of a job that is not over,
\* a launch failed once its worker had started, or a job was launched that had
\* been launched before (and provided no launch that has not died takes 30 s).
THEOREM OneActiveHolds == ASSUME Stalls = FALSE PROVE Spec => []OneActive
<1> DEFINE Inv == Basic /\ (stolen \/ relaunched \/ Exclusive)
<1>1. Init => Inv
  BY BasicInit, ExclusiveInit
<1>2. Inv /\ [Next]_vars => Inv'
  <2>1. SUFFICES ASSUME Inv, [Next]_vars PROVE Inv'
    OBVIOUS
  <2>2. Basic'
    BY <2>1, BasicInductive
  <2>3. (stolen \/ relaunched \/ Exclusive)'
    BY <2>1, HistoryStays, ExclusiveInductive
  <2>4. QED BY <2>2, <2>3
<1>3. Inv => OneActive
  <2>1. SUFFICES ASSUME Basic, Exclusive, NEW v \in Pids, NEW w \in Pids, AtWork(v), AtWork(w) PROVE v = w
    BY DEF OneActive
  <2>2. proc[v].job \in Jobs /\ proc[v].at \in Working /\ proc[w].job \in Jobs /\ proc[w].at \in Working
    BY <2>1, HolderFacts DEF Sound, AtWork, Working
  <2>3. Held(v, proc[v].job) /\ Held(w, proc[w].job)
    BY <2>1, <2>2 DEF Exclusive
  <2>4. proc[v].job = proc[w].job
    BY <2>2, <2>3 DEF Held
  <2>5. QED BY <2>1, <2>2, <2>3, <2>4, HolderFacts DEF Held
<1>4. QED BY <1>1, <1>2, <1>3, PTL DEF Spec

==============================================================================
