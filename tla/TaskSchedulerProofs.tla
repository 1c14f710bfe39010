------------------------ MODULE TaskSchedulerProofs ------------------------
(***************************************************************************)
(* The safety of the task scheduler for any number of tasks, executions,   *)
(* requests and restarts.  The actions fall into a few kinds of step: one  *)
(* that leaves the executions alone, one that spawns executions, one that  *)
(* moves an execution on, one that ends it.  The inductive invariant is    *)
(* shown once for each kind, and each action is shown to be of its kind.   *)
(***************************************************************************)
EXTENDS TaskScheduler, TLAPS

\* What an execution's flags say of it.
ExecInv ==
  \A e \in Execs :
    /\ phase[e] = "free" <=> task[e] = NoTask
    /\ phase[e] \in {"free", "chained"} => e \notin forced /\ e \notin triggered
    /\ e \in triggered => e \notin forced /\ task[e] \in EventTasks
    /\ e \in forced => task[e] \in overridden

\* A task nobody stopped has at most one execution in flight, and is in
\* _executing as long as it has one.
FlightInv ==
  \A t \in Tasks \ stopped :
    /\ ~Overlap(t)
    /\ \A e \in Execs \ forced : Live(e) /\ task[e] = t => t \in executing

\* A row says "running" only once its run has started, and "queued" no more.
RowInv ==
  \A e \in Execs :
    /\ phase[e] = "body" => row[e] # "queued"
    /\ phase[e] \in {"slot", "gate"} => row[e] # "running"

IInv ==
  /\ StateType /\ ExecInv /\ RowInv /\ SlotIsOwned /\ NoPhantomRuns
  /\ MembershipIsReleased /\ FlightInv /\ TriggerSurvives

-----------------------------------------------------------------------------
(* The kinds of step. *)

\* The executions stay where they are; rows may only be closed, and a trigger
\* may only be withdrawn from a task that is forbidden or has a schedule.
Steady ==
  /\ UNCHANGED <<up, phase, task, forced, triggered, executing, holder, stopped, overridden>>
  /\ \A e \in Execs : row'[e] = row[e] \/ row'[e] \notin Active
  /\ \A t \in Tasks : next'[t] = "none" =>
       next[t] = "none" \/ t \in Forbidden \/ t \notin EventTasks

\* Execution e moves on to phase p.
Moved(e, p) ==
  /\ p \in Started /\ phase[e] \notin {"free", "body"}
  /\ phase' = [phase EXCEPT ![e] = p]
  /\ phase[e] = "chained" => task[e] \notin executing
  /\ executing' = IF phase[e] = "chained" THEN executing \cup {task[e]} ELSE executing
  /\ \A d \in Execs : d # e => row'[d] = row[d]
  /\ holder' # holder => holder = NoExec /\ holder' = e
  /\ holder' = e => p # "slot"
  /\ p # "slot" /\ NeedsSlot(e) => holder' = e
  /\ p = "body" => row'[e] # "queued"
  /\ p # "body" => row'[e] # "running"
  /\ UNCHANGED <<up, task, forced, triggered, next, stopped, overridden>>

\* Execution e ends; it may leave a chained one behind.
Left(e) ==
  /\ phase[e] # "free"
  /\ phase[e] = "chained" => task[e] \notin executing
  /\ executing' = IF e \in forced THEN executing ELSE executing \ {task[e]}
  /\ holder' = IF holder = e THEN NoExec ELSE holder
  /\ forced' = forced \ {e} /\ triggered' = triggered \ {e}
  /\ phase'[e] = "free" /\ task'[e] = NoTask
  /\ \A d \in Execs : d # e =>
       \/ phase'[d] = phase[d] /\ task'[d] = task[d]
       \/ phase[d] = "free" /\ phase'[d] = "chained" /\ task'[d] \in Tasks
  /\ row'[e] \notin Active
  /\ \A d \in Execs : d # e => row'[d] = row[d]
  /\ \A t \in Tasks : next'[t] = "none" =>
       next[t] = "none" \/ t \in Forbidden \/ (phase[e] = "body" /\ t = task[e])
  /\ UNCHANGED <<up, stopped, overridden>>

\* New executions, one for each task of ts.
Spawned(ts) ==
  /\ ts \subseteq Tasks
  /\ \E id \in [ts -> Execs] : Spawn(ts, "created", id)
  /\ UNCHANGED <<up, row, holder, stopped>>
  /\ \A t \in Tasks : next'[t] = "none" => next[t] = "none"

-----------------------------------------------------------------------------
(* Each kind of step keeps the invariant. *)

LEMMA SteadyKeeps ==
  ASSUME IInv, Steady, StateType' PROVE IInv'
<1> USE DEF Started
<1>1. ExecInv'
  BY DEF IInv, Steady, ExecInv
<1>2. SlotIsOwned'
  BY DEF IInv, Steady, SlotIsOwned, NeedsSlot
<1>3. NoPhantomRuns'
  BY DEF IInv, Steady, NoPhantomRuns
<1>4. MembershipIsReleased'
  BY DEF IInv, Steady, MembershipIsReleased, Live
<1>5. FlightInv'
  BY DEF IInv, Steady, FlightInv, Overlap, Live
<1>6. TriggerSurvives'
  <2> SUFFICES ASSUME NEW e \in triggered, Queued(e)', next'[task[e]] = "none",
                      task[e] \notin stopped \cup overridden \cup Forbidden
               PROVE  FALSE
    BY DEF Steady, TriggerSurvives
  <2>1. e \in Execs /\ task[e] \in EventTasks
    BY DEF IInv, StateType, ExecInv
  <2>2. next[task[e]] = "none"
    BY <2>1, ConstantsAssumption DEF Steady
  <2> QED
    BY <2>2 DEF IInv, TriggerSurvives, Steady, Queued
<1>r. RowInv'
  BY DEF IInv, Steady, RowInv, Active
<1> QED
  BY <1>r, <1>1, <1>2, <1>3, <1>4, <1>5, <1>6 DEF IInv

LEMMA MovedKeeps ==
  ASSUME IInv, NEW e \in Execs, NEW p, Moved(e, p), StateType' PROVE IInv'
<1> USE DEF Started
<1>0. phase'[e] = p /\ \A d \in Execs : d # e => phase'[d] = phase[d]
  BY DEF Moved, IInv, StateType
<1>a. task[e] \in Tasks
  BY DEF Moved, IInv, StateType, ExecInv
<1>1. ExecInv'
  BY <1>0, ConstantsAssumption DEF IInv, Moved, ExecInv
<1>2. SlotIsOwned'
  <2>1. holder' # NoExec => phase'[holder'] \in {"gate", "body"}
    BY <1>0 DEF IInv, Moved, SlotIsOwned, StateType
  <2>2. ASSUME NEW d \in Execs, phase'[d] \in {"gate", "body"}, NeedsSlot(d)
        PROVE  holder' = d
    <3>1. CASE d = e
      BY <3>1, <2>2, <1>0 DEF Moved
    <3>2. CASE d # e
      <4>1. holder = d
        BY <3>2, <2>2, <1>0 DEF IInv, SlotIsOwned, NeedsSlot
      <4> QED
        BY <4>1, <3>2, ConstantsAssumption DEF Moved
    <3> QED
      BY <3>1, <3>2
  <2>3. \A d \in Execs : NeedsSlot(d)' <=> NeedsSlot(d)
    BY DEF Moved, NeedsSlot
  <2> QED
    BY <2>1, <2>2, <2>3 DEF SlotIsOwned, NeedsSlot
<1>3. NoPhantomRuns'
  BY <1>0 DEF IInv, Moved, NoPhantomRuns
<1>4. MembershipIsReleased'
  <2> SUFFICES ASSUME NEW t \in executing'
               PROVE  \E d \in Execs \ forced : task[d] = t /\ Live(d)'
    BY DEF Moved, MembershipIsReleased
  <2>1. Live(e)'
    BY <1>0 DEF Moved, Live
  <2>2. CASE t \in executing
    <3>1. PICK d \in Execs \ forced : task[d] = t /\ Live(d)
      BY <2>2 DEF IInv, MembershipIsReleased
    <3> QED
      BY <3>1, <2>1, <1>0 DEF Live
  <2>3. CASE t \notin executing
    <3>1. t = task[e] /\ phase[e] = "chained"
      BY <2>3 DEF Moved
    <3>2. e \notin forced
      BY <3>1 DEF IInv, ExecInv
    <3> QED
      BY <3>1, <3>2, <2>1
  <2> QED
    BY <2>2, <2>3
<1>5. FlightInv'
  <2> SUFFICES ASSUME NEW t \in Tasks \ stopped
               PROVE  /\ ~Overlap(t)'
                      /\ \A d \in Execs \ forced : Live(d)' /\ task[d] = t => t \in executing'
    BY DEF FlightInv, Moved
  <2>1. \A d \in Execs : d # e => (Live(d)' <=> Live(d))
    BY <1>0 DEF Live
  <2>2. phase[e] # "chained" => Live(e)
    BY DEF Moved, IInv, StateType, Phases, Live
  <2>3. \A d \in Execs \ forced : Live(d) /\ task[d] = t => t \in executing
    BY DEF IInv, FlightInv
  <2>4. ~Overlap(t)
    BY DEF IInv, FlightInv
  <2>5. \A d \in Execs \ forced : Live(d)' /\ task[d] = t => t \in executing'
    BY <2>1, <2>2, <2>3 DEF Moved
  <2>6. ~Overlap(t)'
    <3>1. CASE phase[e] = "chained"
      BY <3>1, <2>1, <2>3, <2>4 DEF Moved, Overlap
    <3>2. CASE phase[e] # "chained"
      BY <3>2, <2>1, <2>2, <2>4 DEF Moved, Overlap
    <3> QED
      BY <3>1, <3>2
  <2> QED
    BY <2>5, <2>6
<1>6. TriggerSurvives'
  <2>1. \A d \in triggered : d \in Execs /\ (Queued(d)' => Queued(d))
    <3>1. phase[e] = "chained" => e \notin triggered
      BY DEF IInv, ExecInv
    <3>2. \A d \in triggered : d \in Execs
      BY DEF IInv, StateType
    <3>3. ASSUME e \in triggered, Queued(e)' PROVE Queued(e)
      BY <3>3, <3>1, <1>0 DEF Moved, Queued, IInv, StateType, Phases
    <3> QED
      BY <3>2, <3>3, <1>0 DEF Queued
  <2> QED
    BY <2>1 DEF IInv, TriggerSurvives, Moved
<1>r. RowInv'
  BY <1>0 DEF IInv, Moved, RowInv
<1> QED
  BY <1>r, <1>1, <1>2, <1>3, <1>4, <1>5, <1>6 DEF IInv

LEMMA LeftKeeps ==
  ASSUME IInv, NEW e \in Execs, Left(e), StateType' PROVE IInv'
<1> USE DEF Started
<1>a. task[e] \in Tasks
  BY DEF Left, IInv, StateType, ExecInv
<1>1. ExecInv'
  <2> SUFFICES ASSUME NEW d \in Execs
               PROVE  /\ phase'[d] = "free" <=> task'[d] = NoTask
                      /\ phase'[d] \in {"free", "chained"} => d \notin forced' /\ d \notin triggered'
                      /\ d \in triggered' => d \notin forced' /\ task'[d] \in EventTasks
                      /\ d \in forced' => task'[d] \in overridden'
    BY DEF ExecInv
  <2>1. CASE d = e
    BY <2>1 DEF Left
  <2>2. CASE d # e
    BY <2>2, ConstantsAssumption DEF Left, IInv, ExecInv
  <2> QED
    BY <2>1, <2>2
<1>2. SlotIsOwned'
  <2>1. holder' # NoExec => phase'[holder'] \in {"gate", "body"}
    BY DEF Left, IInv, SlotIsOwned, StateType
  <2>2. ASSUME NEW d \in Execs, phase'[d] \in {"gate", "body"}, d \notin forced', task'[d] \in ModelTasks
        PROVE  holder' = d
    <3>1. d # e
      BY <2>2 DEF Left
    <3>2. phase[d] = phase'[d] /\ task[d] = task'[d] /\ d \notin forced
      BY <3>1, <2>2 DEF Left
    <3>3. holder = d
      BY <3>2, <2>2 DEF IInv, SlotIsOwned, NeedsSlot
    <3> QED
      BY <3>1, <3>3 DEF Left
  <2> QED
    BY <2>1, <2>2 DEF SlotIsOwned, NeedsSlot
<1>3. NoPhantomRuns'
  BY DEF IInv, Left, NoPhantomRuns
<1>4. MembershipIsReleased'
  <2> SUFFICES ASSUME NEW t \in executing'
               PROVE  \E d \in Execs \ forced' : task'[d] = t /\ Live(d)'
    BY DEF MembershipIsReleased
  <2>1. PICK d \in Execs \ forced : task[d] = t /\ Live(d)
    BY DEF Left, IInv, MembershipIsReleased
  <2>2. d # e
    BY <2>1 DEF Left
  <2> QED
    BY <2>1, <2>2 DEF Left, Live
<1>b. \A d \in Execs : Live(d)' => d # e /\ Live(d) /\ task'[d] = task[d]
  BY DEF Left, Live
<1>c. \A d \in Execs : d # e => (d \in forced' <=> d \in forced)
  BY DEF Left
<1>5. FlightInv'
  <2> SUFFICES ASSUME NEW t \in Tasks \ stopped
               PROVE  /\ ~Overlap(t)'
                      /\ \A d \in Execs \ forced' : Live(d)' /\ task'[d] = t => t \in executing'
    BY DEF FlightInv, Left
  <2>1. ~Overlap(t)'
    BY <1>b, <1>c DEF IInv, FlightInv, Overlap
  <2>2. ASSUME NEW d \in Execs \ forced', Live(d)', task'[d] = t
        PROVE  t \in executing'
    <3>1. d # e /\ Live(d) /\ task[d] = t /\ d \notin forced
      BY <2>2, <1>b, <1>c
    <3>2. t \in executing
      BY <3>1 DEF IInv, FlightInv
    <3>3. CASE e \in forced \/ task[e] # t
      BY <3>2, <3>3 DEF Left
    <3>4. CASE e \notin forced /\ task[e] = t
      <4>1. Live(e)
        BY <3>2, <3>4 DEF Left, IInv, StateType, Phases, Live
      <4>2. Overlap(t)
        BY <3>1, <3>4, <4>1 DEF Overlap
      <4> QED
        BY <4>2 DEF IInv, FlightInv
    <3> QED
      BY <3>3, <3>4
  <2> QED
    BY <2>1, <2>2
<1>6. TriggerSurvives'
  <2> SUFFICES ASSUME NEW d \in triggered', Queued(d)', next'[task'[d]] = "none",
                      task'[d] \notin stopped \cup overridden \cup Forbidden
               PROVE  FALSE
    BY DEF Left, TriggerSurvives
  <2>1. d \in Execs /\ d # e /\ d \in triggered
    BY DEF Left, IInv, StateType
  <2>2. phase'[d] = phase[d] /\ task'[d] = task[d]
    BY <2>1 DEF Left, Queued
  <2>3. task[d] \in Tasks /\ d \notin forced /\ Queued(d)
    BY <2>1, <2>2, ConstantsAssumption DEF IInv, ExecInv, Queued
  <2>4. CASE next[task[d]] = "none"
    BY <2>1, <2>2, <2>3, <2>4 DEF IInv, TriggerSurvives
  <2>5. CASE phase[e] = "body" /\ task[d] = task[e]
    <3>1. e \notin forced
      BY <2>2, <2>5 DEF IInv, ExecInv
    <3>2. Overlap(task[d])
      BY <2>1, <2>3, <2>5, <3>1 DEF Overlap, Live, Queued
    <3> QED
      BY <2>2, <2>3, <3>2 DEF IInv, FlightInv
  <2> QED
    BY <2>2, <2>3, <2>4, <2>5 DEF Left
<1>r. RowInv'
  BY DEF IInv, Left, RowInv
<1> QED
  BY <1>r, <1>1, <1>2, <1>3, <1>4, <1>5, <1>6 DEF IInv

\* A dispatch that enters its tasks in _executing.
LEMMA DispatchKeeps ==
  ASSUME IInv, NEW ts \in SUBSET Tasks, Spawned(ts), StateType',
         executing' = executing \cup ts, ts \cap executing = {},
         UNCHANGED <<forced, overridden>>,
         triggered \subseteq triggered',
         \A e \in Execs : e \in triggered' \ triggered =>
            /\ phase[e] = "free" /\ phase'[e] = "created"
            /\ task'[e] \in EventTasks /\ next'[task'[e]] # "none"
  PROVE  IInv'
<1> USE DEF Started
<1>0. PICK id \in [ts -> Execs] : Spawn(ts, "created", id)
  BY DEF Spawned
<1>s. /\ \A t \in ts : phase[id[t]] = "free" /\ phase'[id[t]] = "created" /\ task'[id[t]] = t
      /\ \A e \in Execs : (\A t \in ts : id[t] # e) => phase'[e] = phase[e] /\ task'[e] = task[e]
      /\ \A t, u \in ts : t # u => id[t] # id[u]
  <2>1. \A t \in ts : phase'[id[t]] = "created" /\ phase[id[t]] = "free"
    BY <1>0 DEF Spawn
  <2>2. ASSUME NEW t \in ts PROVE task'[id[t]] = t
    <3>1. PICK e \in Execs : e = id[t]
      OBVIOUS
    <3>2. \A u \in ts : id[u] = e <=> u = t
      BY <1>0, <3>1 DEF Spawn
    <3>3. (CHOOSE u \in ts : id[u] = e) = t
      BY <3>2
    <3>4. task'[e] = CHOOSE u \in ts : id[u] = e
      BY <1>0, <3>1 DEF Spawn
    <3> QED
      BY <3>1, <3>3, <3>4
  <2> QED
    BY <1>0, <2>1, <2>2 DEF Spawn
<1>k. \A e \in Execs :
        \/ phase'[e] = phase[e] /\ task'[e] = task[e]
        \/ phase[e] = "free" /\ phase'[e] = "created" /\ task'[e] \in ts /\ id[task'[e]] = e
  BY <1>s
<1>1. ExecInv'
  BY <1>k, ConstantsAssumption DEF IInv, ExecInv
<1>2. SlotIsOwned'
  <2>1. holder # NoExec => phase'[holder] \in {"gate", "body"}
    BY <1>k DEF IInv, SlotIsOwned, StateType
  <2>2. \A e \in Execs : phase'[e] \in {"gate", "body"} => phase[e] = phase'[e] /\ task[e] = task'[e]
    BY <1>k
  <2> QED
    BY <2>1, <2>2 DEF IInv, SlotIsOwned, NeedsSlot, Spawned
<1>3. NoPhantomRuns'
  BY <1>k DEF IInv, NoPhantomRuns, Spawned
<1>4. MembershipIsReleased'
  <2> SUFFICES ASSUME NEW t \in executing'
               PROVE  \E d \in Execs \ forced : task'[d] = t /\ Live(d)'
    BY DEF MembershipIsReleased
  <2>1. CASE t \in ts
    <3>1. id[t] \in Execs /\ phase[id[t]] = "free" /\ phase'[id[t]] = "created" /\ task'[id[t]] = t
      BY <2>1, <1>s
    <3>2. id[t] \notin forced
      BY <3>1 DEF IInv, ExecInv
    <3> QED
      BY <3>1, <3>2 DEF Live
  <2>2. CASE t \in executing
    <3>1. PICK d \in Execs \ forced : task[d] = t /\ Live(d)
      BY <2>2 DEF IInv, MembershipIsReleased
    <3> QED
      BY <3>1, <1>k DEF Live
  <2> QED
    BY <2>1, <2>2
<1>5. FlightInv'
  <2> SUFFICES ASSUME NEW t \in Tasks \ stopped
               PROVE  /\ ~Overlap(t)'
                      /\ \A d \in Execs \ forced : Live(d)' /\ task'[d] = t => t \in executing'
    BY DEF FlightInv, Spawned
  <2>1. \A d \in Execs : Live(d)' =>
          \/ Live(d) /\ task'[d] = task[d]
          \/ task'[d] \in ts /\ id[task'[d]] = d
    BY <1>k DEF Live
  <2>2. \A d \in Execs \ forced : Live(d) /\ task[d] = t => t \in executing
    BY DEF IInv, FlightInv
  <2>3. ~Overlap(t)
    BY DEF IInv, FlightInv
  <2>4. ~Overlap(t)'
    BY <2>1, <2>2, <2>3 DEF Overlap
  <2> QED
    BY <2>1, <2>2, <2>4
<1>6. TriggerSurvives'
  <2> SUFFICES ASSUME NEW d \in triggered', Queued(d)', next'[task'[d]] = "none",
                      task'[d] \notin stopped \cup overridden \cup Forbidden
               PROVE  FALSE
    BY DEF Spawned, TriggerSurvives
  <2>1. d \in Execs
    BY DEF StateType
  <2>2. d \in triggered
    BY <2>1
  <2>3. phase[d] # "free" /\ task[d] \in Tasks
    BY <2>1, <2>2, ConstantsAssumption DEF IInv, ExecInv
  <2>4. phase'[d] = phase[d] /\ task'[d] = task[d]
    BY <2>1, <2>3, <1>k
  <2>5. next[task[d]] = "none"
    BY <2>3, <2>4 DEF Spawned
  <2> QED
    BY <2>2, <2>4, <2>5 DEF IInv, TriggerSurvives, Queued
<1>r. RowInv'
  BY <1>k DEF IInv, Spawned, RowInv
<1> QED
  BY <1>r, <1>1, <1>2, <1>3, <1>4, <1>5, <1>6 DEF IInv

LEMMA ForceKeeps ==
  ASSUME IInv, NEW t \in Tasks, ForceTask(t), StateType' PROVE IInv'
<1> USE DEF Started
<1>1. PICK e \in Execs : Spawn({t}, "created", [x \in {t} |-> e]) /\ forced' = forced \cup {e}
  BY DEF ForceTask
<1>2. /\ phase[e] = "free" /\ phase'[e] = "created" /\ task'[e] = t
      /\ \A d \in Execs : d # e => phase'[d] = phase[d] /\ task'[d] = task[d]
  BY <1>1 DEF Spawn
<1>3. UNCHANGED <<up, next, row, executing, holder, triggered, stopped>> /\ overridden' = overridden \cup {t}
  BY DEF ForceTask, taskVars, rowVars, memVars
<1>a. e \notin forced /\ e \notin triggered
  BY <1>2 DEF IInv, ExecInv
<1>b. \A d \in Execs : (d \in Execs \ forced' /\ Live(d)') <=> (d \in Execs \ forced /\ Live(d))
  BY <1>1, <1>2 DEF Live
<1>c. \A d \in Execs \ forced' : task'[d] = task[d]
  BY <1>1, <1>2
<1>4. ExecInv'
  BY <1>1, <1>2, <1>3, <1>a, ConstantsAssumption DEF IInv, ExecInv
<1>5. SlotIsOwned'
  BY <1>1, <1>2, <1>3 DEF IInv, SlotIsOwned, NeedsSlot, StateType
<1>6. NoPhantomRuns'
  BY <1>2, <1>3 DEF IInv, NoPhantomRuns
<1>7. MembershipIsReleased'
  BY <1>b, <1>c, <1>3 DEF IInv, MembershipIsReleased
<1>8. FlightInv'
  BY <1>b, <1>c, <1>3 DEF IInv, FlightInv, Overlap
<1>9. TriggerSurvives'
  <2>1. \A d \in triggered : d \in Execs /\ d # e
    BY <1>a DEF IInv, StateType
  <2> QED
    BY <2>1, <1>2, <1>3 DEF IInv, TriggerSurvives, Queued
<1>r. RowInv'
  BY <1>2, <1>3 DEF IInv, RowInv
<1> QED
  BY <1>r, <1>4, <1>5, <1>6, <1>7, <1>8, <1>9 DEF IInv

LEMMA StopKeeps ==
  ASSUME IInv, NEW t \in Tasks, StopTask(t), StateType' PROVE IInv'
<1> USE DEF Started
<1>1. /\ UNCHANGED <<up, next, holder, phase, task, forced, triggered, overridden>>
      /\ executing' = executing \ {t} /\ stopped' = stopped \cup {t}
      /\ \A e \in Execs : row'[e] = row[e] \/ row'[e] = "aborted"
  BY DEF StopTask, taskVars
<1>2. ExecInv'
  BY <1>1 DEF IInv, ExecInv
<1>3. SlotIsOwned'
  BY <1>1 DEF IInv, SlotIsOwned, NeedsSlot
<1>4. NoPhantomRuns'
  BY <1>1 DEF IInv, NoPhantomRuns, Active
<1>5. MembershipIsReleased'
  BY <1>1 DEF IInv, MembershipIsReleased, Live
<1>6. FlightInv'
  BY <1>1 DEF IInv, FlightInv, Overlap, Live
<1>7. TriggerSurvives'
  BY <1>1 DEF IInv, TriggerSurvives, Queued
<1>r. RowInv'
  BY <1>1 DEF IInv, RowInv
<1> QED
  BY <1>r, <1>2, <1>3, <1>4, <1>5, <1>6, <1>7 DEF IInv

LEMMA CrashKeeps ==
  ASSUME IInv, Crash, StateType' PROVE IInv'
<1> USE DEF Crash
<1>1. ExecInv'
  BY ConstantsAssumption DEF ExecInv
<1>2. SlotIsOwned'
  BY DEF SlotIsOwned
<1>3. NoPhantomRuns'
  BY DEF NoPhantomRuns
<1>4. MembershipIsReleased'
  BY DEF MembershipIsReleased
<1>5. FlightInv'
  BY DEF FlightInv, Overlap, Live, Started
<1>6. TriggerSurvives'
  BY DEF TriggerSurvives
<1>r. RowInv'
  BY DEF RowInv
<1> QED
  BY <1>r, <1>1, <1>2, <1>3, <1>4, <1>5, <1>6 DEF IInv

LEMMA StartKeeps ==
  ASSUME IInv, Start, StateType' PROVE IInv'
<1> USE DEF Started
<1>1. /\ UNCHANGED <<holder, executing, phase, task, forced, triggered, stopped, overridden>>
      /\ \A e \in Execs : row'[e] \notin Active
      /\ \A t \in Tasks : next'[t] = "none" => next[t] = "none"
  BY DEF Start, memVars, execVars, handVars, Active
<1>2. ExecInv'
  BY <1>1 DEF IInv, ExecInv
<1>3. SlotIsOwned'
  BY <1>1 DEF IInv, SlotIsOwned, NeedsSlot
<1>4. NoPhantomRuns'
  BY <1>1 DEF NoPhantomRuns
<1>5. MembershipIsReleased'
  BY <1>1 DEF IInv, MembershipIsReleased, Live
<1>6. FlightInv'
  BY <1>1 DEF IInv, FlightInv, Overlap, Live
<1>7. TriggerSurvives'
  <2> SUFFICES ASSUME NEW e \in triggered, Queued(e), next'[task[e]] = "none",
                      task[e] \notin stopped \cup overridden \cup Forbidden
               PROVE  FALSE
    BY <1>1 DEF TriggerSurvives, Queued
  <2>1. task[e] \in Tasks
    BY ConstantsAssumption DEF IInv, StateType, ExecInv
  <2> QED
    BY <2>1, <1>1 DEF IInv, TriggerSurvives
<1>r. RowInv'
  BY <1>1 DEF RowInv, Active
<1> QED
  BY <1>r, <1>2, <1>3, <1>4, <1>5, <1>6, <1>7 DEF IInv

-----------------------------------------------------------------------------
(* The types. *)

\* Whoever acts through an identifier of an execution acts on a task.
LEMMA SpawnTypes ==
  ASSUME StateType, NEW ts \in SUBSET Tasks, Spawned(ts)
  PROVE  phase' \in [Execs -> Phases] /\ task' \in [Execs -> Tasks \cup {NoTask}]
<1>0. PICK id \in [ts -> Execs] : Spawn(ts, "created", id)
  BY DEF Spawned
<1>1. phase' \in [Execs -> Phases]
  BY <1>0 DEF Spawn, StateType, Phases
<1>2. task' = [e \in Execs |-> IF \E t \in ts : id[t] = e THEN CHOOSE t \in ts : id[t] = e ELSE task[e]]
  BY <1>0 DEF Spawn
<1>3. ASSUME NEW e \in Execs PROVE task'[e] \in Tasks \cup {NoTask}
  <2>1. CASE \E t \in ts : id[t] = e
    <3>1. (CHOOSE t \in ts : id[t] = e) \in ts
      BY <2>1
    <3> QED
      BY <2>1, <3>1, <1>2
  <2>2. CASE ~\E t \in ts : id[t] = e
    BY <2>2, <1>2 DEF StateType
  <2> QED
    BY <2>1, <2>2
<1> QED
  BY <1>1, <1>2, <1>3

-----------------------------------------------------------------------------
(* Every action is of one of the kinds. *)

LEMMA LiveHasTask ==
  ASSUME IInv, NEW e \in Execs, phase[e] # "free" PROVE task[e] \in Tasks
  BY DEF IInv, StateType, ExecInv

LEMMA GateKeeps ==
  ASSUME IInv, Gate PROVE IInv'
<1> USE DEF taskVars, rowVars, memVars, execVars, handVars
<1>1. StateType'
  BY DEF IInv, StateType, Gate, RequestStarts, RequestEnds, QuietPasses, StreamStarts, StreamEnds
<1>2. Steady
  BY DEF Steady, Gate, RequestStarts, RequestEnds, QuietPasses, StreamStarts, StreamEnds
<1> QED
  BY <1>1, <1>2, SteadyKeeps

LEMMA TimePassesKeeps ==
  ASSUME IInv, NEW t \in Tasks, TimePasses(t) PROVE IInv'
<1>1. StateType'
  BY DEF IInv, StateType, TimePasses, taskVars, rowVars, memVars, execVars, gateVars, handVars
<1>2. Steady
  BY DEF Steady, TimePasses, taskVars, rowVars, memVars, execVars, gateVars, handVars
<1> QED
  BY <1>1, <1>2, SteadyKeeps

LEMMA PauseTaskKeeps ==
  ASSUME IInv, NEW t \in Tasks, PauseTask(t) PROVE IInv'
<1>1. StateType'
  BY DEF IInv, StateType, PauseTask, taskVars, rowVars, memVars, execVars, gateVars, handVars
<1>2. Steady
  BY DEF Steady, PauseTask, taskVars, rowVars, memVars, execVars, gateVars, handVars
<1> QED
  BY <1>1, <1>2, SteadyKeeps

LEMMA ResumeTaskKeeps ==
  ASSUME IInv, NEW t \in Tasks, ResumeTask(t) PROVE IInv'
<1>1. StateType'
  BY DEF IInv, StateType, ResumeTask, taskVars, rowVars, memVars, execVars, gateVars, handVars, ComputeNextRun
<1>2. Steady
  BY DEF IInv, StateType, Steady, ResumeTask, taskVars, rowVars, memVars, execVars, gateVars, handVars, ComputeNextRun
<1> QED
  BY <1>1, <1>2, SteadyKeeps

LEMMA ForegroundMonitorKeeps ==
  ASSUME IInv, NEW e \in Execs, ForegroundMonitor(e) PROVE IInv'
<1>1. StateType'
  BY DEF IInv, StateType, ForegroundMonitor, taskVars, rowVars, memVars, execVars, gateVars, handVars
<1>2. Steady
  BY DEF Steady, ForegroundMonitor, taskVars, rowVars, memVars, execVars, gateVars, handVars
<1> QED
  BY <1>1, <1>2, SteadyKeeps

LEMMA StopBackgroundKeeps ==
  ASSUME IInv, StopBackground PROVE IInv'
<1>1. StateType'
  BY DEF IInv, StateType, StopBackground, taskVars, rowVars, memVars, execVars, gateVars, handVars, HandlesOf, Active, Final
<1>2. Steady
  BY DEF Steady, StopBackground, taskVars, rowVars, memVars, execVars, gateVars, handVars, HandlesOf, Active, Final
<1> QED
  BY <1>1, <1>2, SteadyKeeps

LEMMA CheckDueTasksKeeps ==
  ASSUME IInv, CheckDueTasks PROVE IInv'
<1> DEFINE due == {t \in Tasks : status[t] = "active" /\ next[t] = "due" /\ t \notin executing}
<1> HIDE DEF due
<1>0. due \in SUBSET Tasks /\ due \cap executing = {}
  BY DEF due
<1>1. UNCHANGED <<up, status, row, handle, holder, forced, triggered, cancelled, hit, stopped, overridden>>
  BY DEF CheckDueTasks, rowVars, handVars
<1>2. CASE Foreground
  <2>1. next' = [t \in Tasks |-> IF t \in due THEN "later" ELSE next[t]] /\ UNCHANGED <<executing, phase, task>>
    BY <1>2 DEF CheckDueTasks, due
  <2>2. StateType'
    BY <1>1, <2>1 DEF IInv, StateType
  <2>3. Steady
    BY <1>1, <2>1 DEF Steady
  <2> QED
    BY <2>2, <2>3, SteadyKeeps
<1>3. CASE ~Foreground
  <2>1. /\ executing' = executing \cup due /\ UNCHANGED next
        /\ \E id \in [due -> Execs] : Spawn(due, "created", id)
    BY <1>3 DEF CheckDueTasks, due
  <2>2. Spawned(due)
    BY <1>0, <1>1, <2>1 DEF Spawned
  <2>3. phase' \in [Execs -> Phases] /\ task' \in [Execs -> Tasks \cup {NoTask}]
    BY <1>0, <2>2, SpawnTypes DEF IInv
  <2>4. StateType'
    BY <1>0, <1>1, <2>1, <2>3 DEF IInv, StateType
  <2> QED
    BY <1>0, <1>1, <2>1, <2>2, <2>4, DispatchKeeps
<1> QED
  BY <1>2, <1>3

\* run_task_now behind the run route, a webhook or an event.
LEMMA DispatchOne ==
  ASSUME IInv, NEW t \in Tasks, t \notin executing, executing' = executing \cup {t},
         NEW e \in Execs, Spawn({t}, "created", [x \in {t} |-> e]),
         UNCHANGED <<up, status, row, handle, holder, forced, cancelled, hit, stopped, overridden>>,
         \/ UNCHANGED <<next, triggered>>
         \/ /\ t \in EventTasks /\ next' = [next EXCEPT ![t] = "due"]
            /\ triggered' = triggered \cup {e}
  PROVE  IInv'
<1>1. phase[e] = "free" /\ phase'[e] = "created" /\ task'[e] = t
  BY DEF Spawn
<1>2. Spawned({t})
  <2>1. [x \in {t} |-> e] \in [{t} -> Execs]
    OBVIOUS
  <2>2. \E id \in [{t} -> Execs] : Spawn({t}, "created", id)
    BY <2>1
  <2>3. \A u \in Tasks : next'[u] = "none" => next[u] = "none"
    BY DEF IInv, StateType
  <2> QED
    BY <2>2, <2>3 DEF Spawned
<1>3. phase' \in [Execs -> Phases] /\ task' \in [Execs -> Tasks \cup {NoTask}]
  BY <1>2, SpawnTypes DEF IInv
<1>4. StateType'
  BY <1>3 DEF IInv, StateType
<1>5. \A d \in Execs : d \in triggered' \ triggered =>
         /\ phase[d] = "free" /\ phase'[d] = "created"
         /\ task'[d] \in EventTasks /\ next'[task'[d]] # "none"
  BY <1>1 DEF IInv, StateType
<1>6. triggered \subseteq triggered'
  OBVIOUS
<1> QED
  BY <1>2, <1>4, <1>5, <1>6, DispatchKeeps

LEMMA RunTaskNowKeeps ==
  ASSUME IInv, NEW t \in Tasks, RunTaskNow(t) PROVE IInv'
<1>1. PICK e \in Execs : Spawn({t}, "created", [x \in {t} |-> e])
  BY DEF RunTaskNow
<1>2. /\ t \notin executing /\ executing' = executing \cup {t}
      /\ UNCHANGED <<up, status, row, handle, holder, forced, cancelled, hit, stopped, overridden, next, triggered>>
  BY DEF RunTaskNow, taskVars, rowVars, handVars
<1> QED
  BY <1>1, <1>2, DispatchOne

LEMMA WebhookKeeps ==
  ASSUME IInv, NEW t \in Tasks, WebhookTrigger(t) PROVE IInv'
<1>0. UNCHANGED <<up, row, handle, holder, forced, triggered, cancelled, hit, stopped, overridden>>
  BY DEF WebhookTrigger, rowVars, handVars
<1>1. CASE t \in Forbidden
  <2>1. StateType'
    BY <1>0, <1>1 DEF IInv, StateType, WebhookTrigger
  <2>2. Steady
    BY <1>0, <1>1 DEF IInv, StateType, Steady, WebhookTrigger
  <2> QED
    BY <2>1, <2>2, SteadyKeeps
<1>2. CASE t \notin Forbidden
  <2>1. PICK e \in Execs : Spawn({t}, "created", [x \in {t} |-> e])
    BY <1>2 DEF WebhookTrigger
  <2>2. t \notin executing /\ executing' = executing \cup {t} /\ UNCHANGED <<status, next>>
    BY <1>2 DEF WebhookTrigger
  <2> QED
    BY <1>0, <2>1, <2>2, DispatchOne
<1> QED
  BY <1>1, <1>2

LEMMA HandleEventKeeps ==
  ASSUME IInv, NEW t \in Tasks, HandleEvent(t) PROVE IInv'
<1>0. UNCHANGED <<up, status, row, handle, holder, forced, cancelled, hit, stopped, overridden>>
  BY DEF HandleEvent, rowVars, handVars
<1>1. CASE counter[t] + 1 >= Threshold /\ t \notin executing
  <2>1. PICK e \in Execs : Spawn({t}, "created", [x \in {t} |-> e]) /\ triggered' = triggered \cup {e}
    BY <1>1 DEF HandleEvent
  <2>2. executing' = executing \cup {t} /\ t \in EventTasks /\ next' = [next EXCEPT ![t] = "due"]
    BY <1>1 DEF HandleEvent
  <2> QED
    BY <1>0, <1>1, <2>1, <2>2, DispatchOne
<1>2. CASE ~(counter[t] + 1 >= Threshold /\ t \notin executing)
  <2>1. /\ UNCHANGED <<executing, phase, task, triggered>>
        /\ UNCHANGED next \/ next' = [next EXCEPT ![t] = "due"]
    BY <1>2 DEF HandleEvent
  <2>2. StateType'
    BY <1>0, <2>1 DEF IInv, StateType
  <2>3. Steady
    BY <1>0, <2>1 DEF Steady, IInv, StateType
  <2> QED
    BY <2>2, <2>3, SteadyKeeps
<1> QED
  BY <1>1, <1>2

LEMMA ForceTaskKeeps ==
  ASSUME IInv, NEW t \in Tasks, ForceTask(t) PROVE IInv'
<1>1. PICK e \in Execs : Spawn({t}, "created", [x \in {t} |-> e]) /\ forced' = forced \cup {e}
  BY DEF ForceTask
<1>2. phase' \in [Execs -> Phases] /\ task' \in [Execs -> Tasks \cup {NoTask}]
  <2>1. phase' = [phase EXCEPT ![e] = "created"] /\ task' = [task EXCEPT ![e] = t]
    BY <1>1 DEF Spawn, IInv, StateType
  <2> QED
    BY <2>1 DEF IInv, StateType, Phases
<1>3. StateType'
  BY <1>1, <1>2 DEF IInv, StateType, ForceTask, taskVars, rowVars, memVars
<1> QED
  BY <1>3, ForceKeeps

LEMMA StopTaskKeeps ==
  ASSUME IInv, NEW t \in Tasks, StopTask(t) PROVE IInv'
<1>1. StateType'
  BY DEF IInv, StateType, StopTask, taskVars, HandlesOf, Final
<1> QED
  BY <1>1, StopKeeps

\* The part of an ending that all endings share.
LEMMA EndingKeeps ==
  ASSUME IInv, NEW e \in Execs, phase[e] \in Started, Release(e), Freed(e),
         UNCHANGED <<up, stopped, overridden>>,
         status' \in [Tasks -> {"active", "paused", "completed"}],
         NEW r \in {"none"} \cup Final \cup Active, r \notin Active, row' = [row EXCEPT ![e] = r],
         NEW n \in {"none", "later", "due"}, next' = [next EXCEPT ![task[e]] = n],
         n = "none" => next[task[e]] = "none" \/ task[e] \in Forbidden \/ phase[e] = "body"
  PROVE  IInv'
<1>0. phase[e] # "free" /\ phase[e] # "chained" /\ task[e] \in Tasks
  BY LiveHasTask DEF Started
<1>1. StateType'
  BY <1>0 DEF IInv, StateType, Release, Freed, Phases
<1>2. /\ phase'[e] = "free" /\ task'[e] = NoTask
      /\ \A d \in Execs : d # e => phase'[d] = phase[d] /\ task'[d] = task[d]
      /\ row'[e] \notin Active
      /\ \A d \in Execs : d # e => row'[d] = row[d]
  BY DEF IInv, StateType, Freed
<1>3. \A t \in Tasks : next'[t] = "none" =>
        next[t] = "none" \/ t \in Forbidden \/ (phase[e] = "body" /\ t = task[e])
  <2> SUFFICES ASSUME NEW t \in Tasks, next'[t] = "none"
               PROVE  next[t] = "none" \/ t \in Forbidden \/ (phase[e] = "body" /\ t = task[e])
    OBVIOUS
  <2>1. CASE t = task[e]
    <3>1. n = "none"
      BY <2>1, <1>0 DEF IInv, StateType
    <3> QED
      BY <2>1, <3>1
  <2>2. CASE t # task[e]
    <3>1. next \in [Tasks -> {"none", "later", "due"}]
      BY DEF IInv, StateType
    <3>2. next'[t] = next[t]
      BY <2>2, <3>1
    <3> QED
      BY <3>2
  <2> QED
    BY <2>1, <2>2
<1>4. /\ executing' = IF e \in forced THEN executing ELSE executing \ {task[e]}
      /\ holder' = IF holder = e THEN NoExec ELSE holder
      /\ forced' = forced \ {e} /\ triggered' = triggered \ {e}
  BY DEF Release
<1>5. Left(e)
  BY <1>0, <1>2, <1>3, <1>4, Zenon DEF Left
<1> QED
  BY <1>1, <1>5, LeftKeeps

LEMMA NoopKeeps ==
  ASSUME IInv, NEW e \in Execs, Noop(e) PROVE IInv'
<1>0. /\ phase[e] \in Started /\ phase[e] = "body" /\ Release(e) /\ Freed(e)
      /\ UNCHANGED <<up, status, stopped, overridden>>
      /\ row' = [row EXCEPT ![e] = "skipped"]
  BY DEF Noop, BodyReturns, handVars, Started
<1>1. PICK n \in {"none", "later", "due"} : next' = [next EXCEPT ![task[e]] = n]
  BY DEF Noop, NextAfter, ComputeNextRun
<1>2. "skipped" \in Final /\ "skipped" \notin Active
  BY DEF Final, Active
<1>3. status' \in [Tasks -> {"active", "paused", "completed"}]
  BY <1>0 DEF IInv, StateType
<1> QED
  BY <1>0, <1>1, <1>2, <1>3, EndingKeeps

LEMMA DeferKeeps ==
  ASSUME IInv, NEW e \in Execs, Defer(e) PROVE IInv'
<1>0. /\ phase[e] \in Started /\ phase[e] = "body" /\ Release(e) /\ Freed(e)
      /\ UNCHANGED <<up, status, stopped, overridden>>
      /\ row' = [row EXCEPT ![e] = "none"]
      /\ next' = [next EXCEPT ![task[e]] = "later"]
  BY DEF Defer, BodyReturns, handVars, Started
<1>2. "none" \in {"none"} \cup Final \cup Active /\ "none" \notin Active
  BY DEF Active
<1>3. status' \in [Tasks -> {"active", "paused", "completed"}]
  BY <1>0 DEF IInv, StateType
<1> QED
  BY <1>0, <1>2, <1>3, EndingKeeps

LEMMA RaiseKeeps ==
  ASSUME IInv, NEW e \in Execs, Raise(e) PROVE IInv'
<1>0. /\ phase[e] \in Started /\ phase[e] = "body" /\ Release(e) /\ Freed(e)
      /\ UNCHANGED <<up, status, stopped, overridden>>
      /\ row' = [row EXCEPT ![e] = IF row[e] = "running" THEN "error" ELSE row[e]]
  BY DEF Raise, BodyReturns, handVars, Started
<1>a. task[e] \in Tasks
  BY <1>0, LiveHasTask
<1>1. PICK n \in {"none", "later", "due"} : next' = [next EXCEPT ![task[e]] = n]
  <2>1. CASE task[e] \in EventTasks
    <3>1. next' = [next EXCEPT ![task[e]] = next[task[e]]]
      BY <2>1 DEF Raise, IInv, StateType
    <3> QED
      BY <3>1, <1>a DEF IInv, StateType
  <2>2. CASE task[e] \notin EventTasks
    BY <2>2 DEF Raise, ComputeNextRun
  <2> QED
    BY <2>1, <2>2
<1>2. PICK r : r = IF row[e] = "running" THEN "error" ELSE row[e]
  OBVIOUS
<1>3. r \in {"none"} \cup Final \cup Active /\ row' = [row EXCEPT ![e] = r]
  BY <1>0, <1>2 DEF IInv, StateType, Final
<1>5. status' \in [Tasks -> {"active", "paused", "completed"}]
  BY <1>0 DEF IInv, StateType
<1>6. CASE r \notin Active
  BY <1>0, <1>1, <1>3, <1>5, <1>6, EndingKeeps
<1>7. CASE r \in Active
  <2>1. row[e] = "queued"
    BY <1>2, <1>7 DEF Active
  <2> QED
    BY <2>1, <1>0 DEF IInv, RowInv
<1> QED
  BY <1>6, <1>7

LEMMA CancelBodyKeeps ==
  ASSUME IInv, NEW e \in Execs, CancelBody(e) PROVE IInv'
<1>0. /\ phase[e] \in Started /\ phase[e] = "body" /\ Release(e) /\ Freed(e)
      /\ UNCHANGED <<up, status, stopped, overridden>>
      /\ row' = [row EXCEPT ![e] = "aborted"]
  BY DEF CancelBody, handVars, Started
<1>1. PICK n \in {"none", "later", "due"} : next' = [next EXCEPT ![task[e]] = n]
  BY DEF CancelBody, NextAfter, ComputeNextRun
<1>2. "aborted" \in Final /\ "aborted" \notin Active
  BY DEF Final, Active
<1>3. status' \in [Tasks -> {"active", "paused", "completed"}]
  BY <1>0 DEF IInv, StateType
<1> QED
  BY <1>0, <1>1, <1>2, <1>3, EndingKeeps

LEMMA CancelQueuedKeeps ==
  ASSUME IInv, NEW e \in Execs, CancelQueued(e) PROVE IInv'
<1>0. /\ phase[e] \in Started /\ Release(e) /\ Freed(e)
      /\ UNCHANGED <<up, status, stopped, overridden>>
      /\ row' = [row EXCEPT ![e] = IF row[e] \in Active THEN "aborted" ELSE row[e]]
      /\ next' = [next EXCEPT ![task[e]] =
                    IF status[task[e]] = "active" /\ next[task[e]] = "due" THEN "later" ELSE next[task[e]]]
  BY DEF CancelQueued, handVars, Started
<1>a. task[e] \in Tasks
  BY <1>0, LiveHasTask DEF Started
<1>1. PICK n : n = IF status[task[e]] = "active" /\ next[task[e]] = "due" THEN "later" ELSE next[task[e]]
  OBVIOUS
<1>2. PICK r : r = IF row[e] \in Active THEN "aborted" ELSE row[e]
  OBVIOUS
<1>3. /\ r \in {"none"} \cup Final \cup Active /\ r \notin Active
      /\ row' = [row EXCEPT ![e] = r]
  BY <1>0, <1>2 DEF IInv, StateType, Final, Active
<1>4. /\ n \in {"none", "later", "due"} /\ next' = [next EXCEPT ![task[e]] = n]
      /\ n = "none" => next[task[e]] = "none"
  BY <1>0, <1>1, <1>a DEF IInv, StateType
<1>5. status' \in [Tasks -> {"active", "paused", "completed"}]
  BY <1>0 DEF IInv, StateType
<1> QED
  BY <1>0, <1>3, <1>4, <1>5, EndingKeeps

LEMMA CompleteKeeps ==
  ASSUME IInv, NEW e \in Execs, Complete(e) PROVE IInv'
<1>0. /\ phase[e] = "body" /\ Release(e)
      /\ UNCHANGED <<up, stopped, overridden>>
  BY DEF Complete, BodyReturns, handVars
<1>a. task[e] \in Tasks
  BY <1>0, LiveHasTask
<1>1. PICK n \in {"none", "later"} :
        /\ next' = [next EXCEPT ![task[e]] = n]
        /\ status' = [status EXCEPT ![task[e]] =
                        IF task[e] \in OnceTasks /\ n = "none" THEN "completed" ELSE @]
  BY DEF Complete, NextAfter, ComputeNextRun
<1>2. status' \in [Tasks -> {"active", "paused", "completed"}] /\ next' \in [Tasks -> {"none", "later", "due"}]
  BY <1>1, <1>a DEF IInv, StateType
<1>3. PICK r \in {"error", "success"} : row' = [row EXCEPT ![e] = r]
  BY DEF Complete
<1>4. /\ phase' \in [Execs -> Phases] /\ task' \in [Execs -> Tasks \cup {NoTask}]
      /\ phase'[e] = "free" /\ task'[e] = NoTask
      /\ \A d \in Execs : d # e =>
           \/ phase'[d] = phase[d] /\ task'[d] = task[d]
           \/ phase[d] = "free" /\ phase'[d] = "chained" /\ task'[d] \in Tasks
  <2>1. CASE Freed(e)
    BY <2>1 DEF Freed, IInv, StateType, Phases
  <2>2. CASE \E u \in ChainTarget(task[e]), c \in Execs \ {e} :
                /\ phase[c] = "free"
                /\ phase' = [phase EXCEPT ![e] = "free", ![c] = "chained"]
                /\ task' = [task EXCEPT ![e] = NoTask, ![c] = u]
    <3>1. PICK u \in ChainTarget(task[e]), c \in Execs \ {e} :
                /\ phase[c] = "free"
                /\ phase' = [phase EXCEPT ![e] = "free", ![c] = "chained"]
                /\ task' = [task EXCEPT ![e] = NoTask, ![c] = u]
      BY <2>2
    <3>2. u \in Tasks
      BY <1>a, ConstantsAssumption DEF ChainTarget
    <3> QED
      BY <3>1, <3>2 DEF IInv, StateType, Phases
  <2> QED
    BY <2>1, <2>2 DEF Complete
<1>5. StateType'
  BY <1>0, <1>2, <1>3, <1>4 DEF IInv, StateType, Release, Final
<1>6. row'[e] \notin Active /\ \A d \in Execs : d # e => row'[d] = row[d]
  BY <1>3 DEF IInv, StateType, Active
<1>7. \A t \in Tasks : next'[t] = "none" =>
        next[t] = "none" \/ t \in Forbidden \/ (phase[e] = "body" /\ t = task[e])
  BY <1>0, <1>1 DEF IInv, StateType
<1>b. /\ executing' = IF e \in forced THEN executing ELSE executing \ {task[e]}
      /\ holder' = IF holder = e THEN NoExec ELSE holder
      /\ forced' = forced \ {e} /\ triggered' = triggered \ {e}
  BY <1>0 DEF Release
<1>c. phase[e] # "free" /\ phase[e] # "chained"
  BY <1>0
<1>8. Left(e)
  BY <1>0, <1>4, <1>6, <1>7, <1>b, <1>c, Zenon DEF Left
<1> QED
  BY <1>5, <1>8, LeftKeeps

\* An execution that is refused at the door ends; e is queued or just begins.
LEMMA RefusedKeeps ==
  ASSUME IInv, NEW e \in Execs, phase[e] # "free",
         NEW r \in {"none"} \cup Final \cup {"queued"}, Refused(e, r),
         phase[e] = "chained" => task[e] \notin executing,
         executing' = IF e \in forced THEN executing ELSE executing \ {task[e]},
         holder' = IF holder = e THEN NoExec ELSE holder,
         forced' = forced \ {e}, triggered' = triggered \ {e},
         handle' \in [Tasks -> Execs \cup {NoExec}], cancelled' \subseteq Execs, hit' \subseteq Execs,
         UNCHANGED <<up, stopped, overridden>>
  PROVE  IInv'
<1>0. task[e] \in Tasks
  BY LiveHasTask
<1>1. PICK q : q \in {"none"} \cup Final /\ row' = [row EXCEPT ![e] = q]
  <2>1. (IF r = "queued" THEN "skipped" ELSE r) \in {"none"} \cup Final
    BY DEF Final
  <2>2. "error" \in Final
    BY DEF Final
  <2> QED
    BY <2>1, <2>2 DEF Refused
<1>2. /\ status' \in [Tasks -> {"active", "paused", "completed"}]
      /\ next' \in [Tasks -> {"none", "later", "due"}]
      /\ \A t \in Tasks : next'[t] = "none" => next[t] = "none" \/ t \in Forbidden
  BY <1>0 DEF Refused, IInv, StateType
<1>3. /\ phase' \in [Execs -> Phases] /\ task' \in [Execs -> Tasks \cup {NoTask}]
      /\ phase'[e] = "free" /\ task'[e] = NoTask
      /\ \A d \in Execs : d # e => phase'[d] = phase[d] /\ task'[d] = task[d]
  BY DEF Refused, Freed, IInv, StateType, Phases
<1>4. row'[e] \notin Active /\ \A d \in Execs : d # e => row'[d] = row[d]
  BY <1>1 DEF IInv, StateType, Active, Final
<1>5. StateType'
  BY <1>1, <1>2, <1>3 DEF IInv, StateType
<1>6. \A t \in Tasks : next'[t] = "none" =>
        next[t] = "none" \/ t \in Forbidden \/ (phase[e] = "body" /\ t = task[e])
  BY <1>2
<1>7. \A d \in Execs : d # e =>
        \/ phase'[d] = phase[d] /\ task'[d] = task[d]
        \/ phase[d] = "free" /\ phase'[d] = "chained" /\ task'[d] \in Tasks
  BY <1>3
<1>8. Left(e)
  BY <1>3, <1>4, <1>6, <1>7, Zenon DEF Left
<1> QED
  BY <1>5, <1>8, LeftKeeps

LEMMA AdmittedMoves ==
  ASSUME IInv, NEW e \in Execs, phase[e] \notin {"free", "body"},
         NEW r \in {"none"} \cup Final \cup {"queued"}, Admitted(e, r),
         phase[e] = "chained" => task[e] \notin executing,
         executing' = IF phase[e] = "chained" THEN executing \cup {task[e]} ELSE executing,
         handle' \in [Tasks -> Execs \cup {NoExec}],
         NeedsSlot(e) => holder = NoExec, holder # e,
         UNCHANGED <<up, stopped, overridden>>
  PROVE  IInv'
<1>0. task[e] \in Tasks
  BY LiveHasTask
<1>1. PICK p : p = IF e \in forced THEN "body" ELSE "gate"
  OBVIOUS
<1>2. PICK q : q = IF e \in forced THEN "running" ELSE r
  OBVIOUS
<1>3. /\ phase' = [phase EXCEPT ![e] = p] /\ row' = [row EXCEPT ![e] = q]
      /\ holder' = IF NeedsSlot(e) THEN e ELSE holder
      /\ UNCHANGED <<status, next, task, forced, triggered, cancelled, hit>>
  BY <1>1, <1>2 DEF Admitted
<1>4. p \in {"gate", "body"} /\ q \in {"none"} \cup Final \cup Active
  BY <1>1, <1>2 DEF Active
<1>r. p # "body" => row'[e] # "running"
  BY <1>1, <1>2, <1>3 DEF IInv, StateType, Final
<1>5. StateType'
  BY <1>0, <1>3, <1>4 DEF IInv, StateType, Phases, Started
<1>6. p \in Started /\ p # "slot"
  BY <1>4 DEF Started
<1>7. p = "body" => row'[e] # "queued"
  BY <1>1, <1>2, <1>3 DEF IInv, StateType
<1>8. \A d \in Execs : d # e => row'[d] = row[d]
  BY <1>3 DEF IInv, StateType
<1>9. Moved(e, p)
  BY <1>3, <1>r, <1>6, <1>7, <1>8 DEF Moved
<1> QED
  BY <1>5, <1>9, MovedKeeps

LEMMA StartWaitsKeeps ==
  ASSUME IInv, NEW e \in Execs, phase[e] \in {"created", "chained"},
         phase[e] = "chained" => task[e] \notin executing,
         StartWaits(e), UNCHANGED <<up, stopped, overridden>>
  PROVE  IInv'
<1>0. task[e] \in Tasks
  BY LiveHasTask
<1>1. StateType'
  BY <1>0 DEF IInv, StateType, StartWaits, Phases, Started, Active
<1>2. row'[e] = "queued" /\ \A d \in Execs : d # e => row'[d] = row[d]
  BY DEF IInv, StateType, StartWaits
<1>3. holder' = holder /\ holder # e
  BY ConstantsAssumption DEF IInv, SlotIsOwned, StartWaits
<1>4. Moved(e, "slot")
  BY <1>2, <1>3 DEF Moved, StartWaits, Started
<1> QED
  BY <1>1, <1>4, MovedKeeps

LEMMA ExecuteTaskKeeps ==
  ASSUME IInv, NEW e \in Execs, ExecuteTask(e) PROVE IInv'
<1>0. /\ phase[e] \in {"created", "chained"}
      /\ phase[e] = "chained" => task[e] \notin executing
      /\ UNCHANGED <<up, stopped, overridden>>
  BY DEF ExecuteTask, handVars
<1>a. task[e] \in Tasks /\ holder # e
  BY <1>0, LiveHasTask, ConstantsAssumption DEF IInv, SlotIsOwned
<1>b. phase[e] \notin {"free", "body"} /\ "queued" \in Active /\ "queued" \in {"queued"}
  BY <1>0 DEF Active
<1>1. CASE StartWaits(e)
  BY <1>0, <1>1, StartWaitsKeeps
<1>2. CASE StartEnters(e)
  <2>1. NeedsSlot(e) => holder = NoExec
    BY <1>2 DEF StartEnters, SlotFree
  <2>2. CASE /\ Refused(e, "queued")
             /\ handle' = [handle EXCEPT ![task[e]] = NoExec]
             /\ executing' = IF e \in forced THEN executing ELSE executing \ {task[e]}
             /\ forced' = forced \ {e} /\ triggered' = triggered \ {e}
             /\ UNCHANGED <<holder, waitq, cancelled, hit>>
    <3>1. handle' \in [Tasks -> Execs \cup {NoExec}] /\ cancelled' \subseteq Execs /\ hit' \subseteq Execs
      BY <2>2 DEF IInv, StateType
    <3>2. holder' = IF holder = e THEN NoExec ELSE holder
      BY <2>2, <1>a
    <3> QED
      BY <1>0, <1>b, <2>2, <3>1, <3>2, RefusedKeeps
  <2>3. CASE /\ Admitted(e, "queued")
             /\ handle' = [handle EXCEPT ![task[e]] = e]
             /\ executing' = IF phase[e] = "chained" THEN executing \cup {task[e]} ELSE executing
    <3>1. handle' \in [Tasks -> Execs \cup {NoExec}]
      BY <2>3 DEF IInv, StateType
    <3> QED
      BY <1>0, <1>a, <1>b, <2>1, <2>3, <3>1, AdmittedMoves
  <2> QED
    BY <1>2, <2>2, <2>3 DEF StartEnters
<1> QED
  BY <1>1, <1>2 DEF ExecuteTask

LEMMA AcquireSlotKeeps ==
  ASSUME IInv, NEW e \in Execs, AcquireSlot(e) PROVE IInv'
<1>0. /\ phase[e] = "slot" /\ holder = NoExec /\ UNCHANGED <<up, stopped, overridden>>
  BY DEF AcquireSlot, handVars
<1>a. task[e] \in Tasks /\ holder # e
  BY <1>0, LiveHasTask, ConstantsAssumption
<1>1. CASE Refused(e, row[e]) /\ Release(e)
  <2>1. /\ executing' = IF e \in forced THEN executing ELSE executing \ {task[e]}
        /\ holder' = IF holder = e THEN NoExec ELSE holder
        /\ forced' = forced \ {e} /\ triggered' = triggered \ {e}
        /\ handle' \in [Tasks -> Execs \cup {NoExec}] /\ cancelled' \subseteq Execs /\ hit' \subseteq Execs
    BY <1>1 DEF Release, IInv, StateType
  <2>2. PICK r : r = row[e]
    OBVIOUS
  <2>3. r \in {"none"} \cup Final \cup {"queued"}
    BY <2>2, <1>0 DEF IInv, StateType, RowInv, Active
  <2> QED
    BY <1>0, <1>1, <2>1, <2>2, <2>3, RefusedKeeps
<1>2. CASE Admitted(e, row[e]) /\ UNCHANGED <<handle, executing>>
  <2>1. PICK r : r = row[e]
    OBVIOUS
  <2>2. r \in {"none"} \cup Final \cup {"queued"} /\ Admitted(e, r)
    BY <2>1, <1>0, <1>2 DEF IInv, StateType, RowInv, Active
  <2>3. handle' \in [Tasks -> Execs \cup {NoExec}]
    BY <1>2 DEF IInv, StateType
  <2> QED
    BY <1>0, <1>a, <1>2, <2>2, <2>3, AdmittedMoves
<1> QED
  BY <1>1, <1>2 DEF AcquireSlot

LEMMA PassGateKeeps ==
  ASSUME IInv, NEW e \in Execs, PassGate(e) PROVE IInv'
<1>0. task[e] \in Tasks
  BY LiveHasTask DEF PassGate
<1>1. StateType'
  BY DEF IInv, StateType, PassGate, taskVars, memVars, handVars, Phases, Started, Active
<1>2. row'[e] = "running" /\ \A d \in Execs : d # e => row'[d] = row[d]
  BY DEF IInv, StateType, PassGate
<1>3. NeedsSlot(e) => holder = e
  BY DEF IInv, SlotIsOwned, NeedsSlot, PassGate
<1>4. Moved(e, "body")
  BY <1>2, <1>3 DEF Moved, PassGate, taskVars, memVars, handVars, Started
<1> QED
  BY <1>1, <1>4, MovedKeeps

LEMMA DropChainedKeeps ==
  ASSUME IInv, NEW e \in Execs, DropChained(e) PROVE IInv'
<1> USE DEF Started
<1>0. /\ phase[e] = "chained" /\ phase' = [phase EXCEPT ![e] = "free"] /\ task' = [task EXCEPT ![e] = NoTask]
      /\ UNCHANGED <<up, status, next, row, executing, handle, holder, forced, triggered, cancelled, hit,
                     stopped, overridden>>
  BY DEF DropChained, Freed, taskVars, rowVars, memVars, handVars
<1>1. StateType'
  BY <1>0 DEF IInv, StateType, Phases
<1>2. /\ phase'[e] = "free" /\ task'[e] = NoTask
      /\ \A d \in Execs : d # e => phase'[d] = phase[d] /\ task'[d] = task[d]
  BY <1>0 DEF IInv, StateType
<1>3. ExecInv'
  BY <1>0, <1>2 DEF IInv, ExecInv
<1>4. RowInv'
  BY <1>0, <1>2 DEF IInv, RowInv
<1>5. SlotIsOwned'
  <2>1. holder # NoExec => holder # e /\ holder \in Execs
    BY <1>0 DEF IInv, SlotIsOwned, StateType
  <2> QED
    BY <1>0, <1>2, <2>1 DEF IInv, SlotIsOwned, NeedsSlot
<1>6. NoPhantomRuns'
  BY <1>0, <1>2 DEF IInv, NoPhantomRuns
<1>7. MembershipIsReleased'
  BY <1>0, <1>2 DEF IInv, MembershipIsReleased, Live
<1>8. FlightInv'
  <2>1. \A d \in Execs : (Live(d)' <=> Live(d)) /\ (Live(d) => task'[d] = task[d])
    BY <1>0, <1>2 DEF Live
  <2> QED
    BY <1>0, <2>1 DEF IInv, FlightInv, Overlap
<1>9. TriggerSurvives'
  <2>1. \A d \in triggered : d \in Execs /\ d # e
    BY <1>0 DEF IInv, StateType, ExecInv
  <2> QED
    BY <1>0, <1>2, <2>1 DEF IInv, TriggerSurvives, Queued
<1> QED
  BY <1>1, <1>3, <1>4, <1>5, <1>6, <1>7, <1>8, <1>9 DEF IInv

-----------------------------------------------------------------------------
(* The theorems. *)

LEMMA InitHolds ==
  ASSUME Init PROVE IInv
<1> USE DEF Init
<1>1. StateType
  BY DEF StateType, Phases
<1>2. ExecInv /\ RowInv /\ SlotIsOwned /\ NoPhantomRuns
  BY ConstantsAssumption DEF ExecInv, RowInv, SlotIsOwned, NoPhantomRuns, Active
<1>3. MembershipIsReleased /\ FlightInv /\ TriggerSurvives
  BY DEF MembershipIsReleased, FlightInv, Overlap, Live, Started, TriggerSurvives
<1> QED
  BY <1>1, <1>2, <1>3 DEF IInv

LEMMA NextKeeps ==
  ASSUME IInv, [Next]_vars PROVE IInv'
<1>1. CASE UNCHANGED vars
  <2>1. StateType'
    BY <1>1 DEF IInv, StateType, vars, taskVars, rowVars, memVars, execVars, handVars
  <2>2. Steady
    BY <1>1 DEF Steady, vars, taskVars, rowVars, memVars, execVars, handVars
  <2> QED
    BY <2>1, <2>2, SteadyKeeps
<1>2. CASE Gate
  BY <1>2, GateKeeps
<1>3. CASE CheckDueTasks
  BY <1>3, CheckDueTasksKeeps
<1>4. CASE StopBackground
  BY <1>4, StopBackgroundKeeps
<1>5. ASSUME NEW t \in Tasks, Trigger(t) PROVE IInv'
  BY <1>5, TimePassesKeeps, HandleEventKeeps, RunTaskNowKeeps, ForceTaskKeeps, WebhookKeeps,
     StopTaskKeeps, PauseTaskKeeps, ResumeTaskKeeps DEF Trigger
<1>6. ASSUME NEW e \in Execs, Callback(e) \/ Ends(e) \/ ForegroundMonitor(e) PROVE IInv'
  <2>1. CASE ForegroundMonitor(e)
    BY <2>1, ForegroundMonitorKeeps
  <2>2. CASE Ends(e)
    BY <2>2, CompleteKeeps, NoopKeeps, DeferKeeps, RaiseKeeps DEF Ends
  <2> QED
    BY <1>6, <2>1, <2>2, ExecuteTaskKeeps, DropChainedKeeps, AcquireSlotKeeps, PassGateKeeps,
       CancelQueuedKeeps, CancelBodyKeeps DEF Callback
<1>7. CASE Crash
  <2>1. StateType'
    BY <1>7 DEF IInv, StateType, Crash, taskVars, rowVars, Phases
  <2> QED
    BY <1>7, <2>1, CrashKeeps
<1>8. CASE Start
  <2>1. StateType'
    BY <1>8 DEF IInv, StateType, Start, memVars, execVars, handVars, Final
  <2> QED
    BY <1>8, <2>1, StartKeeps
<1> QED
  BY <1>1, <1>2, <1>3, <1>4, <1>5, <1>6, <1>7, <1>8 DEF Next

\* The inductive invariant holds in every reachable state.
THEOREM Invariance == Spec => []IInv
<1>1. Init => IInv
  BY InitHolds
<1>2. IInv /\ [Next]_vars => IInv'
  BY NextKeeps
<1> QED
  BY <1>1, <1>2, PTL DEF Spec

\* No run row is left "queued" or "running" without an execution behind it,
\* for any number of tasks, executions, cancellations and restarts.
THEOREM PhantomFree == Spec => []NoPhantomRuns
<1>1. IInv => NoPhantomRuns
  BY DEF IInv
<1> QED
  BY <1>1, Invariance, PTL

\* A task in _executing always has an execution that will take it out again.
THEOREM NoLeakedMembership == Spec => []MembershipIsReleased
<1>1. IInv => MembershipIsReleased
  BY DEF IInv
<1> QED
  BY <1>1, Invariance, PTL

\* The model slot is held by one execution that is past it, and by every
\* model-backed one there that was not forced: of two model-backed executions
\* past it one at least was started with force.
THEOREM SlotExclusion == Spec => []SlotIsOwned
<1>1. IInv => SlotIsOwned
  BY DEF IInv
<1> QED
  BY <1>1, Invariance, PTL

\* A task nobody stopped by hand is never dispatched twice.
THEOREM DispatchedOnce == Spec => []SingleFlightUnlessStopped
<1>1. IInv => SingleFlightUnlessStopped
  BY DEF IInv, FlightInv, SingleFlightUnlessStopped
<1> QED
  BY <1>1, Invariance, PTL

\* A queued event trigger is persisted, unless the user stopped or forced the
\* task or its action is forbidden.
THEOREM TriggerDurability == Spec => []TriggerSurvives
<1>1. IInv => TriggerSurvives
  BY DEF IInv
<1> QED
  BY <1>1, Invariance, PTL

=============================================================================
