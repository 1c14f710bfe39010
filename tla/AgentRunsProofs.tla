-------------------------- MODULE AgentRunsProofs --------------------------
(***************************************************************************)
(* Safety of the detached agent-run manager for every number of sessions,  *)
(* connections, runs and events.                                           *)
(***************************************************************************)
EXTENDS AgentRuns, SequenceTheorems, TLAPS

-----------------------------------------------------------------------------
(***************************************************************************)
(* The inductive invariant, in the order in which its parts are proved.    *)
(***************************************************************************)

\* Which names denote runs: the registry and the responses hold started runs,
\* a predecessor is older, and a started run has left "unborn".
Names ==
  /\ \A r \in Runs : pc[r] = "unborn" <=> r > nrun
  /\ \A s \in Sessions : registry[s] # 0 => registry[s] \in Started /\ sess[registry[s]] = s
  /\ \A c \in Subs : spc[c] # "free" => srun[c] \in Started
  /\ \A r \in Runs : prev[r] < r

\* Where the status of a run follows from where its task is.
StatusOfTask ==
  /\ \A r \in Started : pc[r] \in {"barrier", "done"} => status[r] # "running"
  /\ \A r \in Runs : status[r] = "done" => pc[r] = "done"
  /\ cancel \subseteq Started
  /\ \A r \in Started : (pc[r] = "created" /\ r \in cancel)
                           => status[r] # "running" /\ registry[sess[r]] # r

\* Every run of session s before run n is finished, or a run in between
\* stopped holding back its successors.
Settled(s, n) ==
  \A q \in Started :
    (q < n /\ sess[q] = s) => \/ pc[q] = "done"
                              \/ \E m \in q .. n - 1 : sess[m] = s /\ m \in cut

\* The chain of predecessors covers every run of the session.
Chain ==
  /\ \A s \in Sessions, r \in Started :
       (sess[r] = s /\ (prev[r] = 0 \/ Working(r))) => Settled(s, r)
  /\ \A s \in Sessions, r \in Started :
       (sess[r] = s /\ pc[r] = "done") => r \in cut \/ Settled(s, r)
  /\ \A r \in Started : prev[r] # 0 =>
       /\ sess[prev[r]] = sess[r]
       /\ \A q \in Started : (prev[r] < q /\ q < r) => sess[q] # sess[r]
  /\ \A s \in Sessions : registry[s] # 0 =>
       \A q \in Started : sess[q] = s => q <= registry[s]
  /\ \A s \in Sessions : registry[s] = 0 => Settled(s, MaxRuns + 1)
  /\ cut \subseteq Started

\* The event log of a run and what its subscribers hold of it.
Log ==
  /\ \A r \in Runs : \A i \in 1 .. Len(buffer[r]) : buffer[r][i] = i
  /\ \A c \in Subs : /\ Len(got[c]) = nextSeq[c]
                     /\ \A i \in 1 .. Len(got[c]) : got[c][i] = i
  /\ \A c \in Subs : spc[c] # "free" => nextSeq[c] <= Len(buffer[srun[c]])
  /\ \A c \in Subs : spc[c] \notin Attached => queue[c] = <<>>
  /\ \A c \in Subs : spc[c] = "bound" => nextSeq[c] = 0

\* Every item of a queue is the sentinel or an event of a log of length n;
\* between sentinels the events are consecutive and reach to the log's end.
InOrder(q, n) ==
  /\ \A i \in 1 .. Len(q) : q[i] # End => \E k \in 1 .. n : q[i] = Item(k)
  /\ \A i \in 1 .. Len(q) - 1 : (q[i] # End /\ q[i + 1] # End) => q[i + 1].seq = q[i].seq + 1
  /\ (q # <<>> /\ q[Len(q)] # End) => q[Len(q)].seq = n - 1

\* A response at next_seq = m has no gap before the head of its queue.
NoGap(q, m, n) ==
  IF q = <<>> THEN m = n ELSE q[1] # End => q[1].seq <= m

HasEnd(q) == \E i \in 1 .. Len(q) : q[i] = End

QueueOrder == \A c \in Subs : InOrder(queue[c], Len(buffer[srun[c]]))

LiveNext ==
  \A c \in Subs : spc[c] = "live" => NoGap(queue[c], nextSeq[c], Len(buffer[srun[c]]))

\* A sentinel is only put on the queues of a run that is over, and a response
\* that has seen one is bound to such a run.
SentinelMeansOver ==
  \A c \in Subs : (HasEnd(queue[c]) \/ spc[c] \in {"flush", "closed"})
                     => status[srun[c]] # "running"

-----------------------------------------------------------------------------
(***************************************************************************)
(* Types and names.                                                        *)
(***************************************************************************)

\* Every step keeps the types of the runs' variables.
LEMMA StepRunTypes ==
  ASSUME RunTypes, Names, [Next]_vars
  PROVE  RunTypes'
  <1> USE BoundsAssumption
  <1>1. ASSUME NEW s \in Sessions, NEW c \in Subs, Start(s, c)
        PROVE  RunTypes'
    <2>1. nrun + 1 \in Runs /\ registry[s] \in 0 .. MaxRuns
      BY <1>1 DEF Start, RunTypes
    <2>2. status' \in [Runs -> {"running", "done", "error", "stopped"}]
      BY <1>1 DEF Start, Terminalize, RunTypes
    <2>3. cancel' \subseteq Runs
      <3>1. InFlight(registry[s]) => registry[s] \in Runs
        BY <2>1 DEF InFlight, Runs
      <3>2. QED
        BY <1>1, <3>1 DEF Start, CancelTask, RunTypes
    <2>4. /\ timer' \subseteq Runs
          /\ cut' \subseteq Runs
          /\ nrun' \in 0 .. MaxRuns
      <3>1. timer' = timer \ {registry[s]} /\ cut' = cut /\ nrun' = nrun + 1
        BY <1>1 DEF Start
      <3>2. timer \subseteq Runs /\ cut \subseteq Runs /\ nrun \in 0 .. MaxRuns
        BY DEF RunTypes
      <3>3. nrun + 1 \in 0 .. MaxRuns
        BY <2>1 DEF Runs
      <3>4. QED
        BY <3>1, <3>2, <3>3
    <2>5. sess' \in [Runs -> Sessions] /\ registry' \in [Sessions -> 0 .. MaxRuns]
      BY <1>1, <2>1 DEF Start, RunTypes, Runs
    <2>6. QED
      BY <1>1, <2>1, <2>2, <2>3, <2>4, <2>5 DEF Start, RunTypes
  <1>2. ASSUME NEW s \in Sessions, NEW c \in Subs, Resume(s, c)
        PROVE  RunTypes'
    BY <1>2 DEF Resume, Bind, runVars, RunTypes, Runs, Started
  <1>3. ASSUME NEW s \in Sessions, Stop(s)
        PROVE  RunTypes'
    <2>1. registry[s] \in Runs
      BY <1>3 DEF Stop, RunTypes, Runs
    <2>2. QED
      BY <1>3, <2>1 DEF Stop, RunTypes
  <1>4. ASSUME NEW r \in Started, EnterDrain(r)
        PROVE  RunTypes'
    BY <1>4 DEF EnterDrain, subVars, RunTypes, Runs, Started
  <1>5. ASSUME NEW r \in Started, PrevFinished(r)
        PROVE  RunTypes'
    BY <1>5 DEF PrevFinished, subVars, RunTypes, Runs, Started
  <1>6. ASSUME NEW r \in Started, DeliverCancel(r)
        PROVE  RunTypes'
    BY <1>6 DEF DeliverCancel, subVars, RunTypes, Runs, Started
  <1>7. ASSUME NEW r \in Started, CancelWaiting(r)
        PROVE  RunTypes'
    BY <1>7 DEF CancelWaiting, ScheduleEvict, RunTypes, Runs, Started
  <1>8. ASSUME NEW r \in Started, BarrierEnd(r)
        PROVE  RunTypes'
    BY <1>8 DEF BarrierEnd, ScheduleEvict, subVars, RunTypes, Runs, Started
  <1>9. ASSUME NEW r \in Started, Publish(r)
        PROVE  RunTypes'
    BY <1>9 DEF Publish, RunTypes, Runs, Started
  <1>10. ASSUME NEW r \in Started, Complete(r)
        PROVE  RunTypes'
    BY SMTT(30), <1>10 DEF Complete, ScheduleEvict, RunTypes, Runs, Started
  <1>11. ASSUME NEW r \in Started, Fail(r)
        PROVE  RunTypes'
    <2>1. r \in Runs
      BY DEF RunTypes, Runs, Started
    <2>2. timer' \subseteq Runs /\ status' \in [Runs -> {"running", "done", "error", "stopped"}]
      BY <1>11, <2>1 DEF Fail, ScheduleEvict, RunTypes
    <2>3. QED
      BY <1>11, <2>2 DEF Fail, RunTypes
  <1>12. ASSUME NEW r \in Started, UnwindEnd(r)
        PROVE  RunTypes'
    BY <1>12 DEF UnwindEnd, ScheduleEvict, RunTypes, Runs, Started
  <1>13. ASSUME NEW r \in Started, EvictFire(r)
        PROVE  RunTypes'
    BY <1>13 DEF EvictFire, subVars, RunTypes, Runs, Started
  <1>14. ASSUME NEW c \in Subs, Subscribe(c)
        PROVE  RunTypes'
    BY <1>14 DEF Subscribe, runVars, RunTypes, Runs, Started
  <1>15. ASSUME NEW c \in Subs, Replay(c)
        PROVE  RunTypes'
    BY <1>15 DEF Replay, SendFromBuffer, runVars, RunTypes, Runs, Started
  <1>16. ASSUME NEW c \in Subs, ReplayDone(c)
        PROVE  RunTypes'
    <2>1. spc[c] # "free" => srun[c] \in Runs
      BY DEF RunTypes, Names, Runs, Started
    <2>2. timer' \subseteq Runs
      BY <1>16, <2>1 DEF ReplayDone, Leave, ScheduleEvict, RunTypes, Attached
    <2>3. QED
      BY <1>16, <2>2 DEF ReplayDone, runVars, RunTypes
  <1>17. ASSUME NEW c \in Subs, Receive(c)
        PROVE  RunTypes'
    BY <1>17 DEF Receive, runVars, RunTypes, Runs, Started
  <1>18. ASSUME NEW c \in Subs, TimeoutEnd(c)
        PROVE  RunTypes'
    BY <1>18 DEF TimeoutEnd, runVars, RunTypes, Runs, Started
  <1>19. ASSUME NEW c \in Subs, Flush(c)
        PROVE  RunTypes'
    BY <1>19 DEF Flush, SendFromBuffer, runVars, RunTypes, Runs, Started
  <1>20. ASSUME NEW c \in Subs, FlushDone(c)
        PROVE  RunTypes'
    <2>1. spc[c] # "free" => srun[c] \in Runs
      BY DEF RunTypes, Names, Runs, Started
    <2>2. timer' \subseteq Runs
      BY <1>20, <2>1 DEF FlushDone, Leave, ScheduleEvict, RunTypes, Attached
    <2>3. QED
      BY <1>20, <2>2 DEF FlushDone, runVars, RunTypes
  <1>21. ASSUME NEW c \in Subs, Disconnect(c)
        PROVE  RunTypes'
    <2>1. spc[c] # "free" => srun[c] \in Runs
      BY DEF RunTypes, Names, Runs, Started
    <2>2. timer' \subseteq Runs
      BY <1>21, <2>1 DEF Disconnect, Leave, ScheduleEvict, RunTypes, Attached
    <2>3. QED
      BY <1>21, <2>2 DEF Disconnect, runVars, RunTypes
  <1>22. CASE UNCHANGED vars
    BY <1>22 DEF vars, RunTypes, Runs, Started
  <1>23. QED
    BY <1>1, <1>2, <1>3, <1>4, <1>5, <1>6, <1>7, <1>8, <1>9, <1>10, <1>11, <1>12,
       <1>13, <1>14, <1>15, <1>16, <1>17, <1>18, <1>19, <1>20, <1>21, <1>22
       DEF Next, Request, TaskStep, GeneratorStep, ResponseStep

\* Every step keeps the types of the responses' variables.
LEMMA StepResponseTypes ==
  ASSUME RunTypes, ResponseTypes, LogTypes, [Next]_vars
  PROVE  ResponseTypes'
  <1> USE BoundsAssumption
  <1>1. ASSUME NEW s \in Sessions, NEW c \in Subs, Start(s, c)
        PROVE  ResponseTypes'
    BY <1>1 DEF Start, Terminalize, CancelTask, InFlight, Bind, RunTypes, ResponseTypes, Runs, Started
  <1>2. ASSUME NEW s \in Sessions, NEW c \in Subs, Resume(s, c)
        PROVE  ResponseTypes'
    BY <1>2 DEF Resume, Bind, runVars, RunTypes, ResponseTypes, Runs, Started
  <1>3. ASSUME NEW s \in Sessions, Stop(s)
        PROVE  ResponseTypes'
    BY <1>3 DEF Stop, subVars, RunTypes, ResponseTypes, Runs, Started
  <1>4. ASSUME NEW r \in Started, EnterDrain(r)
        PROVE  ResponseTypes'
    BY <1>4 DEF EnterDrain, subVars, RunTypes, ResponseTypes, Runs, Started
  <1>5. ASSUME NEW r \in Started, PrevFinished(r)
        PROVE  ResponseTypes'
    BY <1>5 DEF PrevFinished, subVars, RunTypes, ResponseTypes, Runs, Started
  <1>6. ASSUME NEW r \in Started, DeliverCancel(r)
        PROVE  ResponseTypes'
    BY <1>6 DEF DeliverCancel, subVars, RunTypes, ResponseTypes, Runs, Started
  <1>7. ASSUME NEW r \in Started, CancelWaiting(r)
        PROVE  ResponseTypes'
    BY <1>7 DEF CancelWaiting, ScheduleEvict, RunTypes, ResponseTypes, Runs, Started
  <1>8. ASSUME NEW r \in Started, BarrierEnd(r)
        PROVE  ResponseTypes'
    BY <1>8 DEF BarrierEnd, ScheduleEvict, subVars, RunTypes, ResponseTypes, Runs, Started
  <1>9. ASSUME NEW r \in Started, Publish(r)
        PROVE  ResponseTypes'
    BY <1>9 DEF Publish, RunTypes, ResponseTypes, Runs, Started
  <1>10. ASSUME NEW r \in Started, Complete(r)
        PROVE  ResponseTypes'
    BY <1>10 DEF Complete, ScheduleEvict, RunTypes, ResponseTypes, Runs, Started
  <1>11. ASSUME NEW r \in Started, Fail(r)
        PROVE  ResponseTypes'
    BY <1>11 DEF Fail, ScheduleEvict, RunTypes, ResponseTypes, Runs, Started
  <1>12. ASSUME NEW r \in Started, UnwindEnd(r)
        PROVE  ResponseTypes'
    BY <1>12 DEF UnwindEnd, ScheduleEvict, RunTypes, ResponseTypes, Runs, Started
  <1>13. ASSUME NEW r \in Started, EvictFire(r)
        PROVE  ResponseTypes'
    BY <1>13 DEF EvictFire, subVars, RunTypes, ResponseTypes, Runs, Started
  <1>14. ASSUME NEW c \in Subs, Subscribe(c)
        PROVE  ResponseTypes'
    BY <1>14 DEF Subscribe, runVars, RunTypes, ResponseTypes, Runs, Started
  <1>15. ASSUME NEW c \in Subs, Replay(c)
        PROVE  ResponseTypes'
    BY <1>15 DEF Replay, SendFromBuffer, runVars, RunTypes, ResponseTypes, Runs, Started
  <1>16. ASSUME NEW c \in Subs, ReplayDone(c)
        PROVE  ResponseTypes'
    BY <1>16 DEF ReplayDone, Leave, ScheduleEvict, runVars, RunTypes, ResponseTypes, Runs, Started
  <1>17. ASSUME NEW c \in Subs, Receive(c)
        PROVE  ResponseTypes'
    <2>1. Head(queue[c]) \in QueueItems
      BY <1>17 DEF Receive, LogTypes
    <2>2. nextSeq' \in [Subs -> Nat]
      BY <1>17, <2>1 DEF Receive, ResponseTypes, QueueItems
    <2>3. QED
      BY <1>17, <2>2 DEF Receive, ResponseTypes
  <1>18. ASSUME NEW c \in Subs, TimeoutEnd(c)
        PROVE  ResponseTypes'
    BY <1>18 DEF TimeoutEnd, runVars, RunTypes, ResponseTypes, Runs, Started
  <1>19. ASSUME NEW c \in Subs, Flush(c)
        PROVE  ResponseTypes'
    BY <1>19 DEF Flush, SendFromBuffer, runVars, RunTypes, ResponseTypes, Runs, Started
  <1>20. ASSUME NEW c \in Subs, FlushDone(c)
        PROVE  ResponseTypes'
    BY <1>20 DEF FlushDone, Leave, ScheduleEvict, runVars, RunTypes, ResponseTypes, Runs, Started
  <1>21. ASSUME NEW c \in Subs, Disconnect(c)
        PROVE  ResponseTypes'
    BY <1>21 DEF Disconnect, Leave, ScheduleEvict, runVars, RunTypes, ResponseTypes, Runs, Started
  <1>22. CASE UNCHANGED vars
    BY <1>22 DEF vars, RunTypes, ResponseTypes, Runs, Started
  <1>23. QED
    BY <1>1, <1>2, <1>3, <1>4, <1>5, <1>6, <1>7, <1>8, <1>9, <1>10, <1>11, <1>12,
       <1>13, <1>14, <1>15, <1>16, <1>17, <1>18, <1>19, <1>20, <1>21, <1>22
       DEF Next, Request, TaskStep, GeneratorStep, ResponseStep

\* Every step keeps the meaning of names: only Start makes new ones.
LEMMA StepNames ==
  ASSUME RunTypes, ResponseTypes, Names, [Next]_vars
  PROVE  Names'
  <1> USE BoundsAssumption
  <1>1. ASSUME NEW s \in Sessions, NEW c \in Subs, Start(s, c)
        PROVE  Names'
    <2> DEFINE n == nrun + 1
    <2>1. n \in Runs /\ nrun \in Nat /\ nrun' = n
      BY <1>1 DEF Start, RunTypes
    <2>2. /\ pc' = [pc EXCEPT ![n] = "created"]
          /\ sess' = [sess EXCEPT ![n] = s]
          /\ registry' = [registry EXCEPT ![s] = n]
          /\ prev' = [prev EXCEPT ![n] = IF InFlight(registry[s]) THEN registry[s] ELSE 0]
          /\ spc' = [spc EXCEPT ![c] = "bound"]
          /\ srun' = [srun EXCEPT ![c] = n]
      BY <1>1 DEF Start, Bind
    <2> HIDE DEF n
    <2>3. \A q \in Runs : pc'[q] = "unborn" <=> q > nrun'
      BY <2>1, <2>2 DEF n, RunTypes, Names, Runs
    <2>4. \A t \in Sessions : registry'[t] # 0 => registry'[t] \in Started' /\ sess'[registry'[t]] = t
      BY <2>1, <2>2 DEF n, RunTypes, Names, Runs, Started
    <2>5. \A d \in Subs : spc'[d] # "free" => srun'[d] \in Started'
      BY <2>1, <2>2 DEF n, ResponseTypes, Names, Started
    <2>6. \A q \in Runs : prev'[q] < q
      BY SMTT(30), <2>1, <2>2 DEF n, RunTypes, Names, Runs, Started
    <2>7. QED
      BY <2>3, <2>4, <2>5, <2>6 DEF Names
  <1>2. ASSUME NEW s \in Sessions, NEW c \in Subs, Resume(s, c)
        PROVE  Names'
    BY <1>2 DEF Resume, Bind, runVars, RunTypes, ResponseTypes, Names, Runs, Started
  <1>3. ASSUME NEW s \in Sessions, Stop(s)
        PROVE  Names'
    BY <1>3 DEF Stop, subVars, RunTypes, ResponseTypes, Names, Runs, Started
  <1>4. ASSUME NEW r \in Started, EnterDrain(r)
        PROVE  Names'
    BY <1>4 DEF EnterDrain, subVars, RunTypes, ResponseTypes, Names, Runs, Started
  <1>5. ASSUME NEW r \in Started, PrevFinished(r)
        PROVE  Names'
    BY <1>5 DEF PrevFinished, subVars, RunTypes, ResponseTypes, Names, Runs, Started
  <1>6. ASSUME NEW r \in Started, DeliverCancel(r)
        PROVE  Names'
    BY <1>6 DEF DeliverCancel, subVars, RunTypes, ResponseTypes, Names, Runs, Started
  <1>7. ASSUME NEW r \in Started, CancelWaiting(r)
        PROVE  Names'
    BY <1>7 DEF CancelWaiting, ScheduleEvict, RunTypes, ResponseTypes, Names, Runs, Started
  <1>8. ASSUME NEW r \in Started, BarrierEnd(r)
        PROVE  Names'
    BY <1>8 DEF BarrierEnd, ScheduleEvict, subVars, RunTypes, ResponseTypes, Names, Runs, Started
  <1>9. ASSUME NEW r \in Started, Publish(r)
        PROVE  Names'
    BY <1>9 DEF Publish, RunTypes, ResponseTypes, Names, Runs, Started
  <1>10. ASSUME NEW r \in Started, Complete(r)
        PROVE  Names'
    BY <1>10 DEF Complete, ScheduleEvict, RunTypes, ResponseTypes, Names, Runs, Started
  <1>11. ASSUME NEW r \in Started, Fail(r)
        PROVE  Names'
    BY <1>11 DEF Fail, ScheduleEvict, RunTypes, ResponseTypes, Names, Runs, Started
  <1>12. ASSUME NEW r \in Started, UnwindEnd(r)
        PROVE  Names'
    BY <1>12 DEF UnwindEnd, ScheduleEvict, RunTypes, ResponseTypes, Names, Runs, Started
  <1>13. ASSUME NEW r \in Started, EvictFire(r)
        PROVE  Names'
    BY <1>13 DEF EvictFire, subVars, RunTypes, ResponseTypes, Names, Runs, Started
  <1>14. ASSUME NEW c \in Subs, Subscribe(c)
        PROVE  Names'
    BY <1>14 DEF Subscribe, runVars, RunTypes, ResponseTypes, Names, Runs, Started
  <1>15. ASSUME NEW c \in Subs, Replay(c)
        PROVE  Names'
    BY <1>15 DEF Replay, SendFromBuffer, runVars, RunTypes, ResponseTypes, Names, Runs, Started
  <1>16. ASSUME NEW c \in Subs, ReplayDone(c)
        PROVE  Names'
    BY <1>16 DEF ReplayDone, Leave, ScheduleEvict, runVars, RunTypes, ResponseTypes, Names, Runs, Started
  <1>17. ASSUME NEW c \in Subs, Receive(c)
        PROVE  Names'
    BY <1>17 DEF Receive, runVars, RunTypes, ResponseTypes, Names, Runs, Started
  <1>18. ASSUME NEW c \in Subs, TimeoutEnd(c)
        PROVE  Names'
    BY <1>18 DEF TimeoutEnd, runVars, RunTypes, ResponseTypes, Names, Runs, Started
  <1>19. ASSUME NEW c \in Subs, Flush(c)
        PROVE  Names'
    BY <1>19 DEF Flush, SendFromBuffer, runVars, RunTypes, ResponseTypes, Names, Runs, Started
  <1>20. ASSUME NEW c \in Subs, FlushDone(c)
        PROVE  Names'
    BY <1>20 DEF FlushDone, Leave, ScheduleEvict, runVars, RunTypes, ResponseTypes, Names, Runs, Started
  <1>21. ASSUME NEW c \in Subs, Disconnect(c)
        PROVE  Names'
    BY <1>21 DEF Disconnect, Leave, ScheduleEvict, runVars, RunTypes, ResponseTypes, Names, Runs, Started
  <1>22. CASE UNCHANGED vars
    BY <1>22 DEF vars, RunTypes, ResponseTypes, Names, Runs, Started
  <1>23. QED
    BY <1>1, <1>2, <1>3, <1>4, <1>5, <1>6, <1>7, <1>8, <1>9, <1>10, <1>11, <1>12,
       <1>13, <1>14, <1>15, <1>16, <1>17, <1>18, <1>19, <1>20, <1>21, <1>22
       DEF Next, Request, TaskStep, GeneratorStep, ResponseStep

\* The sentinel and the events' items are queue items.
LEMMA ItemType == End \in QueueItems /\ \A k \in Nat : Item(k) \in QueueItems
  BY DEF End, Item, QueueItems

\* The empty sequence is a sequence of anything.
LEMMA NoItems == <<>> \in Seq(QueueItems) /\ <<>> \in Seq(Events)
  OBVIOUS

\* put_nowait keeps the queues' type.
LEMMA PutAllType ==
  ASSUME LogTypes, NEW r, NEW items \in Seq(QueueItems), PutAll(r, items)
  PROVE  queue' \in [Subs -> Seq(QueueItems)]
  BY DEF LogTypes, PutAll

\* Every step keeps the types of the event log, the queues and what was sent.
LEMMA StepLogTypes ==
  ASSUME RunTypes, ResponseTypes, LogTypes, Names, QueueOrder, [Next]_vars
  PROVE  LogTypes'
  <1> USE BoundsAssumption
  <1>1. ASSUME NEW s \in Sessions, NEW c \in Subs, Start(s, c)
        PROVE  LogTypes'
    <2>1. <<End>> \in Seq(QueueItems)
      BY ItemType
    <2>2. queue' \in [Subs -> Seq(QueueItems)]
      BY <1>1, <2>1, PutAllType DEF Start, Terminalize, LogTypes
    <2>3. got' \in [Subs -> Seq(Events)]
      BY <1>1, NoItems DEF Start, Bind, LogTypes
    <2>4. QED
      BY <1>1, <2>2, <2>3 DEF Start, LogTypes
  <1>2. ASSUME NEW s \in Sessions, NEW c \in Subs, Resume(s, c)
        PROVE  LogTypes'
    BY <1>2 DEF Resume, Bind, runVars, LogTypes
  <1>3. ASSUME NEW s \in Sessions, Stop(s)
        PROVE  LogTypes'
    BY <1>3 DEF Stop, subVars, LogTypes
  <1>4. ASSUME NEW r \in Started, EnterDrain(r)
        PROVE  LogTypes'
    BY <1>4 DEF EnterDrain, subVars, LogTypes
  <1>5. ASSUME NEW r \in Started, PrevFinished(r)
        PROVE  LogTypes'
    BY <1>5 DEF PrevFinished, subVars, LogTypes
  <1>6. ASSUME NEW r \in Started, DeliverCancel(r)
        PROVE  LogTypes'
    BY <1>6 DEF DeliverCancel, subVars, LogTypes
  <1>7. ASSUME NEW r \in Started, CancelWaiting(r)
        PROVE  LogTypes'
    <2>1. <<End>> \in Seq(QueueItems)
      BY ItemType
    <2>2. queue' \in [Subs -> Seq(QueueItems)]
      BY <1>7, <2>1, PutAllType DEF CancelWaiting
    <2>3. QED
      BY <1>7, <2>2 DEF CancelWaiting, LogTypes
  <1>8. ASSUME NEW r \in Started, BarrierEnd(r)
        PROVE  LogTypes'
    BY <1>8 DEF BarrierEnd, ScheduleEvict, subVars, LogTypes
  <1>9. ASSUME NEW r \in Started, Publish(r)
        PROVE  LogTypes'
    <2> DEFINE k == Len(buffer[r]) + 1
    <2>a. r \in Runs
      BY DEF RunTypes, Runs, Started
    <2>b. Len(buffer[r]) \in Nat
      BY <2>a DEF LogTypes
    <2>0. r \in Runs /\ k \in Events /\ k + 1 \in Events
      BY <2>a, <2>b DEF Events
    <2>1. <<Item(k)>> \in Seq(QueueItems)
      BY <2>0, ItemType DEF Events
    <2>2. queue' \in [Subs -> Seq(QueueItems)]
      BY <1>9, <2>1, PutAllType DEF Publish
    <2>3. Append(buffer[r], k) \in Seq(Events)
      BY <2>0 DEF LogTypes
    <2>4. buffer' \in [Runs -> Seq(Events)]
      BY <1>9, <2>3 DEF Publish, LogTypes
    <2>5. QED
      BY <1>9, <2>2, <2>4 DEF Publish, LogTypes
  <1>10. ASSUME NEW r \in Started, Complete(r)
        PROVE  LogTypes'
    <2>1. <<End>> \in Seq(QueueItems)
      BY ItemType
    <2>2. queue' \in [Subs -> Seq(QueueItems)]
      BY <1>10, <2>1, PutAllType DEF Complete
    <2>3. QED
      BY <1>10, <2>2 DEF Complete, LogTypes
  <1>11. ASSUME NEW r \in Started, Fail(r)
        PROVE  LogTypes'
    <2> DEFINE k == Len(buffer[r]) + 1
    <2>a. r \in Runs
      BY DEF RunTypes, Runs, Started
    <2>b. Len(buffer[r]) \in Nat
      BY <2>a DEF LogTypes
    <2>0. r \in Runs /\ k \in Events /\ k + 1 \in Events
      BY <2>a, <2>b DEF Events
    <2>1. <<Item(k), Item(k + 1), End>> \in Seq(QueueItems)
      BY <2>0, ItemType DEF Events
    <2>2. queue' \in [Subs -> Seq(QueueItems)]
      BY <1>11, <2>1, PutAllType DEF Fail
    <2>3. buffer[r] \o <<k, k + 1>> \in Seq(Events)
      BY <2>0 DEF LogTypes
    <2>4. buffer' \in [Runs -> Seq(Events)]
      BY <1>11, <2>3 DEF Fail, LogTypes
    <2>5. QED
      BY <1>11, <2>2, <2>4 DEF Fail, LogTypes
  <1>12. ASSUME NEW r \in Started, UnwindEnd(r)
        PROVE  LogTypes'
    <2>1. <<End>> \in Seq(QueueItems)
      BY ItemType
    <2>2. queue' \in [Subs -> Seq(QueueItems)]
      BY <1>12, <2>1, PutAllType DEF UnwindEnd
    <2>3. QED
      BY <1>12, <2>2 DEF UnwindEnd, LogTypes
  <1>13. ASSUME NEW r \in Started, EvictFire(r)
        PROVE  LogTypes'
    BY <1>13 DEF EvictFire, subVars, LogTypes
  <1>14. ASSUME NEW c \in Subs, Subscribe(c)
        PROVE  LogTypes'
    BY <1>14 DEF Subscribe, runVars, LogTypes
  <1>15. ASSUME NEW c \in Subs, Replay(c)
        PROVE  LogTypes'
    <2>1. srun[c] \in Runs
      BY <1>15 DEF Replay, RunTypes, ResponseTypes, Names, Runs, Started
    <2>2. buffer[srun[c]] \in Seq(Events) /\ nextSeq[c] \in Nat
      BY <2>1 DEF LogTypes, ResponseTypes
    <2>3. got' \in [Subs -> Seq(Events)]
      BY <1>15, <2>2 DEF Replay, SendFromBuffer, LogTypes
    <2>4. QED
      BY <1>15, <2>3 DEF Replay, SendFromBuffer, runVars, LogTypes
  <1>16. ASSUME NEW c \in Subs, ReplayDone(c)
        PROVE  LogTypes'
    BY <1>16, NoItems DEF ReplayDone, Leave, runVars, LogTypes
  <1>17. ASSUME NEW c \in Subs, Receive(c)
        PROVE  LogTypes'
    <2>1. queue[c] \in Seq(QueueItems) /\ queue[c] # <<>> /\ Head(queue[c]) = queue[c][1]
      BY <1>17 DEF Receive, LogTypes
    <2>a. 1 \in 1 .. Len(queue[c])
      BY <2>1
    <2>2. Head(queue[c]) # End => Head(queue[c]).ev \in Events
      <3> SUFFICES ASSUME Head(queue[c]) # End PROVE Head(queue[c]).ev \in Events
        OBVIOUS
      <3>1. PICK k \in 1 .. Len(buffer[srun[c]]) : queue[c][1] = Item(k)
        BY <2>1, <2>a DEF QueueOrder, InOrder
      <3>2. QED
        BY <2>1, <3>1 DEF Item, Events
    <2>b. queue' \in [Subs -> Seq(QueueItems)]
      <3>1. Tail(queue[c]) \in Seq(QueueItems)
        BY <2>1
      <3>2. QED
        BY <1>17, <3>1 DEF Receive, LogTypes
    <2>c. got' \in [Subs -> Seq(Events)]
      <3>1. Head(queue[c]) # End => Append(got[c], Head(queue[c]).ev) \in Seq(Events)
        BY <2>2 DEF LogTypes
      <3>2. QED
        BY <1>17, <3>1 DEF Receive, LogTypes
    <2>3. got' \in [Subs -> Seq(Events)] /\ queue' \in [Subs -> Seq(QueueItems)]
      BY <2>b, <2>c
    <2>4. QED
      BY <1>17, <2>3 DEF Receive, runVars, LogTypes
  <1>18. ASSUME NEW c \in Subs, TimeoutEnd(c)
        PROVE  LogTypes'
    BY <1>18 DEF TimeoutEnd, runVars, LogTypes
  <1>19. ASSUME NEW c \in Subs, Flush(c)
        PROVE  LogTypes'
    <2>1. srun[c] \in Runs
      BY <1>19 DEF Flush, RunTypes, ResponseTypes, Names, Runs, Started
    <2>2. buffer[srun[c]] \in Seq(Events) /\ nextSeq[c] \in Nat
      BY <2>1 DEF LogTypes, ResponseTypes
    <2>3. got' \in [Subs -> Seq(Events)]
      BY <1>19, <2>2 DEF Flush, SendFromBuffer, LogTypes
    <2>4. QED
      BY <1>19, <2>3 DEF Flush, SendFromBuffer, runVars, LogTypes
  <1>20. ASSUME NEW c \in Subs, FlushDone(c)
        PROVE  LogTypes'
    BY <1>20, NoItems DEF FlushDone, Leave, runVars, LogTypes
  <1>21. ASSUME NEW c \in Subs, Disconnect(c)
        PROVE  LogTypes'
    BY <1>21, NoItems DEF Disconnect, Leave, runVars, LogTypes
  <1>22. CASE UNCHANGED vars
    BY <1>22 DEF vars, LogTypes
  <1>23. QED
    BY <1>1, <1>2, <1>3, <1>4, <1>5, <1>6, <1>7, <1>8, <1>9, <1>10, <1>11, <1>12,
       <1>13, <1>14, <1>15, <1>16, <1>17, <1>18, <1>19, <1>20, <1>21, <1>22
       DEF Next, Request, TaskStep, GeneratorStep, ResponseStep

-----------------------------------------------------------------------------
(***************************************************************************)
(* Status, registry and eviction.                                          *)
(***************************************************************************)

\* One more run has started.
LEMMA OneMore == \A m \in Nat : 1 .. (m + 1) = (1 .. m) \cup {m + 1}
  OBVIOUS

\* What start() does to the runs' variables, predecessor p and new run n.
LEMMA StartEffect ==
  ASSUME RunTypes, Names, NEW s \in Sessions, NEW c \in Subs, Start(s, c),
         NEW p, p = registry[s], NEW n, n = nrun + 1
  PROVE  /\ n \in Runs /\ n \notin Started /\ nrun \in Nat /\ nrun' = n
         /\ Started' = Started \cup {n} /\ Started \subseteq Runs
         /\ \A q \in Started : q \in Nat /\ q < n
         /\ p # 0 => p \in Started /\ sess[p] = s
         /\ pc' = [pc EXCEPT ![n] = "created"]
         /\ sess' = [sess EXCEPT ![n] = s]
         /\ registry' = [registry EXCEPT ![s] = n]
         /\ prev' = [prev EXCEPT ![n] = IF InFlight(p) THEN p ELSE 0]
         /\ cut' = cut
         /\ timer' = timer \ {p}
         /\ cancel' = IF InFlight(p) THEN cancel \cup {p} ELSE cancel
         /\ \A q \in Runs : status'[q] = IF q = p /\ InFlight(p) /\ status[p] = "running"
                                         THEN "stopped" ELSE status[q]
  <1>1. n \in Runs /\ n \notin Started /\ nrun \in Nat /\ nrun' = n
    BY BoundsAssumption DEF Start, RunTypes, Started
  <1>2. Started' = Started \cup {n}
    BY <1>1, OneMore DEF Started
  <1>3. Started \subseteq Runs /\ \A q \in Started : q \in Nat /\ q < n
    BY <1>1, BoundsAssumption DEF RunTypes, Runs, Started
  <1>4. p # 0 => p \in Started /\ sess[p] = s
    BY DEF Names
  <1>5. /\ pc' = [pc EXCEPT ![n] = "created"]
        /\ sess' = [sess EXCEPT ![n] = s]
        /\ registry' = [registry EXCEPT ![s] = n]
        /\ prev' = [prev EXCEPT ![n] = IF InFlight(p) THEN p ELSE 0]
        /\ cut' = cut
        /\ timer' = timer \ {p}
    BY DEF Start
  <1>6. cancel' = IF InFlight(p) THEN cancel \cup {p} ELSE cancel
    BY DEF Start, CancelTask
  <1>7. \A q \in Runs : status'[q] = IF q = p /\ InFlight(p) /\ status[p] = "running"
                                     THEN "stopped" ELSE status[q]
    BY DEF Start, Terminalize, RunTypes
  <1>8. QED
    BY <1>1, <1>2, <1>3, <1>4, <1>5, <1>6, <1>7

\* The started runs are runs.
LEMMA StartedRuns == ASSUME RunTypes PROVE Started \subseteq Runs
  BY BoundsAssumption DEF RunTypes, Runs, Started

\* Every step keeps the status in line with the task.
LEMMA StepStatus ==
  ASSUME RunTypes, ResponseTypes, Names, StatusOfTask, [Next]_vars
  PROVE  StatusOfTask'
  <1> USE BoundsAssumption
  <1>1. ASSUME NEW s \in Sessions, NEW c \in Subs, Start(s, c)
        PROVE  StatusOfTask'
    <2>1. PICK p, n : p = registry[s] /\ n = nrun + 1
      OBVIOUS
    <2>2. \A q \in Started' : pc'[q] \in {"barrier", "done"} => status'[q] # "running"
      BY <1>1, <2>1, StartEffect DEF RunTypes, StatusOfTask
    <2>3. \A q \in Runs : status'[q] = "done" => pc'[q] = "done"
      BY <1>1, <2>1, StartEffect DEF RunTypes, StatusOfTask, Names
    <2>4. \A q \in Started' : (pc'[q] = "created" /\ q \in cancel')
                                => status'[q] # "running" /\ registry'[sess'[q]] # q
      <3> SUFFICES ASSUME NEW q \in Started', pc'[q] = "created", q \in cancel'
                   PROVE  status'[q] # "running" /\ registry'[sess'[q]] # q
        OBVIOUS
      <3>1. n \notin cancel'
        BY <1>1, <2>1, StartEffect DEF StatusOfTask
      <3>2. q \in Started /\ pc[q] = "created" /\ q # n
        BY <1>1, <2>1, <3>1, StartEffect DEF RunTypes
      <3>3. CASE q = p
        <4>1. p # 0 /\ p \in Runs /\ sess[p] = s /\ InFlight(p)
          BY <1>1, <2>1, <3>2, <3>3, StartEffect DEF InFlight, Runs
        <4>2. status'[p] # "running"
          BY <1>1, <2>1, <4>1, StartEffect
        <4>3. registry'[sess'[p]] = n
          BY <1>1, <2>1, <3>2, <3>3, <4>1, StartEffect DEF RunTypes
        <4>4. QED
          BY <3>2, <3>3, <4>2, <4>3
      <3>4. CASE q # p
        BY <1>1, <2>1, <3>2, <3>4, StartEffect DEF RunTypes, StatusOfTask
      <3>5. QED
        BY <3>3, <3>4
    <2>5. cancel' \subseteq Started'
      BY <1>1, <2>1, StartEffect DEF StatusOfTask, InFlight
    <2>6. QED
      BY <2>2, <2>3, <2>4, <2>5 DEF StatusOfTask
  <1>2. ASSUME NEW s \in Sessions, NEW c \in Subs, Resume(s, c)
        PROVE  StatusOfTask'
    BY <1>2 DEF Resume, Bind, runVars, RunTypes, Names, StatusOfTask, Runs, Started
  <1>3. ASSUME NEW s \in Sessions, Stop(s)
        PROVE  StatusOfTask'
    <2>1. PICK r \in Started : r = registry[s]
      BY <1>3 DEF Stop, Names
    <2>2. pc[r] # "created" /\ cancel' = cancel \cup {r}
          /\ UNCHANGED <<registry, nrun, sess, status, pc>>
      BY <1>3, <2>1 DEF Stop
    <2>3. QED
      BY <2>1, <2>2 DEF StatusOfTask, Started
  <1>4. ASSUME NEW r \in Started, EnterDrain(r)
        PROVE  StatusOfTask'
    BY <1>4 DEF EnterDrain, subVars, RunTypes, Names, StatusOfTask, Runs, Started
  <1>5. ASSUME NEW r \in Started, PrevFinished(r)
        PROVE  StatusOfTask'
    BY <1>5 DEF PrevFinished, subVars, RunTypes, Names, StatusOfTask, Runs, Started
  <1>6. ASSUME NEW r \in Started, DeliverCancel(r)
        PROVE  StatusOfTask'
    BY <1>6 DEF DeliverCancel, subVars, RunTypes, Names, StatusOfTask, Runs, Started
  <1>7. ASSUME NEW r \in Started, CancelWaiting(r)
        PROVE  StatusOfTask'
    <2>1. r \in Runs /\ Started' = Started /\ Started \subseteq Runs
      BY <1>7, StartedRuns DEF CancelWaiting, Started
    <2>2. /\ pc' = [pc EXCEPT ![r] = "done"] \/ pc' = [pc EXCEPT ![r] = "barrier"]
          /\ pc[r] = "waiting"
          /\ status' = [status EXCEPT ![r] = "stopped"]
          /\ cancel' \subseteq cancel
          /\ UNCHANGED <<registry, sess>>
      BY <1>7 DEF CancelWaiting
    <2>3. QED
      BY <2>1, <2>2 DEF RunTypes, StatusOfTask
  <1>8. ASSUME NEW r \in Started, BarrierEnd(r)
        PROVE  StatusOfTask'
    <2>1. r \in Runs /\ Started' = Started /\ Started \subseteq Runs
      BY <1>8, StartedRuns DEF BarrierEnd, Started
    <2>2. pc' = [pc EXCEPT ![r] = "done"] /\ pc[r] = "barrier" /\ UNCHANGED <<status, cancel, registry, sess>>
      BY <1>8 DEF BarrierEnd
    <2>3. QED
      BY <2>1, <2>2 DEF RunTypes, StatusOfTask
  <1>9. ASSUME NEW r \in Started, Publish(r)
        PROVE  StatusOfTask'
    BY <1>9 DEF Publish, RunTypes, Names, StatusOfTask, Runs, Started
  <1>10. ASSUME NEW r \in Started, Complete(r)
        PROVE  StatusOfTask'
    BY <1>10 DEF Complete, ScheduleEvict, RunTypes, Names, StatusOfTask, Runs, Started
  <1>11. ASSUME NEW r \in Started, Fail(r)
        PROVE  StatusOfTask'
    BY SMTT(30), <1>11 DEF Fail, ScheduleEvict, RunTypes, Names, StatusOfTask, Runs, Started
  <1>12. ASSUME NEW r \in Started, UnwindEnd(r)
        PROVE  StatusOfTask'
    BY <1>12 DEF UnwindEnd, ScheduleEvict, RunTypes, Names, StatusOfTask, Runs, Started
  <1>13. ASSUME NEW r \in Started, EvictFire(r)
        PROVE  StatusOfTask'
    BY <1>13 DEF EvictFire, subVars, RunTypes, Names, StatusOfTask, Runs, Started
  <1>14. ASSUME NEW c \in Subs, Subscribe(c)
        PROVE  StatusOfTask'
    BY <1>14 DEF Subscribe, runVars, RunTypes, Names, StatusOfTask, Runs, Started
  <1>15. ASSUME NEW c \in Subs, Replay(c)
        PROVE  StatusOfTask'
    BY <1>15 DEF Replay, SendFromBuffer, runVars, RunTypes, Names, StatusOfTask, Runs, Started
  <1>16. ASSUME NEW c \in Subs, ReplayDone(c)
        PROVE  StatusOfTask'
    BY <1>16 DEF ReplayDone, Leave, ScheduleEvict, runVars, RunTypes, Names, StatusOfTask, Runs, Started
  <1>17. ASSUME NEW c \in Subs, Receive(c)
        PROVE  StatusOfTask'
    BY <1>17 DEF Receive, runVars, RunTypes, Names, StatusOfTask, Runs, Started
  <1>18. ASSUME NEW c \in Subs, TimeoutEnd(c)
        PROVE  StatusOfTask'
    BY <1>18 DEF TimeoutEnd, runVars, RunTypes, Names, StatusOfTask, Runs, Started
  <1>19. ASSUME NEW c \in Subs, Flush(c)
        PROVE  StatusOfTask'
    BY <1>19 DEF Flush, SendFromBuffer, runVars, RunTypes, Names, StatusOfTask, Runs, Started
  <1>20. ASSUME NEW c \in Subs, FlushDone(c)
        PROVE  StatusOfTask'
    BY <1>20 DEF FlushDone, Leave, ScheduleEvict, runVars, RunTypes, Names, StatusOfTask, Runs, Started
  <1>21. ASSUME NEW c \in Subs, Disconnect(c)
        PROVE  StatusOfTask'
    BY <1>21 DEF Disconnect, Leave, ScheduleEvict, runVars, RunTypes, Names, StatusOfTask, Runs, Started
  <1>22. CASE UNCHANGED vars
    BY <1>22 DEF vars, RunTypes, Names, StatusOfTask, Runs, Started
  <1>23. QED
    BY <1>1, <1>2, <1>3, <1>4, <1>5, <1>6, <1>7, <1>8, <1>9, <1>10, <1>11, <1>12,
       <1>13, <1>14, <1>15, <1>16, <1>17, <1>18, <1>19, <1>20, <1>21, <1>22
       DEF Next, Request, TaskStep, GeneratorStep, ResponseStep

\* Every step keeps a running run registered: start() ends the one it replaces.
LEMMA StepRegistered ==
  ASSUME RunTypes, Names, StatusOfTask, RunningIsRegistered, [Next]_vars
  PROVE  RunningIsRegistered'
  <1> USE BoundsAssumption
  <1>1. ASSUME NEW s \in Sessions, NEW c \in Subs, Start(s, c)
        PROVE  RunningIsRegistered'
    <2>1. PICK p, n : p = registry[s] /\ n = nrun + 1
      OBVIOUS
    <2> SUFFICES ASSUME NEW q \in Started', status'[q] = "running"
                 PROVE  registry'[sess'[q]] = q
      BY DEF RunningIsRegistered
    <2>2. CASE q = n
      BY <1>1, <2>1, <2>2, StartEffect DEF RunTypes
    <2>3. CASE q # n
      <3>a. q \in Started
        BY <1>1, <2>1, <2>3, StartEffect
      <3>b. p # 0 => status'[p] # "running"
        BY <1>1, <2>1, StartEffect DEF StatusOfTask, InFlight
      <3>1. q \in Started /\ q # p /\ status[q] = "running"
        BY <1>1, <2>1, <3>a, <3>b, StartEffect DEF Runs
      <3>2. registry[sess[q]] = q /\ sess[q] # s
        BY <2>1, <3>1 DEF RunningIsRegistered
      <3>3. QED
        BY <1>1, <2>1, <2>3, <3>1, <3>2, StartEffect DEF RunTypes
    <2>4. QED
      BY <2>2, <2>3
  <1>2. ASSUME NEW s \in Sessions, NEW c \in Subs, Resume(s, c)
        PROVE  RunningIsRegistered'
    BY <1>2 DEF Resume, Bind, runVars, RunTypes, Names, StatusOfTask, RunningIsRegistered, Runs, Started
  <1>3. ASSUME NEW s \in Sessions, Stop(s)
        PROVE  RunningIsRegistered'
    BY <1>3 DEF Stop, subVars, RunTypes, Names, StatusOfTask, RunningIsRegistered, Runs, Started
  <1>4. ASSUME NEW r \in Started, EnterDrain(r)
        PROVE  RunningIsRegistered'
    BY <1>4 DEF EnterDrain, subVars, RunTypes, Names, StatusOfTask, RunningIsRegistered, Runs, Started
  <1>5. ASSUME NEW r \in Started, PrevFinished(r)
        PROVE  RunningIsRegistered'
    BY <1>5 DEF PrevFinished, subVars, RunTypes, Names, StatusOfTask, RunningIsRegistered, Runs, Started
  <1>6. ASSUME NEW r \in Started, DeliverCancel(r)
        PROVE  RunningIsRegistered'
    BY <1>6 DEF DeliverCancel, subVars, RunTypes, Names, StatusOfTask, RunningIsRegistered, Runs, Started
  <1>7. ASSUME NEW r \in Started, CancelWaiting(r)
        PROVE  RunningIsRegistered'
    BY <1>7 DEF CancelWaiting, ScheduleEvict, RunTypes, Names, StatusOfTask, RunningIsRegistered, Runs, Started
  <1>8. ASSUME NEW r \in Started, BarrierEnd(r)
        PROVE  RunningIsRegistered'
    BY <1>8 DEF BarrierEnd, ScheduleEvict, subVars, RunTypes, Names, StatusOfTask, RunningIsRegistered, Runs, Started
  <1>9. ASSUME NEW r \in Started, Publish(r)
        PROVE  RunningIsRegistered'
    BY <1>9 DEF Publish, RunTypes, Names, StatusOfTask, RunningIsRegistered, Runs, Started
  <1>10. ASSUME NEW r \in Started, Complete(r)
        PROVE  RunningIsRegistered'
    BY <1>10 DEF Complete, ScheduleEvict, RunTypes, Names, StatusOfTask, RunningIsRegistered, Runs, Started
  <1>11. ASSUME NEW r \in Started, Fail(r)
        PROVE  RunningIsRegistered'
    BY <1>11 DEF Fail, ScheduleEvict, RunTypes, Names, StatusOfTask, RunningIsRegistered, Runs, Started
  <1>12. ASSUME NEW r \in Started, UnwindEnd(r)
        PROVE  RunningIsRegistered'
    BY <1>12 DEF UnwindEnd, ScheduleEvict, RunTypes, Names, StatusOfTask, RunningIsRegistered, Runs, Started
  <1>13. ASSUME NEW r \in Started, EvictFire(r)
        PROVE  RunningIsRegistered'
    BY <1>13 DEF EvictFire, subVars, RunTypes, Names, StatusOfTask, RunningIsRegistered, Runs, Started
  <1>14. ASSUME NEW c \in Subs, Subscribe(c)
        PROVE  RunningIsRegistered'
    BY <1>14 DEF Subscribe, runVars, RunTypes, Names, StatusOfTask, RunningIsRegistered, Runs, Started
  <1>15. ASSUME NEW c \in Subs, Replay(c)
        PROVE  RunningIsRegistered'
    BY <1>15 DEF Replay, SendFromBuffer, runVars, RunTypes, Names, StatusOfTask, RunningIsRegistered, Runs, Started
  <1>16. ASSUME NEW c \in Subs, ReplayDone(c)
        PROVE  RunningIsRegistered'
    BY <1>16 DEF ReplayDone, Leave, ScheduleEvict, runVars, RunTypes, Names, StatusOfTask, RunningIsRegistered, Runs, Started
  <1>17. ASSUME NEW c \in Subs, Receive(c)
        PROVE  RunningIsRegistered'
    BY <1>17 DEF Receive, runVars, RunTypes, Names, StatusOfTask, RunningIsRegistered, Runs, Started
  <1>18. ASSUME NEW c \in Subs, TimeoutEnd(c)
        PROVE  RunningIsRegistered'
    BY <1>18 DEF TimeoutEnd, runVars, RunTypes, Names, StatusOfTask, RunningIsRegistered, Runs, Started
  <1>19. ASSUME NEW c \in Subs, Flush(c)
        PROVE  RunningIsRegistered'
    BY <1>19 DEF Flush, SendFromBuffer, runVars, RunTypes, Names, StatusOfTask, RunningIsRegistered, Runs, Started
  <1>20. ASSUME NEW c \in Subs, FlushDone(c)
        PROVE  RunningIsRegistered'
    BY <1>20 DEF FlushDone, Leave, ScheduleEvict, runVars, RunTypes, Names, StatusOfTask, RunningIsRegistered, Runs, Started
  <1>21. ASSUME NEW c \in Subs, Disconnect(c)
        PROVE  RunningIsRegistered'
    BY <1>21 DEF Disconnect, Leave, ScheduleEvict, runVars, RunTypes, Names, StatusOfTask, RunningIsRegistered, Runs, Started
  <1>22. CASE UNCHANGED vars
    BY <1>22 DEF vars, RunTypes, Names, StatusOfTask, RunningIsRegistered, Runs, Started
  <1>23. QED
    BY <1>1, <1>2, <1>3, <1>4, <1>5, <1>6, <1>7, <1>8, <1>9, <1>10, <1>11, <1>12,
       <1>13, <1>14, <1>15, <1>16, <1>17, <1>18, <1>19, <1>20, <1>21, <1>22
       DEF Next, Request, TaskStep, GeneratorStep, ResponseStep

-----------------------------------------------------------------------------
(***************************************************************************)
(* The save barrier.                                                       *)
(***************************************************************************)

\* A run whose predecessor is done has nothing left to wait for: the
\* predecessor waited for the runs before it, or it was cut.
LEMMA PrevDoneSettles ==
  ASSUME RunTypes, Names, Chain, NEW r \in Started, PrevDone(r)
  PROVE  Settled(sess[r], r)
  <1>0. sess[r] \in Sessions /\ Started \subseteq Runs
    BY StartedRuns DEF RunTypes
  <1>1. CASE prev[r] = 0
    BY <1>0, <1>1 DEF Chain
  <1>2. CASE prev[r] # 0
    <2> DEFINE p == prev[r]
    <2>1. p \in Started /\ p < r /\ sess[p] = sess[r] /\ pc[p] = "done" /\ r \in Nat
      BY <1>2, BoundsAssumption DEF Chain, PrevDone, Names, RunTypes, Runs, Started
    <2>2. p \in cut \/ Settled(sess[r], p)
      BY <1>0, <2>1 DEF Chain
    <2>3. \A q \in Started : (q < r /\ sess[q] = sess[r]) => q <= p
      BY <1>2, <2>1 DEF Chain, Started, RunTypes
    <2> HIDE DEF p
    <2> SUFFICES ASSUME NEW q \in Started, q < r, sess[q] = sess[r], pc[q] # "done"
                 PROVE  \E m \in q .. r - 1 : sess[m] = sess[r] /\ m \in cut
      BY DEF Settled
    <2>4. q < p /\ q \in Nat /\ p \in Nat
      BY <2>1, <2>3 DEF Started
    <2>5. CASE p \in cut
      BY <2>1, <2>4, <2>5
    <2>6. CASE Settled(sess[r], p)
      <3>1. PICK m \in q .. p - 1 : sess[m] = sess[r] /\ m \in cut
        BY <2>4, <2>6 DEF Settled
      <3>2. QED
        BY <2>1, <2>4, <3>1
    <2>7. QED
      BY <2>2, <2>5, <2>6
  <1>3. QED
    BY <1>1, <1>2

\* Finishing and cutting only settle more.
LEMMA SettledStays ==
  ASSUME NEW s, NEW n, Settled(s, n), UNCHANGED <<nrun, sess>>, cut \subseteq cut',
         \A q \in Started : pc[q] = "done" => pc'[q] = "done"
  PROVE  Settled(s, n)'
  BY DEF Settled, Started

\* A step of one task keeps the chain if it starts work, or finishes, only when
\* settled or cut.
LEMMA TaskKeepsChain ==
  ASSUME RunTypes, Chain, NEW r \in Started, pc[r] # "done", NEW x,
         pc' = [pc EXCEPT ![r] = x], cut \subseteq cut', cut' \subseteq cut \cup {r},
         UNCHANGED <<nrun, sess, prev, registry>>,
         x \in {"draining", "unwinding"} => Settled(sess[r], r),
         x = "done" => r \in cut' \/ Settled(sess[r], r)
  PROVE  Chain'
  <1>1. Started' = Started /\ Started \subseteq Runs /\ r \in Runs
    BY StartedRuns DEF Started
  <1>2. \A q \in Started : pc'[q] = IF q = r THEN x ELSE pc[q]
    BY <1>1 DEF RunTypes
  <1>3. \A q \in Started : pc[q] = "done" => pc'[q] = "done"
    BY <1>2
  <1>4. \A s, n : Settled(s, n) => Settled(s, n)'
    BY <1>3, SettledStays
  <1>5. \A t \in Sessions, q \in Started' :
          (sess'[q] = t /\ (prev'[q] = 0 \/ Working(q)')) => Settled(t, q)'
    BY <1>1, <1>2, <1>4 DEF Working, Chain
  <1>6. \A t \in Sessions, q \in Started' :
          (sess'[q] = t /\ pc'[q] = "done") => q \in cut' \/ Settled(t, q)'
    BY <1>1, <1>2, <1>4 DEF Chain
  <1>7. \A t \in Sessions : registry'[t] = 0 => Settled(t, MaxRuns + 1)'
    BY <1>4 DEF Chain
  <1>8. QED
    BY <1>1, <1>5, <1>6, <1>7 DEF Chain

\* A step that leaves the tasks alone keeps the chain.
LEMMA IdleKeepsChain ==
  ASSUME Chain, UNCHANGED <<nrun, sess, prev, registry, pc, cut>>
  PROVE  Chain'
  BY DEF Chain, Settled, Working, Started

\* start() extends the chain: the run it replaces is the session's latest.
LEMMA StartKeepsChain ==
  ASSUME RunTypes, Names, Chain, NEW s \in Sessions, NEW c \in Subs, Start(s, c)
  PROVE  Chain'
  <1>1. PICK p, n : p = registry[s] /\ n = nrun + 1
    OBVIOUS
  <1>2. /\ n \in Runs /\ n \in Nat /\ n \notin Started /\ nrun' = n
        /\ Started' = Started \cup {n}
        /\ \A q \in Started : q \in Nat /\ q < n /\ q \in Runs
        /\ p # 0 => p \in Started /\ sess[p] = s
        /\ cut' = cut
    BY <1>1, StartEffect DEF Runs
  <1>3. /\ \A q \in Started : pc'[q] = pc[q] /\ sess'[q] = sess[q] /\ prev'[q] = prev[q]
        /\ pc'[n] = "created" /\ sess'[n] = s
        /\ prev'[n] = IF InFlight(p) THEN p ELSE 0
        /\ \A t \in Sessions : registry'[t] = IF t = s THEN n ELSE registry[t]
    BY <1>1, <1>2, StartEffect DEF RunTypes
  <1>4. \A t : \A k \in Nat : ((k <= n \/ t # s) /\ Settled(t, k)) => Settled(t, k)'
    <2> SUFFICES ASSUME NEW t, NEW k \in Nat, k <= n \/ t # s, Settled(t, k),
                        NEW q \in Started', q < k, sess'[q] = t, pc'[q] # "done"
                 PROVE  \E m \in q .. k - 1 : sess'[m] = t /\ m \in cut'
      BY DEF Settled
    <2>1. q \in Started /\ sess[q] = t /\ pc[q] # "done"
      BY <1>2, <1>3
    <2>2. PICK m \in q .. k - 1 : sess[m] = t /\ m \in cut
      BY <2>1 DEF Settled
    <2>3. m \in Started
      BY <2>2 DEF Chain
    <2>4. QED
      BY <1>2, <1>3, <2>2, <2>3
  <1>5. \A q \in Started : q \in Nat /\ q <= n
    BY <1>2
  <1>6. ~InFlight(p) => Settled(s, n)
    <2>1. CASE p = 0
      <3> SUFFICES ASSUME NEW q \in Started, sess[q] = s, pc[q] # "done"
                   PROVE  \E m \in q .. n - 1 : sess[m] = s /\ m \in cut
        BY DEF Settled
      <3>a. Settled(s, MaxRuns + 1)
        BY <1>1, <2>1 DEF Chain
      <3>1. q < MaxRuns + 1 /\ Settled(s, MaxRuns + 1)
        BY <1>2, <3>a, BoundsAssumption DEF Runs
      <3>2. PICK m \in q .. (MaxRuns + 1) - 1 : sess[m] = s /\ m \in cut
        BY <3>1 DEF Settled
      <3>3. m \in Started
        BY <3>2 DEF Chain
      <3>4. m \in q .. n - 1
        BY <1>2, <3>2, <3>3
      <3>5. QED
        BY <3>2, <3>4
    <2>2. CASE p # 0 /\ ~InFlight(p)
      <3>1. pc[p] = "done" /\ p \in Started /\ sess[p] = s
        BY <1>2, <2>2 DEF InFlight
      <3>2. p \in cut \/ Settled(s, p)
        BY <3>1 DEF Chain
      <3>3. \A q \in Started : sess[q] = s => q <= p
        BY <1>1, <2>2 DEF Chain
      <3> SUFFICES ASSUME NEW q \in Started, sess[q] = s, pc[q] # "done"
                   PROVE  \E m \in q .. n - 1 : sess[m] = s /\ m \in cut
        BY DEF Settled
      <3>4. q < p /\ p < n /\ q \in Nat /\ p \in Nat
        BY <1>2, <3>1, <3>3
      <3>5. CASE p \in cut
        BY <1>2, <3>1, <3>4, <3>5
      <3>6. CASE Settled(s, p)
        <4>1. PICK m \in q .. p - 1 : sess[m] = s /\ m \in cut
          BY <3>4, <3>6 DEF Settled
        <4>2. QED
          BY <1>2, <3>4, <4>1
      <3>7. QED
        BY <3>2, <3>5, <3>6
    <2>3. QED
      BY <2>1, <2>2
  <1>7. \A t \in Sessions, q \in Started' :
          (sess'[q] = t /\ (prev'[q] = 0 \/ Working(q)')) => Settled(t, q)'
    <2> SUFFICES ASSUME NEW t \in Sessions, NEW q \in Started', sess'[q] = t,
                        prev'[q] = 0 \/ pc'[q] \in {"draining", "unwinding"}
                 PROVE  Settled(t, q)'
      BY DEF Working
    <2>1. CASE q = n
      <3>1. t = s /\ ~InFlight(p)
        BY <1>3, <2>1 DEF InFlight
      <3>2. QED
        BY <1>2, <1>4, <1>6, <2>1, <3>1
    <2>2. CASE q # n
      <3>1. q \in Started /\ q \in Nat /\ q <= n /\ sess[q] = t
        BY <1>2, <1>3, <2>2
      <3>2. Settled(t, q)
        BY <1>3, <3>1 DEF Chain, Working
      <3>3. QED
        BY <1>4, <3>1, <3>2
    <2>3. QED
      BY <2>1, <2>2
  <1>8. \A q \in Started' : prev'[q] # 0 =>
          /\ sess'[prev'[q]] = sess'[q]
          /\ \A k \in Started' : (prev'[q] < k /\ k < q) => sess'[k] # sess'[q]
    <2> SUFFICES ASSUME NEW q \in Started', prev'[q] # 0
                 PROVE  /\ sess'[prev'[q]] = sess'[q]
                        /\ \A k \in Started' : (prev'[q] < k /\ k < q) => sess'[k] # sess'[q]
      OBVIOUS
    <2>1. CASE q = n
      <3>1. prev'[q] = p /\ p # 0 /\ p \in Started /\ sess[p] = s
        BY <1>2, <1>3, <2>1 DEF InFlight
      <3>2. \A k \in Started : sess[k] = s => k <= p
        BY <1>1, <3>1 DEF Chain
      <3>3. QED
        BY <1>2, <1>3, <2>1, <3>1, <3>2
    <2>2. CASE q # n
      <3>1. q \in Started /\ prev'[q] = prev[q]
        BY <1>2, <1>3, <2>2
      <3>2. prev[q] \in Started
        BY <1>2, <3>1, BoundsAssumption DEF Names, RunTypes, Runs, Started
      <3>3. QED
        BY <1>2, <1>3, <3>1, <3>2 DEF Chain
    <2>3. QED
      BY <2>1, <2>2
  <1>9. \A t \in Sessions, q \in Started' :
          (sess'[q] = t /\ pc'[q] = "done") => q \in cut' \/ Settled(t, q)'
    <2> SUFFICES ASSUME NEW t \in Sessions, NEW q \in Started', sess'[q] = t,
                        pc'[q] = "done", q \notin cut'
                 PROVE  Settled(t, q)'
      OBVIOUS
    <2>1. q \in Started /\ q \in Nat /\ q <= n /\ sess[q] = t /\ pc[q] = "done" /\ q \notin cut
      BY <1>2, <1>3
    <2>2. Settled(t, q)
      BY <2>1 DEF Chain
    <2>3. QED
      BY <1>4, <2>1, <2>2
  <1>10. \A t \in Sessions : registry'[t] # 0 => \A q \in Started' : sess'[q] = t => q <= registry'[t]
    BY <1>2, <1>3 DEF Chain
  <1>11. \A t \in Sessions : registry'[t] = 0 => Settled(t, MaxRuns + 1)'
    <2> SUFFICES ASSUME NEW t \in Sessions, registry'[t] = 0
                 PROVE  Settled(t, MaxRuns + 1)'
      OBVIOUS
    <2>1. t # s /\ Settled(t, MaxRuns + 1)
      BY <1>2, <1>3 DEF Chain, Runs
    <2>2. QED
      BY <1>4, <2>1, BoundsAssumption
  <1>12. cut' \subseteq Started'
    BY <1>2 DEF Chain
  <1>13. QED
    BY <1>7, <1>8, <1>9, <1>10, <1>11, <1>12 DEF Chain

\* Eviction removes a run that is done, or cuts it.
LEMMA EvictKeepsChain ==
  ASSUME RunTypes, Names, Chain, NEW r \in Started, EvictFire(r)
  PROVE  Chain'
  <1>1. /\ Started' = Started /\ Started \subseteq Runs
        /\ UNCHANGED <<nrun, sess, prev, pc>>
        /\ cut \subseteq cut' /\ cut' \subseteq Started
    BY StartedRuns DEF EvictFire, Started, Chain
  <1>2. \A t, n : Settled(t, n) => Settled(t, n)'
    BY <1>1, SettledStays
  <1>3. \A t \in Sessions : registry'[t] # 0 => registry'[t] = registry[t]
    BY DEF EvictFire, RunTypes
  <1>4. \A t \in Sessions : registry'[t] = 0 => Settled(t, MaxRuns + 1)'
    <2> SUFFICES ASSUME NEW t \in Sessions, registry'[t] = 0
                 PROVE  Settled(t, MaxRuns + 1)'
      OBVIOUS
    <2>1. CASE registry[t] = 0
      BY <1>2, <2>1 DEF Chain
    <2>2. CASE registry[t] # 0
      <3>1. t = sess[r] /\ registry[t] = r /\ (pc[r] # "done" => r \in cut')
        BY <2>2 DEF EvictFire, RunTypes
      <3> SUFFICES ASSUME NEW q \in Started, sess[q] = t, pc[q] # "done"
                   PROVE  \E m \in q .. (MaxRuns + 1) - 1 : sess[m] = t /\ m \in cut'
        BY <1>1 DEF Settled
      <3>2. r \in Nat /\ q \in Nat /\ r <= MaxRuns /\ q <= r
        BY <1>1, <2>2, <3>1, BoundsAssumption DEF Chain, Runs
      <3>3. CASE r \in cut'
        BY <3>1, <3>2, <3>3, BoundsAssumption
      <3>4. CASE r \notin cut'
        <4>1. Settled(t, r) /\ q < r
          BY <1>1, <3>1, <3>2, <3>4 DEF Chain
        <4>2. PICK m \in q .. r - 1 : sess[m] = t /\ m \in cut
          BY <4>1 DEF Settled
        <4>3. QED
          BY <1>1, <3>2, <4>2, BoundsAssumption
      <3>5. QED
        BY <3>3, <3>4
    <2>3. QED
      BY <2>1, <2>2
  <1>5. \A t \in Sessions, q \in Started' :
          (sess'[q] = t /\ (prev'[q] = 0 \/ Working(q)')) => Settled(t, q)'
    BY <1>1, <1>2 DEF Working, Chain
  <1>6. \A t \in Sessions, q \in Started' :
          (sess'[q] = t /\ pc'[q] = "done") => q \in cut' \/ Settled(t, q)'
    BY <1>1, <1>2 DEF Chain
  <1>7. QED
    BY <1>1, <1>3, <1>4, <1>5, <1>6 DEF Chain

\* Every step keeps the chain of predecessors.
LEMMA StepChain ==
  ASSUME RunTypes, Names, Chain, [Next]_vars
  PROVE  Chain'
  <1>1. ASSUME NEW s \in Sessions, NEW c \in Subs, Start(s, c)
        PROVE  Chain'
    BY <1>1, StartKeepsChain
  <1>2. ASSUME NEW s \in Sessions, NEW c \in Subs, Resume(s, c)
        PROVE  Chain'
    BY <1>2, IdleKeepsChain DEF Resume, Bind, runVars
  <1>3. ASSUME NEW s \in Sessions, Stop(s)
        PROVE  Chain'
    BY <1>3, IdleKeepsChain DEF Stop, subVars
  <1>4. ASSUME NEW r \in Started, EnterDrain(r)
        PROVE  Chain'
    <2>1. PrevDone(r) => Settled(sess[r], r)
      BY PrevDoneSettles
    <2>2. CASE r \in cancel
      BY <1>4, <2>1, <2>2, TaskKeepsChain DEF EnterDrain
    <2>3. CASE r \notin cancel /\ PrevDone(r)
      BY <1>4, <2>1, <2>3, TaskKeepsChain DEF EnterDrain
    <2>4. CASE r \notin cancel /\ ~PrevDone(r)
      BY <1>4, <2>4, TaskKeepsChain DEF EnterDrain
    <2>5. QED
      BY <2>2, <2>3, <2>4
  <1>5. ASSUME NEW r \in Started, PrevFinished(r)
        PROVE  Chain'
    <2>1. Settled(sess[r], r)
      BY <1>5, PrevDoneSettles DEF PrevFinished
    <2>2. QED
      BY <1>5, <2>1, TaskKeepsChain DEF PrevFinished
  <1>6. ASSUME NEW r \in Started, DeliverCancel(r)
        PROVE  Chain'
    <2>1. Settled(sess[r], r)
      BY <1>6, StartedRuns DEF DeliverCancel, Chain, Working, RunTypes
    <2>2. QED
      BY <1>6, <2>1, TaskKeepsChain DEF DeliverCancel
  <1>7. ASSUME NEW r \in Started, CancelWaiting(r)
        PROVE  Chain'
    <2>1. PrevDone(r) => Settled(sess[r], r)
      BY PrevDoneSettles
    <2>2. QED
      BY <1>7, <2>1, TaskKeepsChain DEF CancelWaiting
  <1>8. ASSUME NEW r \in Started, BarrierEnd(r)
        PROVE  Chain'
    <2>1. PrevDone(r) => Settled(sess[r], r)
      BY PrevDoneSettles
    <2>2. QED
      BY <1>8, <2>1, TaskKeepsChain DEF BarrierEnd
  <1>9. ASSUME NEW r \in Started, Publish(r)
        PROVE  Chain'
    BY <1>9, IdleKeepsChain DEF Publish
  <1>10. ASSUME NEW r \in Started, Complete(r)
        PROVE  Chain'
    <2>1. Settled(sess[r], r)
      BY <1>10, StartedRuns DEF Complete, Chain, Working, RunTypes
    <2>2. QED
      BY <1>10, <2>1, TaskKeepsChain DEF Complete
  <1>11. ASSUME NEW r \in Started, Fail(r)
        PROVE  Chain'
    <2>1. Settled(sess[r], r)
      BY <1>11, StartedRuns DEF Fail, Chain, Working, RunTypes
    <2>2. QED
      BY <1>11, <2>1, TaskKeepsChain DEF Fail
  <1>12. ASSUME NEW r \in Started, UnwindEnd(r)
        PROVE  Chain'
    <2>1. Settled(sess[r], r)
      BY <1>12, StartedRuns DEF UnwindEnd, Chain, Working, RunTypes
    <2>2. QED
      BY <1>12, <2>1, TaskKeepsChain DEF UnwindEnd
  <1>13. ASSUME NEW r \in Started, EvictFire(r)
        PROVE  Chain'
    BY <1>13, EvictKeepsChain
  <1>14. ASSUME NEW c \in Subs, Subscribe(c)
        PROVE  Chain'
    BY <1>14, IdleKeepsChain DEF Subscribe, runVars
  <1>15. ASSUME NEW c \in Subs, Replay(c)
        PROVE  Chain'
    BY <1>15, IdleKeepsChain DEF Replay, SendFromBuffer, runVars
  <1>16. ASSUME NEW c \in Subs, ReplayDone(c)
        PROVE  Chain'
    BY <1>16, IdleKeepsChain DEF ReplayDone, Leave, ScheduleEvict, runVars
  <1>17. ASSUME NEW c \in Subs, Receive(c)
        PROVE  Chain'
    BY <1>17, IdleKeepsChain DEF Receive, runVars
  <1>18. ASSUME NEW c \in Subs, TimeoutEnd(c)
        PROVE  Chain'
    BY <1>18, IdleKeepsChain DEF TimeoutEnd, runVars
  <1>19. ASSUME NEW c \in Subs, Flush(c)
        PROVE  Chain'
    BY <1>19, IdleKeepsChain DEF Flush, SendFromBuffer, runVars
  <1>20. ASSUME NEW c \in Subs, FlushDone(c)
        PROVE  Chain'
    BY <1>20, IdleKeepsChain DEF FlushDone, Leave, ScheduleEvict, runVars
  <1>21. ASSUME NEW c \in Subs, Disconnect(c)
        PROVE  Chain'
    BY <1>21, IdleKeepsChain DEF Disconnect, Leave, ScheduleEvict, runVars
  <1>22. CASE UNCHANGED vars
    BY <1>22, IdleKeepsChain DEF vars
  <1>23. QED
    BY <1>1, <1>2, <1>3, <1>4, <1>5, <1>6, <1>7, <1>8, <1>9, <1>10, <1>11, <1>12,
       <1>13, <1>14, <1>15, <1>16, <1>17, <1>18, <1>19, <1>20, <1>21, <1>22
       DEF Next, Request, TaskStep, GeneratorStep, ResponseStep

-----------------------------------------------------------------------------
(***************************************************************************)
(* Queues: what appending an event or a sentinel, and taking the head, do  *)
(* to the order of a queue.                                                *)
(***************************************************************************)

\* Items of one element appended to a queue.
LEMMA PutOne ==
  ASSUME NEW S, NEW q \in Seq(S), NEW x \in S
  PROVE  /\ q \o <<x>> \in Seq(S) /\ Len(q \o <<x>>) = Len(q) + 1 /\ q \o <<x>> # <<>>
         /\ \A i \in 1 .. Len(q) : (q \o <<x>>)[i] = q[i]
         /\ (q \o <<x>>)[Len(q) + 1] = x
  OBVIOUS

\* Three items put at once are three items put in turn.
LEMMA PutThree ==
  ASSUME NEW q \in Seq(QueueItems), NEW x \in QueueItems, NEW y \in QueueItems, NEW z \in QueueItems
  PROVE  q \o <<x, y, z>> = ((q \o <<x>>) \o <<y>>) \o <<z>>
  <1>1. q \o <<x, y, z>> \in Seq(QueueItems) /\ ((q \o <<x>>) \o <<y>>) \o <<z>> \in Seq(QueueItems)
    OBVIOUS
  <1>2. Len(q \o <<x, y, z>>) = Len(((q \o <<x>>) \o <<y>>) \o <<z>>)
    OBVIOUS
  <1>3. \A i \in 1 .. Len(q \o <<x, y, z>>) :
          (q \o <<x, y, z>>)[i] = (((q \o <<x>>) \o <<y>>) \o <<z>>)[i]
    OBVIOUS
  <1>4. QED
    BY <1>1, <1>2, <1>3, SeqEqual

\* An event's item is not the sentinel.
LEMMA ItemNotEnd == \A k \in Nat : Item(k + 1) # End /\ Item(k + 1).seq = k /\ Item(k + 1).ev = k + 1
  BY DEF Item, End

\* _wake_run_subscribers keeps a queue in order.
LEMMA InOrderEnd ==
  ASSUME NEW q \in Seq(QueueItems), NEW n \in Nat, InOrder(q, n)
  PROVE  InOrder(q \o <<End>>, n)
  <1> DEFINE p == q \o <<End>>
  <1>1. /\ Len(p) = Len(q) + 1 /\ p # <<>> /\ Len(q) \in Nat
        /\ \A i \in 1 .. Len(q) : p[i] = q[i]
        /\ p[Len(q) + 1] = End
    BY PutOne, ItemType
  <1> HIDE DEF p
  <1>2. \A i \in 1 .. Len(p) : p[i] # End => \E k \in 1 .. n : p[i] = Item(k)
    BY <1>1 DEF InOrder
  <1>3. \A i \in 1 .. Len(p) - 1 : (p[i] # End /\ p[i + 1] # End) => p[i + 1].seq = p[i].seq + 1
    BY <1>1 DEF InOrder
  <1>4. QED
    BY <1>1, <1>2, <1>3 DEF InOrder, p

\* _publish keeps a queue in order.
LEMMA InOrderNext ==
  ASSUME NEW q \in Seq(QueueItems), NEW n \in Nat, InOrder(q, n)
  PROVE  InOrder(q \o <<Item(n + 1)>>, n + 1)
  <1> DEFINE p == q \o <<Item(n + 1)>>
  <1>1. /\ Len(p) = Len(q) + 1 /\ p # <<>> /\ Len(q) \in Nat
        /\ \A i \in 1 .. Len(q) : p[i] = q[i]
        /\ p[Len(q) + 1] = Item(n + 1)
    BY PutOne, ItemType
  <1> HIDE DEF p
  <1>2. \A i \in 1 .. Len(p) : p[i] # End => \E k \in 1 .. n + 1 : p[i] = Item(k)
    BY <1>1 DEF InOrder
  <1>3. \A i \in 1 .. Len(p) - 1 : (p[i] # End /\ p[i + 1] # End) => p[i + 1].seq = p[i].seq + 1
    <2> SUFFICES ASSUME NEW i \in 1 .. Len(p) - 1, p[i] # End, p[i + 1] # End
                 PROVE  p[i + 1].seq = p[i].seq + 1
      OBVIOUS
    <2>1. CASE i < Len(q)
      BY <1>1, <2>1 DEF InOrder
    <2>2. CASE i = Len(q)
      <3>1. p[i] = q[Len(q)] /\ p[i + 1] = Item(n + 1) /\ q # <<>>
        BY <1>1, <2>2
      <3>2. q[Len(q)].seq = n - 1
        BY <3>1 DEF InOrder
      <3>3. QED
        BY <3>1, <3>2, ItemNotEnd
    <2>3. QED
      BY <1>1, <2>1, <2>2
  <1>4. p[Len(p)].seq = n
    BY <1>1, ItemNotEnd
  <1>5. QED
    BY <1>1, <1>2, <1>3, <1>4 DEF InOrder, p

\* q.get() keeps a queue in order.
LEMMA InOrderTail ==
  ASSUME NEW q \in Seq(QueueItems), NEW n \in Nat, InOrder(q, n), q # <<>>
  PROVE  InOrder(Tail(q), n)
  <1>1. /\ Tail(q) \in Seq(QueueItems) /\ Len(Tail(q)) = Len(q) - 1 /\ Len(q) \in Nat
        /\ \A i \in 1 .. Len(q) - 1 : Tail(q)[i] = q[i + 1]
    OBVIOUS
  <1>2. \A i \in 1 .. Len(Tail(q)) : Tail(q)[i] # End => \E k \in 1 .. n : Tail(q)[i] = Item(k)
    BY <1>1 DEF InOrder
  <1>3. \A i \in 1 .. Len(Tail(q)) - 1 : (Tail(q)[i] # End /\ Tail(q)[i + 1] # End)
           => Tail(q)[i + 1].seq = Tail(q)[i].seq + 1
    BY <1>1 DEF InOrder
  <1>4. (Tail(q) # <<>> /\ Tail(q)[Len(Tail(q))] # End) => Tail(q)[Len(Tail(q))].seq = n - 1
    BY <1>1 DEF InOrder
  <1>5. QED
    BY <1>2, <1>3, <1>4 DEF InOrder

\* A sentinel or the next event on the queue opens no gap.
LEMMA NoGapPut ==
  ASSUME NEW q \in Seq(QueueItems), NEW n \in Nat, NEW m \in Nat, NoGap(q, m, n)
  PROVE  NoGap(q \o <<End>>, m, n) /\ NoGap(q \o <<Item(n + 1)>>, m, n + 1)
  <1>1. \A x \in QueueItems : /\ q \o <<x>> # <<>>
                              /\ (q \o <<x>>)[1] = IF q = <<>> THEN x ELSE q[1]
    OBVIOUS
  <1>2. End \in QueueItems /\ Item(n + 1) \in QueueItems
    BY ItemType
  <1>3. NoGap(q \o <<End>>, m, n)
    BY <1>1, <1>2 DEF NoGap
  <1>4. NoGap(q \o <<Item(n + 1)>>, m, n + 1)
    <2>1. Item(n + 1).seq = n
      BY ItemNotEnd
    <2>2. CASE q = <<>>
      BY <1>1, <1>2, <2>1, <2>2 DEF NoGap
    <2>3. CASE q # <<>>
      BY <1>1, <1>2, <2>3 DEF NoGap
    <2>4. QED
      BY <2>2, <2>3
  <1>5. QED
    BY <1>3, <1>4

\* Taking an event leaves no gap, and the event is the next one or an old one.
LEMMA NoGapTail ==
  ASSUME NEW q \in Seq(QueueItems), NEW n \in Nat, NEW m \in Nat, m <= n,
         InOrder(q, n), NoGap(q, m, n), q # <<>>, q[1] # End,
         NEW l, l = IF q[1].seq >= m THEN q[1].seq + 1 ELSE m
  PROVE  /\ l \in Nat /\ l <= n /\ NoGap(Tail(q), l, n)
         /\ q[1].seq >= m => q[1].seq = m /\ q[1].ev = m + 1
  <1>1. /\ Tail(q) \in Seq(QueueItems) /\ Len(Tail(q)) = Len(q) - 1 /\ Len(q) \in Nat \ {0}
        /\ \A i \in 1 .. Len(q) - 1 : Tail(q)[i] = q[i + 1]
        /\ Tail(q) = <<>> <=> Len(q) = 1
    <2>1. /\ Tail(q) \in Seq(QueueItems) /\ Len(Tail(q)) = Len(q) - 1 /\ Len(q) \in Nat \ {0}
      BY HeadTailProperties, EmptySeq
    <2>2. \A i \in 1 .. Len(q) - 1 : Tail(q)[i] = q[i + 1]
      BY HeadTailProperties, <2>1
    <2>3. Tail(q) = <<>> <=> Len(q) = 1
      <3>1. Tail(q) = <<>> <=> Len(Tail(q)) = 0
        BY <2>1
      <3>2. QED
        BY <2>1, <3>1
    <2>4. QED
      BY <2>1, <2>2, <2>3
  <1>2. PICK k \in 1 .. n : q[1] = Item(k)
    BY <1>1 DEF InOrder
  <1>3. q[1].seq = k - 1 /\ q[1].ev = k /\ k - 1 <= m
    BY <1>2 DEF NoGap, Item
  <1>4. l \in Nat /\ l <= n /\ k <= l
    BY <1>3
  <1>5. CASE Len(q) = 1
    <2>1. q[1].seq = n - 1
      BY <1>5 DEF InOrder
    <2>2. QED
      BY <1>1, <1>3, <1>4, <1>5, <2>1 DEF NoGap
  <1>6. CASE Len(q) > 1
    <2>1. Tail(q)[1] = q[2] /\ Tail(q) # <<>>
      BY <1>1, <1>6
    <2>2. q[2] # End => q[2].seq = k
      BY <1>1, <1>3, <1>6 DEF InOrder
    <2>3. QED
      BY <1>3, <1>4, <2>1, <2>2 DEF NoGap
  <1>7. QED
    BY <1>1, <1>5, <1>6

\* A response that has read the whole log has no gap.
LEMMA NoGapFull ==
  ASSUME NEW q \in Seq(QueueItems), NEW n \in Nat, InOrder(q, n)
  PROVE  NoGap(q, n, n)
  <1>1. CASE q = <<>>
    BY <1>1 DEF NoGap
  <1>2. CASE q # <<>> /\ q[1] # End
    <2>1. 1 \in 1 .. Len(q)
      BY <1>2
    <2>2. PICK k \in 1 .. n : q[1] = Item(k)
      BY <1>2, <2>1 DEF InOrder
    <2>3. QED
      BY <1>2, <2>2 DEF NoGap, Item
  <1>3. QED
    BY <1>1, <1>2 DEF NoGap

-----------------------------------------------------------------------------
(***************************************************************************)
(* Delivery.                                                               *)
(***************************************************************************)

AllTypes == RunTypes /\ ResponseTypes /\ LogTypes /\ Names

\* An event numbered by its place extends a log.
LEMMA NumberedAppend ==
  ASSUME NEW q \in Seq(Events), \A i \in 1 .. Len(q) : q[i] = i
  PROVE  LET a == Append(q, Len(q) + 1)
             b == q \o <<Len(q) + 1, Len(q) + 2>>
         IN  /\ Len(a) = Len(q) + 1 /\ \A i \in 1 .. Len(a) : a[i] = i
             /\ Len(b) = Len(q) + 2 /\ \A i \in 1 .. Len(b) : b[i] = i
  OBVIOUS

\* A response names a run, whose log is a sequence of events.
LEMMA ResponseLog ==
  ASSUME AllTypes, NEW c \in Subs, spc[c] # "free"
  PROVE  /\ srun[c] \in Runs /\ srun[c] \in Started
         /\ buffer[srun[c]] \in Seq(Events) /\ Len(buffer[srun[c]]) \in Nat
         /\ nextSeq[c] \in Nat /\ queue[c] \in Seq(QueueItems) /\ got[c] \in Seq(Events)
  <1>1. srun[c] \in Started /\ Started \subseteq Runs
    BY StartedRuns DEF AllTypes, Names
  <1>2. QED
    BY <1>1 DEF AllTypes, LogTypes, ResponseTypes

\* Every step keeps what was sent a prefix of the log.
LEMMA StepLog ==
  ASSUME AllTypes, Log, QueueOrder, LiveNext, [Next]_vars
  PROVE  Log'
  <1>1. ASSUME NEW s \in Sessions, NEW c \in Subs, Start(s, c)
        PROVE  Log'
    <2>1. srun'[c] \in Runs /\ spc[c] \notin Attached
      BY <1>1, StartEffect DEF Start, Bind, AllTypes, RunTypes, ResponseTypes, Runs, Attached
    <2>2. /\ spc' = [spc EXCEPT ![c] = "bound"]
          /\ nextSeq' = [nextSeq EXCEPT ![c] = 0]
          /\ got' = [got EXCEPT ![c] = <<>>]
          /\ \A d \in Subs : d # c => srun'[d] = srun[d]
          /\ buffer' = buffer
          /\ \A d \in Subs : spc[d] \notin Attached => queue'[d] = queue[d]
      BY <1>1 DEF Start, Bind, Terminalize, PutAll, Subscribers, runVars, AllTypes, ResponseTypes
    <2>3. Len(buffer[srun'[c]]) \in Nat
      BY <2>1 DEF AllTypes, LogTypes
    <2>4. \A d \in Subs : Len(got'[d]) = nextSeq'[d] /\ \A i \in 1 .. Len(got'[d]) : got'[d][i] = i
      BY <2>2 DEF Log, AllTypes, LogTypes, ResponseTypes
    <2>5. \A d \in Subs : spc'[d] # "free" => nextSeq'[d] <= Len(buffer'[srun'[d]])
      BY <2>2, <2>3 DEF Log, AllTypes, ResponseTypes
    <2>6. \A d \in Subs : spc'[d] \notin Attached => queue'[d] = <<>>
      BY <2>1, <2>2 DEF Log, AllTypes, ResponseTypes
    <2>7. \A d \in Subs : spc'[d] = "bound" => nextSeq'[d] = 0
      BY <2>2 DEF Log, AllTypes, ResponseTypes
    <2>8. QED
      BY <2>2, <2>4, <2>5, <2>6, <2>7 DEF Log
  <1>2. ASSUME NEW s \in Sessions, NEW c \in Subs, Resume(s, c)
        PROVE  Log'
    <2>1. srun'[c] \in Runs /\ spc[c] \notin Attached
      BY <1>2, StartEffect DEF Resume, Bind, AllTypes, RunTypes, ResponseTypes, Runs, Attached
    <2>2. /\ spc' = [spc EXCEPT ![c] = "bound"]
          /\ nextSeq' = [nextSeq EXCEPT ![c] = 0]
          /\ got' = [got EXCEPT ![c] = <<>>]
          /\ \A d \in Subs : d # c => srun'[d] = srun[d]
          /\ buffer' = buffer
          /\ \A d \in Subs : spc[d] \notin Attached => queue'[d] = queue[d]
      BY <1>2 DEF Resume, Bind, Terminalize, PutAll, Subscribers, runVars, AllTypes, ResponseTypes
    <2>3. Len(buffer[srun'[c]]) \in Nat
      BY <2>1 DEF AllTypes, LogTypes
    <2>4. \A d \in Subs : Len(got'[d]) = nextSeq'[d] /\ \A i \in 1 .. Len(got'[d]) : got'[d][i] = i
      BY <2>2 DEF Log, AllTypes, LogTypes, ResponseTypes
    <2>5. \A d \in Subs : spc'[d] # "free" => nextSeq'[d] <= Len(buffer'[srun'[d]])
      BY <2>2, <2>3 DEF Log, AllTypes, ResponseTypes
    <2>6. \A d \in Subs : spc'[d] \notin Attached => queue'[d] = <<>>
      BY <2>1, <2>2 DEF Log, AllTypes, ResponseTypes
    <2>7. \A d \in Subs : spc'[d] = "bound" => nextSeq'[d] = 0
      BY <2>2 DEF Log, AllTypes, ResponseTypes
    <2>8. QED
      BY <2>2, <2>4, <2>5, <2>6, <2>7 DEF Log
  <1>3. ASSUME NEW s \in Sessions, Stop(s)
        PROVE  Log'
    BY <1>3 DEF Stop, subVars, Log
  <1>4. ASSUME NEW r \in Started, EnterDrain(r)
        PROVE  Log'
    BY <1>4 DEF EnterDrain, subVars, Log
  <1>5. ASSUME NEW r \in Started, PrevFinished(r)
        PROVE  Log'
    BY <1>5 DEF PrevFinished, subVars, Log
  <1>6. ASSUME NEW r \in Started, DeliverCancel(r)
        PROVE  Log'
    BY <1>6 DEF DeliverCancel, subVars, Log
  <1>7. ASSUME NEW r \in Started, CancelWaiting(r)
        PROVE  Log'
    <2>1. \A d \in Subs : spc[d] \notin Attached => queue'[d] = queue[d]
      BY <1>7 DEF CancelWaiting, PutAll, Subscribers
    <2>2. QED
      BY <1>7, <2>1 DEF CancelWaiting, Log
  <1>8. ASSUME NEW r \in Started, BarrierEnd(r)
        PROVE  Log'
    BY <1>8 DEF BarrierEnd, ScheduleEvict, subVars, Log
  <1>9. ASSUME NEW r \in Started, Publish(r)
        PROVE  Log'
    <2>1. r \in Runs /\ buffer[r] \in Seq(Events) /\ \A i \in 1 .. Len(buffer[r]) : buffer[r][i] = i
      BY StartedRuns DEF AllTypes, LogTypes, Log
    <2>2. /\ Len(buffer'[r]) = Len(buffer[r]) + 1
          /\ \A i \in 1 .. Len(buffer'[r]) : buffer'[r][i] = i
          /\ \A q \in Runs : q # r => buffer'[q] = buffer[q]
      BY <1>9, <2>1, NumberedAppend DEF Publish, AllTypes, LogTypes
    <2>3. \A c \in Subs : spc[c] \notin Attached => queue'[c] = queue[c]
      BY <1>9 DEF Publish, PutAll, Subscribers
    <2>4. \A c \in Subs : spc[c] # "free" => nextSeq[c] <= Len(buffer'[srun[c]])
      <3> SUFFICES ASSUME NEW c \in Subs, spc[c] # "free" PROVE nextSeq[c] <= Len(buffer'[srun[c]])
        OBVIOUS
      <3>1. srun[c] \in Runs /\ nextSeq[c] \in Nat /\ Len(buffer[srun[c]]) \in Nat
        BY ResponseLog
      <3>2. QED
        BY <2>2, <3>1 DEF Log
    <2>5. QED
      BY <1>9, <2>2, <2>3, <2>4 DEF Publish, Log
  <1>10. ASSUME NEW r \in Started, Complete(r)
        PROVE  Log'
    <2>1. \A d \in Subs : spc[d] \notin Attached => queue'[d] = queue[d]
      BY <1>10 DEF Complete, PutAll, Subscribers
    <2>2. QED
      BY <1>10, <2>1 DEF Complete, Log
  <1>11. ASSUME NEW r \in Started, Fail(r)
        PROVE  Log'
    <2>1. r \in Runs /\ buffer[r] \in Seq(Events) /\ \A i \in 1 .. Len(buffer[r]) : buffer[r][i] = i
      BY StartedRuns DEF AllTypes, LogTypes, Log
    <2>2. /\ Len(buffer'[r]) = Len(buffer[r]) + 2
          /\ \A i \in 1 .. Len(buffer'[r]) : buffer'[r][i] = i
          /\ \A q \in Runs : q # r => buffer'[q] = buffer[q]
      BY <1>11, <2>1, NumberedAppend DEF Fail, AllTypes, LogTypes
    <2>3. \A c \in Subs : spc[c] \notin Attached => queue'[c] = queue[c]
      BY <1>11 DEF Fail, PutAll, Subscribers
    <2>4. \A c \in Subs : spc[c] # "free" => nextSeq[c] <= Len(buffer'[srun[c]])
      <3> SUFFICES ASSUME NEW c \in Subs, spc[c] # "free" PROVE nextSeq[c] <= Len(buffer'[srun[c]])
        OBVIOUS
      <3>1. srun[c] \in Runs /\ nextSeq[c] \in Nat /\ Len(buffer[srun[c]]) \in Nat
        BY ResponseLog
      <3>2. QED
        BY <2>2, <3>1 DEF Log
    <2>5. QED
      BY <1>11, <2>2, <2>3, <2>4 DEF Fail, Log
  <1>12. ASSUME NEW r \in Started, UnwindEnd(r)
        PROVE  Log'
    <2>1. \A d \in Subs : spc[d] \notin Attached => queue'[d] = queue[d]
      BY <1>12 DEF UnwindEnd, PutAll, Subscribers
    <2>2. QED
      BY <1>12, <2>1 DEF UnwindEnd, Log
  <1>13. ASSUME NEW r \in Started, EvictFire(r)
        PROVE  Log'
    BY <1>13 DEF EvictFire, subVars, Log
  <1>14. ASSUME NEW c \in Subs, Subscribe(c)
        PROVE  Log'
    BY <1>14 DEF Subscribe, runVars, AllTypes, ResponseTypes, LogTypes, Log, Attached
  <1>15. ASSUME NEW c \in Subs, Replay(c)
        PROVE  Log'
    <2>1. /\ srun[c] \in Runs /\ nextSeq[c] \in Nat /\ Len(buffer[srun[c]]) \in Nat
          /\ got[c] \in Seq(Events) /\ spc[c] # "free" /\ spc[c] # "bound"
      BY <1>15, ResponseLog DEF Replay
    <2>2. /\ got' = [got EXCEPT ![c] = Append(got[c], buffer[srun[c]][nextSeq[c] + 1])]
          /\ nextSeq' = [nextSeq EXCEPT ![c] = nextSeq[c] + 1]
          /\ nextSeq[c] < Len(buffer[srun[c]])
          /\ UNCHANGED <<buffer, spc, srun, queue>>
      BY <1>15 DEF Replay, SendFromBuffer, runVars
    <2>3. buffer[srun[c]][nextSeq[c] + 1] = nextSeq[c] + 1 /\ Len(got[c]) = nextSeq[c]
      BY <2>1, <2>2 DEF Log
    <2>4. /\ Len(got'[c]) = nextSeq'[c]
          /\ \A i \in 1 .. Len(got'[c]) : got'[c][i] = i
          /\ nextSeq'[c] <= Len(buffer[srun[c]])
      BY <2>1, <2>2, <2>3, NumberedAppend DEF Log, AllTypes, LogTypes, ResponseTypes
    <2>5. \A d \in Subs : d # c => got'[d] = got[d] /\ nextSeq'[d] = nextSeq[d]
      BY <2>2 DEF AllTypes, LogTypes, ResponseTypes
    <2>6. QED
      BY <2>1, <2>2, <2>4, <2>5 DEF Log
  <1>16. ASSUME NEW c \in Subs, ReplayDone(c)
        PROVE  Log'
    BY <1>16 DEF ReplayDone, Leave, ScheduleEvict, runVars, AllTypes, ResponseTypes, LogTypes, Log, Attached
  <1>17. ASSUME NEW c \in Subs, Receive(c)
        PROVE  Log'
    <2>1. /\ spc[c] = "live" /\ queue[c] # <<>> /\ queue' = [queue EXCEPT ![c] = Tail(queue[c])]
          /\ UNCHANGED <<buffer, srun>>
      BY <1>17 DEF Receive, runVars
    <2> DEFINE q == queue[c]
               m == nextSeq[c]
               n == Len(buffer[srun[c]])
    <2>2. q \in Seq(QueueItems) /\ n \in Nat /\ m \in Nat /\ m <= n /\ got[c] \in Seq(Events) /\ Head(q) = q[1]
      BY <2>1, ResponseLog DEF Log
    <2>3. InOrder(q, n) /\ NoGap(q, m, n)
      BY <2>1 DEF QueueOrder, LiveNext
    <2>4. spc'[c] \in {"live", "flush"} /\ \A d \in Subs : d # c =>
            /\ spc'[d] = spc[d] /\ queue'[d] = queue[d] /\ got'[d] = got[d] /\ nextSeq'[d] = nextSeq[d]
      BY <1>17, <2>1 DEF Receive, AllTypes, LogTypes, ResponseTypes
    <2>5. Len(got'[c]) = nextSeq'[c] /\ nextSeq'[c] <= n /\ \A i \in 1 .. Len(got'[c]) : got'[c][i] = i
      <3>1. CASE nextSeq'[c] = m /\ got'[c] = got[c]
        BY <2>2, <3>1 DEF Log
      <3>2. CASE q[1] # End /\ q[1].seq >= m /\ got'[c] = Append(got[c], q[1].ev) /\ nextSeq'[c] = q[1].seq + 1
        <4>1. PICK l : l = IF q[1].seq >= m THEN q[1].seq + 1 ELSE m
          OBVIOUS
        <4>2. l <= n /\ q[1].seq = m /\ q[1].ev = m + 1
          BY <2>1, <2>2, <2>3, <3>2, <4>1, NoGapTail
        <4>3. Len(got[c]) = m /\ \A i \in 1 .. Len(got[c]) : got[c][i] = i
          BY DEF Log
        <4>4. QED
          BY <2>2, <3>2, <4>1, <4>2, <4>3, NumberedAppend
      <3>3. QED
        BY <1>17, <2>2, <3>1, <3>2 DEF Receive, AllTypes, LogTypes, ResponseTypes
    <2>6. QED
      BY <2>1, <2>4, <2>5 DEF Log, Attached
  <1>18. ASSUME NEW c \in Subs, TimeoutEnd(c)
        PROVE  Log'
    BY <1>18 DEF TimeoutEnd, runVars, AllTypes, ResponseTypes, LogTypes, Log, Attached
  <1>19. ASSUME NEW c \in Subs, Flush(c)
        PROVE  Log'
    <2>1. /\ srun[c] \in Runs /\ nextSeq[c] \in Nat /\ Len(buffer[srun[c]]) \in Nat
          /\ got[c] \in Seq(Events) /\ spc[c] # "free" /\ spc[c] # "bound"
      BY <1>19, ResponseLog DEF Flush
    <2>2. /\ got' = [got EXCEPT ![c] = Append(got[c], buffer[srun[c]][nextSeq[c] + 1])]
          /\ nextSeq' = [nextSeq EXCEPT ![c] = nextSeq[c] + 1]
          /\ nextSeq[c] < Len(buffer[srun[c]])
          /\ UNCHANGED <<buffer, spc, srun, queue>>
      BY <1>19 DEF Flush, SendFromBuffer, runVars
    <2>3. buffer[srun[c]][nextSeq[c] + 1] = nextSeq[c] + 1 /\ Len(got[c]) = nextSeq[c]
      BY <2>1, <2>2 DEF Log
    <2>4. /\ Len(got'[c]) = nextSeq'[c]
          /\ \A i \in 1 .. Len(got'[c]) : got'[c][i] = i
          /\ nextSeq'[c] <= Len(buffer[srun[c]])
      BY <2>1, <2>2, <2>3, NumberedAppend DEF Log, AllTypes, LogTypes, ResponseTypes
    <2>5. \A d \in Subs : d # c => got'[d] = got[d] /\ nextSeq'[d] = nextSeq[d]
      BY <2>2 DEF AllTypes, LogTypes, ResponseTypes
    <2>6. QED
      BY <2>1, <2>2, <2>4, <2>5 DEF Log
  <1>20. ASSUME NEW c \in Subs, FlushDone(c)
        PROVE  Log'
    BY <1>20 DEF FlushDone, Leave, ScheduleEvict, runVars, AllTypes, ResponseTypes, LogTypes, Log, Attached
  <1>21. ASSUME NEW c \in Subs, Disconnect(c)
        PROVE  Log'
    <2>1. /\ spc' = [spc EXCEPT ![c] = "free"]
          /\ nextSeq' = [nextSeq EXCEPT ![c] = 0]
          /\ got' = [got EXCEPT ![c] = <<>>]
          /\ srun' = [srun EXCEPT ![c] = 0]
          /\ buffer' = buffer
          /\ queue'[c] = <<>> /\ \A d \in Subs : d # c => queue'[d] = queue[d]
      BY <1>21 DEF Disconnect, Leave, runVars, AllTypes, LogTypes, Log, Attached
    <2>2. \A d \in Subs : Len(got'[d]) = nextSeq'[d] /\ \A i \in 1 .. Len(got'[d]) : got'[d][i] = i
      BY <2>1 DEF Log, AllTypes, LogTypes, ResponseTypes
    <2>3. \A d \in Subs : spc'[d] # "free" => nextSeq'[d] <= Len(buffer'[srun'[d]])
      BY <2>1 DEF Log, AllTypes, ResponseTypes
    <2>4. QED
      BY <2>1, <2>2, <2>3 DEF Log, AllTypes, ResponseTypes
  <1>22. CASE UNCHANGED vars
    BY <1>22 DEF vars, Log, Attached
  <1>23. QED
    BY <1>1, <1>2, <1>3, <1>4, <1>5, <1>6, <1>7, <1>8, <1>9, <1>10, <1>11, <1>12,
       <1>13, <1>14, <1>15, <1>16, <1>17, <1>18, <1>19, <1>20, <1>21, <1>22
       DEF Next, Request, TaskStep, GeneratorStep, ResponseStep

Queues == QueueOrder /\ LiveNext

\* Nothing is out of order on an empty queue.
LEMMA EmptyInOrder == \A n : InOrder(<<>>, n)
  BY DEF InOrder

\* Waking the subscribers of a run keeps every queue in order.
LEMMA WakeKeepsQueues ==
  ASSUME AllTypes, Log, Queues, NEW r, PutAll(r, <<End>>), NEW d \in Subs
  PROVE  /\ InOrder(queue'[d], Len(buffer[srun[d]]))
         /\ spc[d] = "live" => NoGap(queue'[d], nextSeq[d], Len(buffer[srun[d]]))
  <1>1. CASE d \notin Subscribers(r)
    BY <1>1 DEF PutAll, Queues, QueueOrder, LiveNext
  <1>2. CASE d \in Subscribers(r)
    <2>1. queue'[d] = queue[d] \o <<End>> /\ spc[d] # "free"
      BY <1>2 DEF PutAll, Subscribers, Attached
    <2>2. /\ queue[d] \in Seq(QueueItems) /\ Len(buffer[srun[d]]) \in Nat /\ nextSeq[d] \in Nat
      BY <2>1, ResponseLog
    <2>3. InOrder(queue[d], Len(buffer[srun[d]]))
      BY DEF Queues, QueueOrder
    <2>4. spc[d] = "live" => NoGap(queue[d], nextSeq[d], Len(buffer[srun[d]]))
      BY DEF Queues, LiveNext
    <2>5. QED
      BY <2>1, <2>2, <2>3, <2>4, InOrderEnd, NoGapPut
  <1>3. QED
    BY <1>1, <1>2

\* Every step keeps the queues in order and without gaps.
LEMMA StepQueues ==
  ASSUME AllTypes, Log, Queues, [Next]_vars
  PROVE  Queues'
  <1>1. ASSUME NEW s \in Sessions, NEW c \in Subs, Start(s, c)
        PROVE  Queues'
    <2>1. /\ buffer' = buffer /\ spc'[c] = "bound"
          /\ \A d \in Subs : d # c => /\ spc'[d] = spc[d] /\ srun'[d] = srun[d] /\ nextSeq'[d] = nextSeq[d]
      BY <1>1 DEF Start, Bind, AllTypes, ResponseTypes
    <2>2. queue'[c] = <<>>
      BY <1>1 DEF Start, Bind, Terminalize, PutAll, Subscribers, Log, Attached
    <2>3. \A d \in Subs : /\ InOrder(queue'[d], Len(buffer[srun[d]]))
                          /\ spc[d] = "live" => NoGap(queue'[d], nextSeq[d], Len(buffer[srun[d]]))
      <3>1. CASE queue' = queue
        BY <3>1 DEF Queues, QueueOrder, LiveNext
      <3>2. CASE PutAll(registry[s], <<End>>)
        BY <3>2, WakeKeepsQueues
      <3>3. QED
        BY <1>1, <3>1, <3>2 DEF Start, Terminalize
    <2>4. QED
      BY <2>1, <2>2, <2>3, EmptyInOrder DEF Queues, QueueOrder, LiveNext
  <1>2. ASSUME NEW s \in Sessions, NEW c \in Subs, Resume(s, c)
        PROVE  Queues'
    <2>1. /\ buffer' = buffer /\ queue'[c] = <<>> /\ spc'[c] = "bound"
          /\ \A d \in Subs : d # c => /\ queue'[d] = queue[d] /\ spc'[d] = spc[d]
                                      /\ srun'[d] = srun[d] /\ nextSeq'[d] = nextSeq[d]
      BY <1>2 DEF Resume, Bind, runVars, AllTypes, ResponseTypes, LogTypes, Log, Attached
    <2>2. QED
      BY <2>1, EmptyInOrder DEF Queues, QueueOrder, LiveNext
  <1>3. ASSUME NEW s \in Sessions, Stop(s)
        PROVE  Queues'
    BY <1>3 DEF Stop, subVars, Queues, QueueOrder, LiveNext
  <1>4. ASSUME NEW r \in Started, EnterDrain(r)
        PROVE  Queues'
    BY <1>4 DEF EnterDrain, subVars, Queues, QueueOrder, LiveNext
  <1>5. ASSUME NEW r \in Started, PrevFinished(r)
        PROVE  Queues'
    BY <1>5 DEF PrevFinished, subVars, Queues, QueueOrder, LiveNext
  <1>6. ASSUME NEW r \in Started, DeliverCancel(r)
        PROVE  Queues'
    BY <1>6 DEF DeliverCancel, subVars, Queues, QueueOrder, LiveNext
  <1>7. ASSUME NEW r \in Started, CancelWaiting(r)
        PROVE  Queues'
    <2>1. PutAll(r, <<End>>) /\ UNCHANGED <<buffer, spc, srun, nextSeq>>
      BY <1>7 DEF CancelWaiting
    <2>2. QED
      BY <2>1, WakeKeepsQueues DEF Queues, QueueOrder, LiveNext
  <1>8. ASSUME NEW r \in Started, BarrierEnd(r)
        PROVE  Queues'
    BY <1>8 DEF BarrierEnd, ScheduleEvict, subVars, Queues, QueueOrder, LiveNext
  <1>9. ASSUME NEW r \in Started, Publish(r)
        PROVE  Queues'
    <2>1. r \in Runs /\ Len(buffer[r]) \in Nat
      BY StartedRuns DEF AllTypes, LogTypes
    <2> DEFINE k == Len(buffer[r])
    <2> SUFFICES ASSUME NEW d \in Subs
                 PROVE  /\ InOrder(queue'[d], Len(buffer'[srun[d]]))
                        /\ spc[d] = "live" => NoGap(queue'[d], nextSeq[d], Len(buffer'[srun[d]]))
      BY <1>9 DEF Publish, Queues, QueueOrder, LiveNext
    <2>2. InOrder(queue[d], Len(buffer[srun[d]])) /\ (spc[d] = "live" => NoGap(queue[d], nextSeq[d], Len(buffer[srun[d]])))
      BY DEF Queues, QueueOrder, LiveNext
    <2>3. CASE d \notin Subscribers(r)
      <3>1. queue'[d] = queue[d]
        BY <1>9, <2>3 DEF Publish, PutAll
      <3>2. CASE spc[d] \in Attached
        <4>1. srun[d] # r /\ srun[d] \in Runs
          BY <2>3, <3>2, ResponseLog DEF Subscribers, Attached
        <4>2. buffer'[srun[d]] = buffer[srun[d]]
          BY <1>9, <4>1 DEF Publish, AllTypes, LogTypes
        <4>3. QED
          BY <2>2, <3>1, <4>2
      <3>3. CASE spc[d] \notin Attached
        BY <3>1, <3>3, EmptyInOrder DEF Log, Attached
      <3>4. QED
        BY <3>2, <3>3
    <2>4. CASE d \in Subscribers(r)
      <3>1. srun[d] = r /\ spc[d] # "free"
        BY <2>4 DEF Subscribers, Attached
      <3>2. queue[d] \in Seq(QueueItems) /\ nextSeq[d] \in Nat
        BY <3>1, ResponseLog
      <3>3. queue'[d] = queue[d] \o <<Item(k + 1)>> /\ Len(buffer'[r]) = k + 1
        BY <1>9, <2>1, <2>4 DEF Publish, PutAll, AllTypes, LogTypes
      <3>4. QED
        BY <2>1, <2>2, <3>1, <3>2, <3>3, InOrderNext, NoGapPut
    <2>5. QED
      BY <2>3, <2>4
  <1>10. ASSUME NEW r \in Started, Complete(r)
        PROVE  Queues'
    <2>1. PutAll(r, <<End>>) /\ UNCHANGED <<buffer, spc, srun, nextSeq>>
      BY <1>10 DEF Complete
    <2>2. QED
      BY <2>1, WakeKeepsQueues DEF Queues, QueueOrder, LiveNext
  <1>11. ASSUME NEW r \in Started, Fail(r)
        PROVE  Queues'
    <2>1. r \in Runs /\ Len(buffer[r]) \in Nat
      BY StartedRuns DEF AllTypes, LogTypes
    <2> DEFINE k == Len(buffer[r])
    <2> SUFFICES ASSUME NEW d \in Subs
                 PROVE  /\ InOrder(queue'[d], Len(buffer'[srun[d]]))
                        /\ spc[d] = "live" => NoGap(queue'[d], nextSeq[d], Len(buffer'[srun[d]]))
      BY <1>11 DEF Fail, Queues, QueueOrder, LiveNext
    <2>2. InOrder(queue[d], Len(buffer[srun[d]])) /\ (spc[d] = "live" => NoGap(queue[d], nextSeq[d], Len(buffer[srun[d]])))
      BY DEF Queues, QueueOrder, LiveNext
    <2>3. CASE d \notin Subscribers(r)
      <3>1. queue'[d] = queue[d]
        BY <1>11, <2>3 DEF Fail, PutAll
      <3>2. CASE spc[d] \in Attached
        <4>1. srun[d] # r /\ srun[d] \in Runs
          BY <2>3, <3>2, ResponseLog DEF Subscribers, Attached
        <4>2. buffer'[srun[d]] = buffer[srun[d]]
          BY <1>11, <4>1 DEF Fail, AllTypes, LogTypes
        <4>3. QED
          BY <2>2, <3>1, <4>2
      <3>3. CASE spc[d] \notin Attached
        BY <3>1, <3>3, EmptyInOrder DEF Log, Attached
      <3>4. QED
        BY <3>2, <3>3
    <2>4. CASE d \in Subscribers(r)
      <3>1. srun[d] = r /\ spc[d] # "free"
        BY <2>4 DEF Subscribers, Attached
      <3>2. queue[d] \in Seq(QueueItems) /\ nextSeq[d] \in Nat
        BY <3>1, ResponseLog
      <3>3. queue'[d] = queue[d] \o <<Item(k + 1), Item((k + 1) + 1), End>>
        BY <1>11, <2>4 DEF Fail, PutAll
      <3>4. Len(buffer'[r]) = k + 2
        BY <1>11, <2>1 DEF Fail, AllTypes, LogTypes
      <3>5. End \in QueueItems /\ Item(k + 1) \in QueueItems /\ Item((k + 1) + 1) \in QueueItems
        BY <2>1, ItemType
      <3> DEFINE q1 == queue[d] \o <<Item(k + 1)>>
                 q2 == q1 \o <<Item((k + 1) + 1)>>
      <3>6. queue'[d] = q2 \o <<End>> /\ q1 \in Seq(QueueItems) /\ q2 \in Seq(QueueItems)
        <4>1. q1 \in Seq(QueueItems)
          BY <3>2, <3>5
        <4>2. q2 \in Seq(QueueItems)
          BY <3>5, <4>1
        <4>3. queue[d] \o <<Item(k + 1), Item((k + 1) + 1), End>> = q2 \o <<End>>
          BY <3>2, <3>5, PutThree
        <4>4. QED
          BY <3>3, <4>1, <4>2, <4>3
      <3>7. InOrder(q1, k + 1) /\ (spc[d] = "live" => NoGap(q1, nextSeq[d], k + 1))
        BY <2>1, <2>2, <3>1, <3>2, InOrderNext, NoGapPut
      <3>8. k + 1 \in Nat /\ (k + 1) + 1 = k + 2 /\ k + 2 \in Nat
        BY <2>1
      <3> HIDE DEF q1
      <3>9. InOrder(q2, k + 2) /\ (spc[d] = "live" => NoGap(q2, nextSeq[d], k + 2))
        <4>1. InOrder(q2, (k + 1) + 1)
          BY <3>6, <3>7, <3>8, InOrderNext
        <4>2. spc[d] = "live" => NoGap(q2, nextSeq[d], (k + 1) + 1)
          BY <3>2, <3>6, <3>7, <3>8, NoGapPut
        <4>3. QED
          BY <3>8, <4>1, <4>2
      <3> HIDE DEF q2
      <3>10. QED
        BY <3>1, <3>2, <3>4, <3>6, <3>8, <3>9, InOrderEnd, NoGapPut
    <2>5. QED
      BY <2>3, <2>4
  <1>12. ASSUME NEW r \in Started, UnwindEnd(r)
        PROVE  Queues'
    <2>1. PutAll(r, <<End>>) /\ UNCHANGED <<buffer, spc, srun, nextSeq>>
      BY <1>12 DEF UnwindEnd
    <2>2. QED
      BY <2>1, WakeKeepsQueues DEF Queues, QueueOrder, LiveNext
  <1>13. ASSUME NEW r \in Started, EvictFire(r)
        PROVE  Queues'
    BY <1>13 DEF EvictFire, subVars, Queues, QueueOrder, LiveNext
  <1>14. ASSUME NEW c \in Subs, Subscribe(c)
        PROVE  Queues'
    BY <1>14 DEF Subscribe, runVars, AllTypes, ResponseTypes, Queues, QueueOrder, LiveNext
  <1>15. ASSUME NEW c \in Subs, Replay(c)
        PROVE  Queues'
    BY <1>15 DEF Replay, SendFromBuffer, runVars, AllTypes, ResponseTypes, Queues, QueueOrder, LiveNext
  <1>16. ASSUME NEW c \in Subs, ReplayDone(c)
        PROVE  Queues'
    <2>1. UNCHANGED <<buffer, srun, nextSeq>> /\ \A d \in Subs : d # c => queue'[d] = queue[d] /\ spc'[d] = spc[d]
      BY <1>16 DEF ReplayDone, Leave, runVars, AllTypes, ResponseTypes, LogTypes
    <2>2. CASE status[srun[c]] # "running"
      <3>1. queue'[c] = <<>> /\ spc'[c] = "closed"
        BY <1>16, <2>2 DEF ReplayDone, Leave, AllTypes, ResponseTypes, LogTypes
      <3>2. QED
        BY <2>1, <3>1, EmptyInOrder DEF Queues, QueueOrder, LiveNext
    <2>3. CASE status[srun[c]] = "running"
      <3>1. queue' = queue /\ nextSeq[c] >= Len(buffer[srun[c]]) /\ spc[c] # "free"
        BY <1>16, <2>3 DEF ReplayDone
      <3>2. /\ queue[c] \in Seq(QueueItems) /\ Len(buffer[srun[c]]) \in Nat
            /\ nextSeq[c] = Len(buffer[srun[c]])
        BY <3>1, ResponseLog DEF Log
      <3>3. NoGap(queue[c], nextSeq[c], Len(buffer[srun[c]]))
        BY <3>2, NoGapFull DEF Queues, QueueOrder
      <3>4. QED
        BY <2>1, <3>1, <3>3 DEF Queues, QueueOrder, LiveNext
    <2>4. QED
      BY <2>2, <2>3
  <1>17. ASSUME NEW c \in Subs, Receive(c)
        PROVE  Queues'
    <2>1. /\ spc[c] = "live" /\ queue[c] # <<>> /\ queue' = [queue EXCEPT ![c] = Tail(queue[c])]
          /\ UNCHANGED <<buffer, srun>>
      BY <1>17 DEF Receive, runVars
    <2> DEFINE q == queue[c]
               m == nextSeq[c]
               n == Len(buffer[srun[c]])
    <2>2. q \in Seq(QueueItems) /\ n \in Nat /\ m \in Nat /\ m <= n /\ Head(q) = q[1]
      BY <2>1, ResponseLog DEF Log
    <2>3. InOrder(q, n) /\ NoGap(q, m, n)
      BY <2>1 DEF Queues, QueueOrder, LiveNext
    <2>4. \A d \in Subs : d # c => spc'[d] = spc[d] /\ queue'[d] = queue[d] /\ nextSeq'[d] = nextSeq[d]
      BY <1>17, <2>1 DEF Receive, AllTypes, LogTypes, ResponseTypes
    <2>5. queue'[c] = Tail(q) /\ InOrder(Tail(q), n)
      BY <2>1, <2>2, <2>3, InOrderTail DEF AllTypes, LogTypes
    <2>6. spc'[c] = "live" => NoGap(Tail(q), nextSeq'[c], n)
      <3> SUFFICES ASSUME spc'[c] = "live" PROVE NoGap(Tail(q), nextSeq'[c], n)
        OBVIOUS
      <3>1. q[1] # End /\ nextSeq'[c] = IF q[1].seq >= m THEN q[1].seq + 1 ELSE m
        <4>1. q[1] \in QueueItems
          BY <2>1, <2>2
        <4>2. q[1].seq \in Int
          BY <4>1 DEF QueueItems
        <4>3. QED
          BY <1>17, <2>2, <4>2 DEF Receive, AllTypes, ResponseTypes
      <3>2. QED
        BY <2>1, <2>2, <2>3, <3>1, NoGapTail
    <2>7. QED
      BY <2>1, <2>4, <2>5, <2>6 DEF Queues, QueueOrder, LiveNext
  <1>18. ASSUME NEW c \in Subs, TimeoutEnd(c)
        PROVE  Queues'
    BY <1>18 DEF TimeoutEnd, runVars, AllTypes, ResponseTypes, Queues, QueueOrder, LiveNext
  <1>19. ASSUME NEW c \in Subs, Flush(c)
        PROVE  Queues'
    BY <1>19 DEF Flush, SendFromBuffer, runVars, AllTypes, ResponseTypes, Queues, QueueOrder, LiveNext
  <1>20. ASSUME NEW c \in Subs, FlushDone(c)
        PROVE  Queues'
    <2>1. \A d \in Subs : d # c => queue'[d] = queue[d] /\ spc'[d] = spc[d]
      BY <1>20 DEF FlushDone, Leave, AllTypes, ResponseTypes, LogTypes
    <2>2. queue'[c] = <<>> /\ spc'[c] = "closed" /\ UNCHANGED <<buffer, srun, nextSeq>>
      BY <1>20 DEF FlushDone, Leave, runVars, AllTypes, ResponseTypes, LogTypes
    <2>3. QED
      BY <2>1, <2>2, EmptyInOrder DEF Queues, QueueOrder, LiveNext
  <1>21. ASSUME NEW c \in Subs, Disconnect(c)
        PROVE  Queues'
    <2>1. /\ buffer' = buffer /\ queue'[c] = <<>> /\ spc'[c] = "free"
          /\ \A d \in Subs : d # c => /\ queue'[d] = queue[d] /\ spc'[d] = spc[d]
                                      /\ srun'[d] = srun[d] /\ nextSeq'[d] = nextSeq[d]
      BY <1>21 DEF Disconnect, Leave, runVars, AllTypes, ResponseTypes, LogTypes, Log, Attached
    <2>2. QED
      BY <2>1, EmptyInOrder DEF Queues, QueueOrder, LiveNext
  <1>22. CASE UNCHANGED vars
    BY <1>22 DEF vars, Queues, QueueOrder, LiveNext
  <1>23. QED
    BY <1>1, <1>2, <1>3, <1>4, <1>5, <1>6, <1>7, <1>8, <1>9, <1>10, <1>11, <1>12,
       <1>13, <1>14, <1>15, <1>16, <1>17, <1>18, <1>19, <1>20, <1>21, <1>22
       DEF Next, Request, TaskStep, GeneratorStep, ResponseStep

-----------------------------------------------------------------------------
(***************************************************************************)
(* The end of a response.                                                  *)
(***************************************************************************)

\* A sentinel on the queue stays while other items arrive or leave.
LEMMA HasEndPut ==
  ASSUME NEW q \in Seq(QueueItems)
  PROVE  /\ HasEnd(q \o <<End>>)
         /\ \A x \in QueueItems : HasEnd(q) => HasEnd(q \o <<x>>)
         /\ \A x \in QueueItems : (HasEnd(q \o <<x>>) /\ x # End) => HasEnd(q)
  <1>1. \A x \in QueueItems : /\ Len(q \o <<x>>) = Len(q) + 1 /\ Len(q) \in Nat
                              /\ \A i \in 1 .. Len(q) : (q \o <<x>>)[i] = q[i]
                              /\ (q \o <<x>>)[Len(q) + 1] = x
    OBVIOUS
  <1>2. HasEnd(q \o <<End>>)
    BY <1>1, ItemType DEF HasEnd
  <1>3. \A x \in QueueItems : HasEnd(q) => HasEnd(q \o <<x>>)
    BY <1>1 DEF HasEnd
  <1>4. \A x \in QueueItems : (HasEnd(q \o <<x>>) /\ x # End) => HasEnd(q)
    BY <1>1 DEF HasEnd
  <1>5. QED
    BY <1>2, <1>3, <1>4

\* Taking an item that is no sentinel off the queue keeps the sentinel in it.
LEMMA HasEndTail ==
  ASSUME NEW q \in Seq(QueueItems), q # <<>>
  PROVE  /\ HasEnd(Tail(q)) => HasEnd(q)
         /\ (HasEnd(q) /\ q[1] # End) => HasEnd(Tail(q))
         /\ q[1] = End => HasEnd(q)
  <1>1. /\ Len(Tail(q)) = Len(q) - 1 /\ Len(q) \in Nat \ {0}
        /\ \A i \in 1 .. Len(q) - 1 : Tail(q)[i] = q[i + 1]
    OBVIOUS
  <1>2. HasEnd(Tail(q)) => HasEnd(q)
    BY <1>1 DEF HasEnd
  <1>3. (HasEnd(q) /\ q[1] # End) => HasEnd(Tail(q))
    <2> SUFFICES ASSUME HasEnd(q), q[1] # End PROVE HasEnd(Tail(q))
      OBVIOUS
    <2>1. PICK i \in 1 .. Len(q) : q[i] = End
      BY DEF HasEnd
    <2>2. i - 1 \in 1 .. Len(Tail(q)) /\ Tail(q)[i - 1] = End
      BY <1>1, <2>1
    <2>3. QED
      BY <2>2 DEF HasEnd
  <1>4. q[1] = End => HasEnd(q)
    BY <1>1 DEF HasEnd
  <1>5. QED
    BY <1>2, <1>3, <1>4

\* No sentinel is on an empty queue.
LEMMA EmptyHasNoEnd == ~HasEnd(<<>>)
  BY DEF HasEnd

Endings == SentinelMeansOver /\ NobodyLeftWaiting /\ DeliveredComplete

\* The three parts for one response, as one predicate of its own state and of
\* its run's status and log length.
Ending(sp, q, st, g, n) ==
  /\ (HasEnd(q) \/ sp \in {"flush", "closed"}) => st # "running"
  /\ (sp = "live" /\ st # "running") => HasEnd(q)
  /\ (sp = "closed" /\ st = "done") => g = n

EndingOf(c) ==
  Ending(spc[c], queue[c], status[srun[c]], Len(got[c]), Len(buffer[srun[c]]))

\* The three properties say this of every response, now and after a step.
LEMMA EndingsSplit == /\ Endings <=> \A c \in Subs : EndingOf(c)
                      /\ Endings' <=> \A c \in Subs : EndingOf(c)'
  BY DEF Endings, EndingOf, Ending, SentinelMeansOver, NobodyLeftWaiting,
         DeliveredComplete, HasEnd

\* A run that ends with its subscribers woken leaves every response in order.
LEMMA WakeKeepsEnding ==
  ASSUME AllTypes, Log, StatusOfTask, Endings, NEW r \in Started, NEW st,
         st # "running", status' = [status EXCEPT ![r] = st], PutAll(r, <<End>>),
         st = "done" => status[r] = "running",
         UNCHANGED <<spc, srun, got, buffer>>, NEW d \in Subs
  PROVE  EndingOf(d)'
  <1>1. EndingOf(d) /\ r \in Runs
    BY EndingsSplit, StartedRuns DEF AllTypes
  <1>2. CASE spc[d] = "free"
    <2>1. queue'[d] = <<>>
      BY <1>2 DEF PutAll, Subscribers, Attached, Log
    <2>2. QED
      BY <1>2, <2>1, EmptyHasNoEnd DEF EndingOf, Ending
  <1>3. CASE spc[d] # "free" /\ srun[d] # r
    <2>1. queue'[d] = queue[d] /\ status'[srun[d]] = status[srun[d]]
      BY <1>3, ResponseLog DEF PutAll, Subscribers, AllTypes, RunTypes
    <2>2. QED
      BY <1>1, <2>1 DEF EndingOf
  <1>4. CASE spc[d] # "free" /\ srun[d] = r
    <2>1. status'[srun[d]] = st
      BY <1>1, <1>4 DEF AllTypes, RunTypes
    <2>2. spc[d] \in Attached => HasEnd(queue'[d])
      BY <1>4, ResponseLog, HasEndPut DEF PutAll, Subscribers
    <2>3. spc[d] = "closed" => st # "done"
      BY <1>1, <1>4 DEF EndingOf, Ending
    <2>4. QED
      BY <2>1, <2>2, <2>3 DEF EndingOf, Ending, Attached
  <1>5. QED
    BY <1>2, <1>3, <1>4

\* Every step keeps the ends of responses in line with the ends of runs.
LEMMA StepEndings ==
  ASSUME AllTypes, Log, StatusOfTask, Endings, [Next]_vars
  PROVE  Endings'
  <1>1. ASSUME NEW s \in Sessions, NEW c \in Subs, Start(s, c)
        PROVE  Endings'
    <2> SUFFICES ASSUME NEW d \in Subs PROVE EndingOf(d)'
      BY EndingsSplit
    <2>1. EndingOf(d) /\ buffer' = buffer
      BY <1>1, EndingsSplit DEF Start
    <2>2. d # c => UNCHANGED <<spc[d], srun[d], got[d]>>
      BY <1>1 DEF Start, Bind, AllTypes, ResponseTypes, LogTypes
    <2>3. spc'[c] = "bound" /\ queue'[c] = <<>>
      BY <1>1 DEF Start, Bind, Terminalize, PutAll, Subscribers, Log, Attached, AllTypes, ResponseTypes
    <2>4. CASE d = c
      BY <2>3, <2>4, EmptyHasNoEnd DEF EndingOf, Ending
    <2>5. CASE d # c /\ UNCHANGED <<status, queue>>
      BY <2>1, <2>2, <2>5 DEF EndingOf
    <2>6. CASE d # c /\ status' = [status EXCEPT ![registry[s]] = "stopped"] /\ PutAll(registry[s], <<End>>)
      <3>1. CASE spc[d] = "free"
        <4>1. queue'[d] = <<>>
          BY <2>6, <3>1 DEF PutAll, Subscribers, Attached, Log
        <4>2. QED
          BY <2>2, <2>6, <3>1, <4>1, EmptyHasNoEnd DEF EndingOf, Ending
      <3>2. CASE spc[d] # "free" /\ srun[d] # registry[s]
        <4>1. queue'[d] = queue[d] /\ status'[srun[d]] = status[srun[d]]
          BY <2>6, <3>2, ResponseLog DEF PutAll, Subscribers, AllTypes, RunTypes
        <4>2. QED
          BY <2>1, <2>2, <2>6, <4>1 DEF EndingOf, Ending
      <3>3. CASE spc[d] # "free" /\ srun[d] = registry[s]
        <4>1. status'[srun[d]] = "stopped"
          BY <2>6, <3>3, ResponseLog DEF AllTypes, RunTypes
        <4>2. spc[d] \in Attached => HasEnd(queue'[d])
          BY <2>6, <3>3, ResponseLog, HasEndPut DEF PutAll, Subscribers
        <4>3. QED
          BY <2>1, <2>2, <2>6, <4>1, <4>2 DEF EndingOf, Ending, Attached
      <3>4. QED
        BY <3>1, <3>2, <3>3
    <2>7. QED
      BY <1>1, <2>4, <2>5, <2>6 DEF Start, Terminalize
  <1>2. ASSUME NEW s \in Sessions, NEW c \in Subs, Resume(s, c)
        PROVE  Endings'
    <2> SUFFICES ASSUME NEW d \in Subs PROVE EndingOf(d)'
      BY EndingsSplit
    <2>1. EndingOf(d) /\ UNCHANGED <<status, buffer>>
      BY <1>2, EndingsSplit DEF Resume, Bind, runVars
    <2>2. d # c => UNCHANGED <<spc[d], srun[d], queue[d], got[d]>>
      BY <1>2 DEF Resume, Bind, runVars, AllTypes, ResponseTypes, LogTypes, Log, Attached
    <2>3. CASE d = c
      <3>1. spc'[c] = "bound" /\ queue'[c] = <<>>
        BY <1>2 DEF Resume, Bind, Log, Attached, AllTypes, ResponseTypes, LogTypes
      <3>2. QED
        BY <2>3, <3>1, EmptyHasNoEnd DEF EndingOf, Ending
    <2>4. CASE d # c
      BY <2>1, <2>2, <2>4 DEF EndingOf, Ending
    <2>5. QED
      BY <2>3, <2>4
  <1>3. ASSUME NEW s \in Sessions, Stop(s)
        PROVE  Endings'
    <2>1. UNCHANGED <<spc, queue, status, srun, got, buffer>>
      BY <1>3 DEF Stop, subVars
    <2>2. QED
      BY <2>1, EndingsSplit DEF EndingOf
  <1>4. ASSUME NEW r \in Started, EnterDrain(r)
        PROVE  Endings'
    <2>1. UNCHANGED <<spc, queue, status, srun, got, buffer>>
      BY <1>4 DEF EnterDrain, subVars
    <2>2. QED
      BY <2>1, EndingsSplit DEF EndingOf
  <1>5. ASSUME NEW r \in Started, PrevFinished(r)
        PROVE  Endings'
    <2>1. UNCHANGED <<spc, queue, status, srun, got, buffer>>
      BY <1>5 DEF PrevFinished, subVars
    <2>2. QED
      BY <2>1, EndingsSplit DEF EndingOf
  <1>6. ASSUME NEW r \in Started, DeliverCancel(r)
        PROVE  Endings'
    <2>1. UNCHANGED <<spc, queue, status, srun, got, buffer>>
      BY <1>6 DEF DeliverCancel, subVars
    <2>2. QED
      BY <2>1, EndingsSplit DEF EndingOf
  <1>7. ASSUME NEW r \in Started, CancelWaiting(r)
        PROVE  Endings'
    <2>1. /\ PutAll(r, <<End>>) /\ UNCHANGED <<spc, srun, got, buffer>>
          /\ status' = [status EXCEPT ![r] = "stopped"]
      BY <1>7 DEF CancelWaiting
    <2>2. QED
      BY <2>1, WakeKeepsEnding, EndingsSplit
  <1>8. ASSUME NEW r \in Started, BarrierEnd(r)
        PROVE  Endings'
    <2>1. UNCHANGED <<spc, queue, status, srun, got, buffer>>
      BY <1>8 DEF BarrierEnd, ScheduleEvict, subVars
    <2>2. QED
      BY <2>1, EndingsSplit DEF EndingOf
  <1>9. ASSUME NEW r \in Started, Publish(r)
        PROVE  Endings'
    <2> SUFFICES ASSUME NEW d \in Subs PROVE EndingOf(d)'
      BY EndingsSplit
    <2>1. EndingOf(d) /\ r \in Runs /\ UNCHANGED <<spc, srun, status, got>>
      BY <1>9, EndingsSplit, StartedRuns DEF Publish, AllTypes
    <2>2. status[r] # "done"
      BY <1>9, <2>1 DEF Publish, StatusOfTask
    <2>3. CASE d \notin Subscribers(r)
      <3>1. queue'[d] = queue[d]
        BY <1>9, <2>3 DEF Publish, PutAll
      <3>2. srun[d] # r => buffer'[srun[d]] = buffer[srun[d]] \/ spc[d] = "free"
        BY <1>9, ResponseLog DEF Publish, AllTypes, LogTypes
      <3>3. QED
        BY <2>1, <2>2, <3>1, <3>2 DEF EndingOf, Ending
    <2>4. CASE d \in Subscribers(r)
      <3>1. spc[d] \in Attached /\ srun[d] = r /\ queue[d] \in Seq(QueueItems)
        BY <2>4, ResponseLog DEF Subscribers, Attached
      <3>a. queue'[d] = queue[d] \o <<Item(Len(buffer[r]) + 1)>> /\ Len(buffer[r]) \in Nat
        BY <1>9, <2>1, <2>4 DEF Publish, PutAll, AllTypes, LogTypes
      <3>c. Len(buffer[r]) + 1 \in Nat
        BY <3>a
      <3>d. Item(Len(buffer[r]) + 1) \in QueueItems
        BY <3>c, ItemType
      <3>e. Item(Len(buffer[r]) + 1) # End
        BY <3>a, ItemNotEnd
      <3>b. Item(Len(buffer[r]) + 1) \in QueueItems /\ Item(Len(buffer[r]) + 1) # End
        BY <3>d, <3>e
      <3>2. PICK x \in QueueItems : x # End /\ queue'[d] = queue[d] \o <<x>>
        BY <3>a, <3>b
      <3>3. HasEnd(queue'[d]) <=> HasEnd(queue[d])
        BY <3>1, <3>2, HasEndPut
      <3>4. QED
        BY <2>1, <3>1, <3>3 DEF EndingOf, Ending, Attached
    <2>5. QED
      BY <2>3, <2>4
  <1>10. ASSUME NEW r \in Started, Complete(r)
        PROVE  Endings'
    <2>1. /\ PutAll(r, <<End>>) /\ UNCHANGED <<spc, srun, got, buffer>>
          /\ status' = [status EXCEPT ![r] = IF status[r] = "running" THEN "done" ELSE status[r]]
      BY <1>10 DEF Complete
    <2>2. PICK st : st = IF status[r] = "running" THEN "done" ELSE status[r]
      OBVIOUS
    <2>3. status[r] # "done"
      BY <1>10, StartedRuns DEF Complete, StatusOfTask, AllTypes
    <2>4. QED
      BY <2>1, <2>2, <2>3, WakeKeepsEnding, EndingsSplit
  <1>11. ASSUME NEW r \in Started, Fail(r)
        PROVE  Endings'
    <2> SUFFICES ASSUME NEW d \in Subs PROVE EndingOf(d)'
      BY EndingsSplit
    <2>1. EndingOf(d) /\ r \in Runs /\ UNCHANGED <<spc, srun, got>>
      BY <1>11, EndingsSplit, StartedRuns DEF Fail, AllTypes
    <2>2. status'[r] = "error" /\ \A q \in Runs : q # r => status'[q] = status[q] /\ buffer'[q] = buffer[q]
      BY <1>11, <2>1 DEF Fail, AllTypes, RunTypes, LogTypes
    <2>3. CASE d \notin Subscribers(r)
      <3>1. queue'[d] = queue[d]
        BY <1>11, <2>3 DEF Fail, PutAll
      <3>2. CASE spc[d] = "free"
        <4>1. queue[d] = <<>>
          BY <3>2 DEF Log, Attached
        <4>2. QED
          BY <2>1, <3>1, <3>2, <4>1, EmptyHasNoEnd DEF EndingOf, Ending
      <3>3. CASE spc[d] # "free"
        BY <2>1, <2>2, <2>3, <3>1, <3>3, ResponseLog DEF EndingOf, Ending, Subscribers, Attached
      <3>4. QED
        BY <3>2, <3>3
    <2>4. CASE d \in Subscribers(r)
      <3>1. spc[d] \in Attached /\ srun[d] = r /\ queue[d] \in Seq(QueueItems)
        BY <2>4, ResponseLog DEF Subscribers, Attached
      <3>a. Len(buffer[r]) \in Nat
        BY <2>1 DEF AllTypes, LogTypes
      <3>b. queue'[d] = queue[d] \o <<Item(Len(buffer[r]) + 1), Item((Len(buffer[r]) + 1) + 1), End>>
        BY <1>11, <2>4 DEF Fail, PutAll
      <3>2. PICK k \in Nat : queue'[d] = queue[d] \o <<Item(k + 1), Item((k + 1) + 1), End>>
        BY <3>a, <3>b
      <3>3. HasEnd(queue'[d])
        <4>1. End \in QueueItems /\ Item(k + 1) \in QueueItems /\ Item((k + 1) + 1) \in QueueItems
          BY ItemType
        <4>2. Len(queue'[d]) = Len(queue[d]) + 3 /\ queue'[d][Len(queue[d]) + 3] = End /\ Len(queue[d]) \in Nat
          BY <3>1, <3>2, <4>1
        <4>3. QED
          BY <4>2 DEF HasEnd
      <3>4. QED
        BY <2>1, <2>2, <3>1, <3>3 DEF EndingOf, Ending, Attached
    <2>5. QED
      BY <2>3, <2>4
  <1>12. ASSUME NEW r \in Started, UnwindEnd(r)
        PROVE  Endings'
    <2>1. /\ PutAll(r, <<End>>) /\ UNCHANGED <<spc, srun, got, buffer>>
          /\ status' = [status EXCEPT ![r] = "stopped"]
      BY <1>12 DEF UnwindEnd
    <2>2. QED
      BY <2>1, WakeKeepsEnding, EndingsSplit
  <1>13. ASSUME NEW r \in Started, EvictFire(r)
        PROVE  Endings'
    <2>1. UNCHANGED <<spc, queue, status, srun, got, buffer>>
      BY <1>13 DEF EvictFire, subVars
    <2>2. QED
      BY <2>1, EndingsSplit DEF EndingOf
  <1>14. ASSUME NEW c \in Subs, Subscribe(c)
        PROVE  Endings'
    <2> SUFFICES ASSUME NEW d \in Subs PROVE EndingOf(d)'
      BY EndingsSplit
    <2>1. EndingOf(d) /\ UNCHANGED <<status, buffer>>
      BY <1>14, EndingsSplit DEF Subscribe, runVars
    <2>2. d # c => UNCHANGED <<spc[d], srun[d], queue[d], got[d]>>
      BY <1>14 DEF Subscribe, runVars, AllTypes, ResponseTypes, LogTypes, Log, Attached
    <2>3. CASE d = c
      <3>1. queue[c] = <<>> /\ queue' = queue /\ spc'[c] = "replay"
        BY <1>14 DEF Subscribe, Log, Attached, AllTypes, ResponseTypes
      <3>2. QED
        BY <2>3, <3>1, EmptyHasNoEnd DEF EndingOf, Ending
    <2>4. CASE d # c
      BY <2>1, <2>2, <2>4 DEF EndingOf, Ending
    <2>5. QED
      BY <2>3, <2>4
  <1>15. ASSUME NEW c \in Subs, Replay(c)
        PROVE  Endings'
    <2> SUFFICES ASSUME NEW d \in Subs PROVE EndingOf(d)'
      BY EndingsSplit
    <2>1. EndingOf(d) /\ UNCHANGED <<spc, srun, status, queue, buffer>> /\ spc[c] # "closed"
      BY <1>15, EndingsSplit DEF Replay, SendFromBuffer, runVars
    <2>2. d # c => got'[d] = got[d]
      BY <1>15 DEF Replay, SendFromBuffer, AllTypes, LogTypes
    <2>3. QED
      BY <2>1, <2>2 DEF EndingOf, Ending
  <1>16. ASSUME NEW c \in Subs, ReplayDone(c)
        PROVE  Endings'
    <2> SUFFICES ASSUME NEW d \in Subs PROVE EndingOf(d)'
      BY EndingsSplit
    <2>1. EndingOf(d) /\ UNCHANGED <<status, buffer>>
      BY <1>16, EndingsSplit DEF ReplayDone, Leave, ScheduleEvict, runVars
    <2>2. d # c => UNCHANGED <<spc[d], srun[d], queue[d], got[d]>>
      BY <1>16 DEF ReplayDone, Leave, ScheduleEvict, runVars, AllTypes, ResponseTypes, LogTypes, Log, Attached
    <2>3. CASE d = c
      <3>1. /\ spc[c] = "replay" /\ UNCHANGED <<srun, got>>
            /\ nextSeq[c] >= Len(buffer[srun[c]])
        BY <1>16 DEF ReplayDone
      <3>2. Len(got[c]) = Len(buffer[srun[c]])
        BY <3>1, ResponseLog DEF Log
      <3>3. CASE status[srun[c]] # "running"
        <4>1. spc'[c] = "closed" /\ queue'[c] = <<>>
          BY <1>16, <3>3 DEF ReplayDone, Leave, AllTypes, ResponseTypes, LogTypes
        <4>2. QED
          BY <2>1, <2>3, <3>1, <3>2, <3>3, <4>1, EmptyHasNoEnd DEF EndingOf, Ending
      <3>4. CASE status[srun[c]] = "running"
        <4>1. spc'[c] = "live" /\ queue' = queue
          BY <1>16, <3>4 DEF ReplayDone, AllTypes, ResponseTypes
        <4>2. QED
          BY <2>1, <2>3, <3>1, <3>4, <4>1 DEF EndingOf, Ending
      <3>5. QED
        BY <3>3, <3>4
    <2>4. CASE d # c
      BY <2>1, <2>2, <2>4 DEF EndingOf, Ending
    <2>5. QED
      BY <2>3, <2>4
  <1>17. ASSUME NEW c \in Subs, Receive(c)
        PROVE  Endings'
    <2> SUFFICES ASSUME NEW d \in Subs PROVE EndingOf(d)'
      BY EndingsSplit
    <2>1. EndingOf(d) /\ UNCHANGED <<status, buffer>>
      BY <1>17, EndingsSplit DEF Receive, runVars
    <2>2. d # c => UNCHANGED <<spc[d], srun[d], queue[d], got[d]>>
      BY <1>17 DEF Receive, runVars, AllTypes, ResponseTypes, LogTypes, Log, Attached
    <2>3. CASE d = c
      <3>1. /\ spc[c] = "live" /\ queue[c] # <<>> /\ queue'[c] = Tail(queue[c]) /\ srun' = srun
            /\ spc'[c] = IF Head(queue[c]) = End THEN "flush" ELSE "live"
        BY <1>17 DEF Receive, AllTypes, ResponseTypes, LogTypes
      <3>2. queue[c] \in Seq(QueueItems) /\ Head(queue[c]) = queue[c][1]
        BY <3>1, ResponseLog
      <3>3. QED
        BY <2>1, <2>3, <3>1, <3>2, HasEndTail DEF EndingOf, Ending
    <2>4. CASE d # c
      BY <2>1, <2>2, <2>4 DEF EndingOf, Ending
    <2>5. QED
      BY <2>3, <2>4
  <1>18. ASSUME NEW c \in Subs, TimeoutEnd(c)
        PROVE  Endings'
    <2> SUFFICES ASSUME NEW d \in Subs PROVE EndingOf(d)'
      BY EndingsSplit
    <2>1. EndingOf(d) /\ UNCHANGED <<status, buffer>>
      BY <1>18, EndingsSplit DEF TimeoutEnd, runVars
    <2>2. d # c => UNCHANGED <<spc[d], srun[d], queue[d], got[d]>>
      BY <1>18 DEF TimeoutEnd, runVars, AllTypes, ResponseTypes, LogTypes, Log, Attached
    <2>3. CASE d = c
      <3>1. status[srun[c]] # "running" /\ spc'[c] = "flush" /\ UNCHANGED <<srun, queue, got>>
        BY <1>18 DEF TimeoutEnd, AllTypes, ResponseTypes
      <3>2. QED
        BY <2>1, <2>3, <3>1 DEF EndingOf, Ending
    <2>4. CASE d # c
      BY <2>1, <2>2, <2>4 DEF EndingOf, Ending
    <2>5. QED
      BY <2>3, <2>4
  <1>19. ASSUME NEW c \in Subs, Flush(c)
        PROVE  Endings'
    <2> SUFFICES ASSUME NEW d \in Subs PROVE EndingOf(d)'
      BY EndingsSplit
    <2>1. EndingOf(d) /\ UNCHANGED <<spc, srun, status, queue, buffer>> /\ spc[c] # "closed"
      BY <1>19, EndingsSplit DEF Flush, SendFromBuffer, runVars
    <2>2. d # c => got'[d] = got[d]
      BY <1>19 DEF Flush, SendFromBuffer, AllTypes, LogTypes
    <2>3. QED
      BY <2>1, <2>2 DEF EndingOf, Ending
  <1>20. ASSUME NEW c \in Subs, FlushDone(c)
        PROVE  Endings'
    <2> SUFFICES ASSUME NEW d \in Subs PROVE EndingOf(d)'
      BY EndingsSplit
    <2>1. EndingOf(d) /\ UNCHANGED <<status, buffer>>
      BY <1>20, EndingsSplit DEF FlushDone, Leave, ScheduleEvict, runVars
    <2>2. d # c => UNCHANGED <<spc[d], srun[d], queue[d], got[d]>>
      BY <1>20 DEF FlushDone, Leave, ScheduleEvict, runVars, AllTypes, ResponseTypes, LogTypes, Log, Attached
    <2>3. CASE d = c
      <3>1. /\ spc[c] = "flush" /\ spc'[c] = "closed" /\ queue'[c] = <<>> /\ UNCHANGED <<srun, got>>
            /\ nextSeq[c] >= Len(buffer[srun[c]])
        BY <1>20 DEF FlushDone, Leave, AllTypes, ResponseTypes, LogTypes
      <3>2. Len(got[c]) = Len(buffer[srun[c]])
        BY <3>1, ResponseLog DEF Log
      <3>3. QED
        BY <2>1, <2>3, <3>1, <3>2, EmptyHasNoEnd DEF EndingOf, Ending
    <2>4. CASE d # c
      BY <2>1, <2>2, <2>4 DEF EndingOf, Ending
    <2>5. QED
      BY <2>3, <2>4
  <1>21. ASSUME NEW c \in Subs, Disconnect(c)
        PROVE  Endings'
    <2> SUFFICES ASSUME NEW d \in Subs PROVE EndingOf(d)'
      BY EndingsSplit
    <2>1. EndingOf(d) /\ UNCHANGED <<status, buffer>>
      BY <1>21, EndingsSplit DEF Disconnect, Leave, ScheduleEvict, runVars
    <2>2. d # c => UNCHANGED <<spc[d], srun[d], queue[d], got[d]>>
      BY <1>21 DEF Disconnect, Leave, ScheduleEvict, runVars, AllTypes, ResponseTypes, LogTypes, Log, Attached
    <2>3. CASE d = c
      <3>1. spc'[c] = "free" /\ queue'[c] = <<>>
        BY <1>21 DEF Disconnect, Leave, Log, Attached, AllTypes, ResponseTypes, LogTypes
      <3>2. QED
        BY <2>3, <3>1, EmptyHasNoEnd DEF EndingOf, Ending
    <2>4. CASE d # c
      BY <2>1, <2>2, <2>4 DEF EndingOf, Ending
    <2>5. QED
      BY <2>3, <2>4
  <1>22. CASE UNCHANGED vars
    BY <1>22, EndingsSplit DEF vars, EndingOf
  <1>23. QED
    BY <1>1, <1>2, <1>3, <1>4, <1>5, <1>6, <1>7, <1>8, <1>9, <1>10, <1>11, <1>12,
       <1>13, <1>14, <1>15, <1>16, <1>17, <1>18, <1>19, <1>20, <1>21, <1>22
       DEF Next, Request, TaskStep, GeneratorStep, ResponseStep

-----------------------------------------------------------------------------
(***************************************************************************)
(* Eviction.                                                               *)
(***************************************************************************)

\* Every step keeps finished runs evictable.
LEMMA StepEvictable ==
  ASSUME AllTypes, StatusOfTask, FinishedRunIsEvictable, [Next]_vars
  PROVE  FinishedRunIsEvictable'
  <1>1. ASSUME NEW s \in Sessions, NEW c \in Subs, Start(s, c)
        PROVE  FinishedRunIsEvictable'
    <2>1. PICK p, n : p = registry[s] /\ n = nrun + 1
      OBVIOUS
    <2>2. /\ n \in Runs /\ n # 0 /\ timer' = timer \ {p} /\ pc'[n] # "done"
          /\ \A q \in Runs : q # n => pc'[q] = pc[q]
          /\ \A t \in Sessions : registry'[t] = IF t = s THEN n ELSE registry[t]
      <3>1. /\ n \in Runs /\ timer' = timer \ {p} /\ pc' = [pc EXCEPT ![n] = "created"]
            /\ registry' = [registry EXCEPT ![s] = n]
        BY <1>1, <2>1, StartEffect DEF AllTypes
      <3>2. n # 0
        BY <3>1, BoundsAssumption DEF Runs
      <3>3. QED
        BY <3>1, <3>2 DEF AllTypes, RunTypes
    <2>3. \A t \in Sessions : (t # s /\ registry[t] # 0) => registry[t] # p /\ registry[t] # n /\ registry[t] \in Runs
      BY <1>1, <2>1, StartEffect DEF AllTypes, Names
    <2>4. \A q \in Runs : q # n => (Subscribers(q)' = {} => Subscribers(q) = {})
      BY <1>1, <2>1 DEF Start, Bind, Subscribers, Attached, AllTypes, ResponseTypes
    <2>5. QED
      BY <2>2, <2>3, <2>4 DEF FinishedRunIsEvictable
  <1>2. ASSUME NEW s \in Sessions, NEW c \in Subs, Resume(s, c)
        PROVE  FinishedRunIsEvictable'
    <2>1. UNCHANGED <<registry, timer, pc>>
      BY <1>2 DEF Resume, runVars
    <2>2. \A q : Subscribers(q)' = {} => Subscribers(q) = {}
      BY <1>2 DEF Resume, Bind, Subscribers, Attached, AllTypes, ResponseTypes
    <2>3. QED
      BY <2>1, <2>2 DEF FinishedRunIsEvictable
  <1>3. ASSUME NEW s \in Sessions, Stop(s)
        PROVE  FinishedRunIsEvictable'
    <2>1. UNCHANGED <<registry, timer, pc, spc, srun>>
      BY <1>3 DEF Stop, subVars
    <2>2. QED
      BY <2>1 DEF FinishedRunIsEvictable, Subscribers
  <1>4. ASSUME NEW r \in Started, EnterDrain(r)
        PROVE  FinishedRunIsEvictable'
    <2>1. UNCHANGED <<registry, timer, spc, srun>> /\ \A q \in Runs : q # r => pc'[q] = pc[q]
      BY <1>4, StartedRuns DEF EnterDrain, subVars, AllTypes, RunTypes
    <2>2. pc'[r] = "done" => registry[sess[r]] # r
      BY <1>4, StartedRuns DEF EnterDrain, StatusOfTask, AllTypes, RunTypes
    <2>3. \A s \in Sessions : registry[s] # 0 => registry[s] \in Runs /\ sess[registry[s]] = s
      BY StartedRuns DEF AllTypes, Names
    <2>4. QED
      BY <2>1, <2>2, <2>3 DEF FinishedRunIsEvictable, Subscribers
  <1>5. ASSUME NEW r \in Started, PrevFinished(r)
        PROVE  FinishedRunIsEvictable'
    <2>1. UNCHANGED <<registry, timer, spc, srun>> /\ pc'[r] # "done" /\ \A q \in Runs : q # r => pc'[q] = pc[q]
      BY <1>5, StartedRuns DEF PrevFinished, subVars, AllTypes, RunTypes
    <2>2. \A s \in Sessions : registry[s] # 0 => registry[s] \in Runs
      BY StartedRuns DEF AllTypes, Names
    <2>3. QED
      BY <2>1, <2>2 DEF FinishedRunIsEvictable, Subscribers
  <1>6. ASSUME NEW r \in Started, DeliverCancel(r)
        PROVE  FinishedRunIsEvictable'
    <2>1. UNCHANGED <<registry, timer, spc, srun>> /\ pc'[r] # "done" /\ \A q \in Runs : q # r => pc'[q] = pc[q]
      BY <1>6, StartedRuns DEF DeliverCancel, subVars, AllTypes, RunTypes
    <2>2. \A s \in Sessions : registry[s] # 0 => registry[s] \in Runs
      BY StartedRuns DEF AllTypes, Names
    <2>3. QED
      BY <2>1, <2>2 DEF FinishedRunIsEvictable, Subscribers
  <1>7. ASSUME NEW r \in Started, CancelWaiting(r)
        PROVE  FinishedRunIsEvictable'
    <2>1. UNCHANGED <<registry, spc, srun, sess>> /\ \A q \in Runs : q # r => pc'[q] = pc[q]
      BY <1>7, StartedRuns DEF CancelWaiting, AllTypes, RunTypes
    <2>2. /\ pc'[r] = "done" => timer' = IF registry[sess[r]] = r THEN timer \cup {r} ELSE timer
          /\ timer \subseteq timer'
      BY <1>7, StartedRuns DEF CancelWaiting, ScheduleEvict, AllTypes, RunTypes
    <2>3. \A s \in Sessions : registry[s] # 0 => registry[s] \in Runs /\ sess[registry[s]] = s
      BY StartedRuns DEF AllTypes, Names
    <2>4. QED
      BY <2>1, <2>2, <2>3 DEF FinishedRunIsEvictable, Subscribers
  <1>8. ASSUME NEW r \in Started, BarrierEnd(r)
        PROVE  FinishedRunIsEvictable'
    <2>1. /\ UNCHANGED <<registry, sess, spc, srun>> /\ pc' = [pc EXCEPT ![r] = "done"]
          /\ timer' = IF registry[sess[r]] = r THEN timer \cup {r} ELSE timer
      BY <1>8 DEF BarrierEnd, ScheduleEvict, subVars
    <2>2. \A s \in Sessions : registry[s] = r => r \in timer'
      <3>1. r # 0
        BY <1>8, BoundsAssumption DEF AllTypes, RunTypes, Started
      <3>2. QED
        BY <2>1, <3>1 DEF AllTypes, Names
    <2>3. \A s \in Sessions : registry[s] # 0 /\ registry[s] # r => pc'[registry[s]] = pc[registry[s]]
      BY <2>1, StartedRuns DEF AllTypes, Names, RunTypes
    <2>4. QED
      BY <2>1, <2>2, <2>3 DEF FinishedRunIsEvictable, Subscribers
  <1>9. ASSUME NEW r \in Started, Publish(r)
        PROVE  FinishedRunIsEvictable'
    <2>1. UNCHANGED <<registry, timer, pc, spc, srun>>
      BY <1>9 DEF Publish
    <2>2. QED
      BY <2>1 DEF FinishedRunIsEvictable, Subscribers
  <1>10. ASSUME NEW r \in Started, Complete(r)
        PROVE  FinishedRunIsEvictable'
    <2>1. /\ UNCHANGED <<registry, sess, spc, srun>> /\ pc' = [pc EXCEPT ![r] = "done"]
          /\ timer' = IF registry[sess[r]] = r THEN timer \cup {r} ELSE timer
      BY <1>10 DEF Complete, ScheduleEvict, subVars
    <2>2. \A s \in Sessions : registry[s] = r => r \in timer'
      <3>1. r # 0
        BY <1>10, BoundsAssumption DEF AllTypes, RunTypes, Started
      <3>2. QED
        BY <2>1, <3>1 DEF AllTypes, Names
    <2>3. \A s \in Sessions : registry[s] # 0 /\ registry[s] # r => pc'[registry[s]] = pc[registry[s]]
      BY <2>1, StartedRuns DEF AllTypes, Names, RunTypes
    <2>4. QED
      BY <2>1, <2>2, <2>3 DEF FinishedRunIsEvictable, Subscribers
  <1>11. ASSUME NEW r \in Started, Fail(r)
        PROVE  FinishedRunIsEvictable'
    <2>1. /\ UNCHANGED <<registry, sess, spc, srun>> /\ pc' = [pc EXCEPT ![r] = "done"]
          /\ timer' = IF registry[sess[r]] = r THEN timer \cup {r} ELSE timer
      BY <1>11 DEF Fail, ScheduleEvict, subVars
    <2>2. \A s \in Sessions : registry[s] = r => r \in timer'
      <3>1. r # 0
        BY <1>11, BoundsAssumption DEF AllTypes, RunTypes, Started
      <3>2. QED
        BY <2>1, <3>1 DEF AllTypes, Names
    <2>3. \A s \in Sessions : registry[s] # 0 /\ registry[s] # r => pc'[registry[s]] = pc[registry[s]]
      BY <2>1, StartedRuns DEF AllTypes, Names, RunTypes
    <2>4. QED
      BY <2>1, <2>2, <2>3 DEF FinishedRunIsEvictable, Subscribers
  <1>12. ASSUME NEW r \in Started, UnwindEnd(r)
        PROVE  FinishedRunIsEvictable'
    <2>1. /\ UNCHANGED <<registry, sess, spc, srun>> /\ pc' = [pc EXCEPT ![r] = "done"]
          /\ timer' = IF registry[sess[r]] = r THEN timer \cup {r} ELSE timer
      BY <1>12 DEF UnwindEnd, ScheduleEvict, subVars
    <2>2. \A s \in Sessions : registry[s] = r => r \in timer'
      <3>1. r # 0
        BY <1>12, BoundsAssumption DEF AllTypes, RunTypes, Started
      <3>2. QED
        BY <2>1, <3>1 DEF AllTypes, Names
    <2>3. \A s \in Sessions : registry[s] # 0 /\ registry[s] # r => pc'[registry[s]] = pc[registry[s]]
      BY <2>1, StartedRuns DEF AllTypes, Names, RunTypes
    <2>4. QED
      BY <2>1, <2>2, <2>3 DEF FinishedRunIsEvictable, Subscribers
  <1>13. ASSUME NEW r \in Started, EvictFire(r)
        PROVE  FinishedRunIsEvictable'
    <2>1. UNCHANGED <<pc, spc, srun>> /\ timer' = timer \ {r} /\ Started \subseteq Runs
      BY <1>13, StartedRuns DEF EvictFire, subVars, AllTypes
    <2>2. \A s \in Sessions : registry'[s] # 0 => registry'[s] = registry[s]
      BY <1>13 DEF EvictFire, AllTypes, RunTypes
    <2>3. \A s \in Sessions : (registry'[s] = r /\ pc[r] = "done" /\ Subscribers(r) = {}) => FALSE
      BY <1>13, <2>1, <2>2 DEF EvictFire, AllTypes, RunTypes, Names, StatusOfTask
    <2>4. \A q : Subscribers(q)' = Subscribers(q)
      BY <2>1 DEF Subscribers
    <2>5. QED
      BY <2>1, <2>2, <2>3, <2>4 DEF FinishedRunIsEvictable
  <1>14. ASSUME NEW c \in Subs, Subscribe(c)
        PROVE  FinishedRunIsEvictable'
    <2>1. UNCHANGED <<registry, pc, srun>> /\ spc[c] \notin Attached /\ spc'[c] \in Attached
          /\ timer' = timer \ {srun[c]} /\ \A d \in Subs : d # c => spc'[d] = spc[d]
      BY <1>14 DEF Subscribe, runVars, Attached, AllTypes, ResponseTypes
    <2>2. c \in Subscribers(srun[c])' /\ \A q : q # srun[c] => Subscribers(q)' = Subscribers(q)
      BY <2>1 DEF Subscribers
    <2>3. QED
      BY <2>1, <2>2 DEF FinishedRunIsEvictable
  <1>15. ASSUME NEW c \in Subs, Replay(c)
        PROVE  FinishedRunIsEvictable'
    <2>1. UNCHANGED <<registry, timer, pc, spc, srun>>
      BY <1>15 DEF Replay, SendFromBuffer, runVars
    <2>2. QED
      BY <2>1 DEF FinishedRunIsEvictable, Subscribers
  <1>16. ASSUME NEW c \in Subs, ReplayDone(c)
        PROVE  FinishedRunIsEvictable'
    <2>1. CASE status[srun[c]] # "running"
      <3>1. UNCHANGED <<registry, pc, sess>> /\ spc[c] \in Attached /\ Leave(c)
            /\ \A d \in Subs : d # c => spc'[d] = spc[d] /\ srun'[d] = srun[d]
        BY <1>16, <2>1 DEF ReplayDone, runVars, Attached, AllTypes, ResponseTypes
      <3>r. PICK r : r = srun[c]
        OBVIOUS
      <3>2. \A q : q # r => (Subscribers(q)' = {} => Subscribers(q) = {})
        <4> SUFFICES ASSUME NEW q, q # r, NEW d \in Subscribers(q)
                     PROVE  d \in Subscribers(q)'
          OBVIOUS
        <4>1. d \in Subs /\ d # c /\ srun[d] = q /\ spc[d] \in Attached
          BY <3>r DEF Subscribers
        <4>2. QED
          BY <3>1, <4>1 DEF Subscribers, Attached
      <3>3. Subscribers(r)' = {} => Subscribers(r) = {c}
        <4> SUFFICES ASSUME Subscribers(r)' = {} PROVE Subscribers(r) = {c}
          OBVIOUS
        <4>1. c \in Subscribers(r)
          BY <3>1, <3>r DEF Subscribers
        <4>2. ASSUME NEW d \in Subscribers(r), d # c PROVE FALSE
          <5>1. d \in Subs /\ srun[d] = r /\ spc[d] \in Attached
            BY <4>2 DEF Subscribers
          <5>2. d \in Subscribers(r)'
            BY <3>1, <4>2, <5>1 DEF Subscribers, Attached
          <5>3. QED
            BY <5>2
        <4>3. QED
          BY <4>1, <4>2
      <3>4. timer \subseteq timer'
        BY <3>1 DEF Leave, ScheduleEvict
      <3>5. ASSUME NEW s \in Sessions, registry[s] = r, pc[r] = "done", Subscribers(r)' = {}
            PROVE  r \in timer'
        <4>1. r \in Started
          BY <3>1, <3>r, ResponseLog DEF Attached
        <4>2. status[r] # "running"
          BY <3>5, <4>1 DEF StatusOfTask
        <4>3. registry[sess[r]] = r
          BY <3>5, <4>1 DEF AllTypes, Names, Started, RunTypes
        <4>4. QED
          BY <3>1, <3>r, <3>3, <3>5, <4>2, <4>3 DEF Leave, ScheduleEvict
      <3>6. QED
        <4> SUFFICES ASSUME NEW s \in Sessions, NEW q, q = registry[s], q # 0, pc[q] = "done",
                            Subscribers(q)' = {}
                     PROVE  q \in timer'
          BY <3>1 DEF FinishedRunIsEvictable
        <4>1. CASE q = r
          BY <3>5, <4>1
        <4>2. CASE q # r
          BY <3>2, <3>4, <4>2 DEF FinishedRunIsEvictable
        <4>3. QED
          BY <4>1, <4>2

    <2>2. CASE status[srun[c]] = "running"
      <3>1. UNCHANGED <<registry, timer, pc, srun>> /\ spc[c] \in Attached /\ spc'[c] \in Attached
            /\ \A d \in Subs : d # c => spc'[d] = spc[d]
        BY <1>16, <2>2 DEF ReplayDone, runVars, Attached, AllTypes, ResponseTypes
      <3>2. \A q : Subscribers(q)' = Subscribers(q)
        BY <3>1 DEF Subscribers
      <3>3. QED
        BY <3>1, <3>2 DEF FinishedRunIsEvictable
    <2>3. QED
      BY <2>1, <2>2
  <1>17. ASSUME NEW c \in Subs, Receive(c)
        PROVE  FinishedRunIsEvictable'
    <2>1. UNCHANGED <<registry, timer, pc, srun>> /\ spc[c] \in Attached /\ spc'[c] \in Attached
          /\ \A d \in Subs : d # c => spc'[d] = spc[d]
      BY <1>17 DEF Receive, runVars, Attached, AllTypes, ResponseTypes
    <2>2. \A q : Subscribers(q)' = Subscribers(q)
      BY <2>1 DEF Subscribers
    <2>3. QED
      BY <2>1, <2>2 DEF FinishedRunIsEvictable
  <1>18. ASSUME NEW c \in Subs, TimeoutEnd(c)
        PROVE  FinishedRunIsEvictable'
    <2>1. UNCHANGED <<registry, timer, pc, srun>> /\ spc[c] \in Attached /\ spc'[c] \in Attached
          /\ \A d \in Subs : d # c => spc'[d] = spc[d]
      BY <1>18 DEF TimeoutEnd, runVars, Attached, AllTypes, ResponseTypes
    <2>2. \A q : Subscribers(q)' = Subscribers(q)
      BY <2>1 DEF Subscribers
    <2>3. QED
      BY <2>1, <2>2 DEF FinishedRunIsEvictable
  <1>19. ASSUME NEW c \in Subs, Flush(c)
        PROVE  FinishedRunIsEvictable'
    <2>1. UNCHANGED <<registry, timer, pc, spc, srun>>
      BY <1>19 DEF Flush, SendFromBuffer, runVars
    <2>2. QED
      BY <2>1 DEF FinishedRunIsEvictable, Subscribers
  <1>20. ASSUME NEW c \in Subs, FlushDone(c)
        PROVE  FinishedRunIsEvictable'
    <2>1. UNCHANGED <<registry, pc, sess>> /\ spc[c] \in Attached /\ Leave(c)
          /\ \A d \in Subs : d # c => spc'[d] = spc[d] /\ srun'[d] = srun[d]
      BY <1>20 DEF FlushDone, runVars, Attached, AllTypes, ResponseTypes
    <2>r. PICK r : r = srun[c]
      OBVIOUS
    <2>2. \A q : q # r => (Subscribers(q)' = {} => Subscribers(q) = {})
      <3> SUFFICES ASSUME NEW q, q # r, NEW d \in Subscribers(q)
                   PROVE  d \in Subscribers(q)'
        OBVIOUS
      <3>1. d \in Subs /\ d # c /\ srun[d] = q /\ spc[d] \in Attached
        BY <2>r DEF Subscribers
      <3>2. QED
        BY <2>1, <3>1 DEF Subscribers, Attached
    <2>3. Subscribers(r)' = {} => Subscribers(r) = {c}
      <3> SUFFICES ASSUME Subscribers(r)' = {} PROVE Subscribers(r) = {c}
        OBVIOUS
      <3>1. c \in Subscribers(r)
        BY <2>1, <2>r DEF Subscribers
      <3>2. ASSUME NEW d \in Subscribers(r), d # c PROVE FALSE
        <4>1. d \in Subs /\ srun[d] = r /\ spc[d] \in Attached
          BY <3>2 DEF Subscribers
        <4>2. d \in Subscribers(r)'
          BY <2>1, <3>2, <4>1 DEF Subscribers, Attached
        <4>3. QED
          BY <4>2
      <3>3. QED
        BY <3>1, <3>2
    <2>4. timer \subseteq timer'
      BY <2>1 DEF Leave, ScheduleEvict
    <2>5. ASSUME NEW s \in Sessions, registry[s] = r, pc[r] = "done", Subscribers(r)' = {}
          PROVE  r \in timer'
      <3>1. r \in Started
        BY <2>1, <2>r, ResponseLog DEF Attached
      <3>2. status[r] # "running"
        BY <2>5, <3>1 DEF StatusOfTask
      <3>3. registry[sess[r]] = r
        BY <2>5, <3>1 DEF AllTypes, Names, Started, RunTypes
      <3>4. QED
        BY <2>1, <2>r, <2>3, <2>5, <3>2, <3>3 DEF Leave, ScheduleEvict
    <2>6. QED
      <3> SUFFICES ASSUME NEW s \in Sessions, NEW q, q = registry[s], q # 0, pc[q] = "done",
                          Subscribers(q)' = {}
                   PROVE  q \in timer'
        BY <2>1 DEF FinishedRunIsEvictable
      <3>1. CASE q = r
        BY <2>5, <3>1
      <3>2. CASE q # r
        BY <2>2, <2>4, <3>2 DEF FinishedRunIsEvictable
      <3>3. QED
        BY <3>1, <3>2
  <1>21. ASSUME NEW c \in Subs, Disconnect(c)
        PROVE  FinishedRunIsEvictable'
    <2>1. CASE spc[c] \in Attached
      <3>1. UNCHANGED <<registry, pc, sess>> /\ spc[c] \in Attached /\ Leave(c)
            /\ \A d \in Subs : d # c => spc'[d] = spc[d] /\ srun'[d] = srun[d]
        BY <1>21, <2>1 DEF Disconnect, runVars, Attached, AllTypes, ResponseTypes
      <3>r. PICK r : r = srun[c]
        OBVIOUS
      <3>2. \A q : q # r => (Subscribers(q)' = {} => Subscribers(q) = {})
        <4> SUFFICES ASSUME NEW q, q # r, NEW d \in Subscribers(q)
                     PROVE  d \in Subscribers(q)'
          OBVIOUS
        <4>1. d \in Subs /\ d # c /\ srun[d] = q /\ spc[d] \in Attached
          BY <3>r DEF Subscribers
        <4>2. QED
          BY <3>1, <4>1 DEF Subscribers, Attached
      <3>3. Subscribers(r)' = {} => Subscribers(r) = {c}
        <4> SUFFICES ASSUME Subscribers(r)' = {} PROVE Subscribers(r) = {c}
          OBVIOUS
        <4>1. c \in Subscribers(r)
          BY <3>1, <3>r DEF Subscribers
        <4>2. ASSUME NEW d \in Subscribers(r), d # c PROVE FALSE
          <5>1. d \in Subs /\ srun[d] = r /\ spc[d] \in Attached
            BY <4>2 DEF Subscribers
          <5>2. d \in Subscribers(r)'
            BY <3>1, <4>2, <5>1 DEF Subscribers, Attached
          <5>3. QED
            BY <5>2
        <4>3. QED
          BY <4>1, <4>2
      <3>4. timer \subseteq timer'
        BY <3>1 DEF Leave, ScheduleEvict
      <3>5. ASSUME NEW s \in Sessions, registry[s] = r, pc[r] = "done", Subscribers(r)' = {}
            PROVE  r \in timer'
        <4>1. r \in Started
          BY <3>1, <3>r, ResponseLog DEF Attached
        <4>2. status[r] # "running"
          BY <3>5, <4>1 DEF StatusOfTask
        <4>3. registry[sess[r]] = r
          BY <3>5, <4>1 DEF AllTypes, Names, Started, RunTypes
        <4>4. QED
          BY <3>1, <3>r, <3>3, <3>5, <4>2, <4>3 DEF Leave, ScheduleEvict
      <3>6. QED
        <4> SUFFICES ASSUME NEW s \in Sessions, NEW q, q = registry[s], q # 0, pc[q] = "done",
                            Subscribers(q)' = {}
                     PROVE  q \in timer'
          BY <3>1 DEF FinishedRunIsEvictable
        <4>1. CASE q = r
          BY <3>5, <4>1
        <4>2. CASE q # r
          BY <3>2, <3>4, <4>2 DEF FinishedRunIsEvictable
        <4>3. QED
          BY <4>1, <4>2

    <2>2. CASE spc[c] \notin Attached
      <3>1. UNCHANGED <<registry, timer, pc>> /\ spc'[c] \notin Attached
            /\ \A d \in Subs : d # c => spc'[d] = spc[d] /\ srun'[d] = srun[d]
        BY <1>21, <2>2 DEF Disconnect, runVars, Attached, AllTypes, ResponseTypes
      <3>2. \A q : Subscribers(q)' = {} => Subscribers(q) = {}
        BY <2>2, <3>1 DEF Subscribers
      <3>3. QED
        BY <3>1, <3>2 DEF FinishedRunIsEvictable
    <2>3. QED
      BY <2>1, <2>2
  <1>22. CASE UNCHANGED vars
    BY <1>22 DEF vars, FinishedRunIsEvictable, Subscribers
  <1>23. QED
    BY <1>1, <1>2, <1>3, <1>4, <1>5, <1>6, <1>7, <1>8, <1>9, <1>10, <1>11, <1>12,
       <1>13, <1>14, <1>15, <1>16, <1>17, <1>18, <1>19, <1>20, <1>21, <1>22
       DEF Next, Request, TaskStep, GeneratorStep, ResponseStep

-----------------------------------------------------------------------------
(***************************************************************************)
(* The theorems.                                                           *)
(***************************************************************************)

\* The inductive invariant.
Inv ==
  /\ AllTypes
  /\ StatusOfTask /\ RunningIsRegistered
  /\ Chain
  /\ Log /\ Queues
  /\ Endings
  /\ FinishedRunIsEvictable

\* It holds before the first request.
LEMMA InitInv == Init => Inv
  <1> SUFFICES ASSUME Init PROVE Inv
    OBVIOUS
  <1>1. (CHOOSE s \in Sessions : TRUE) \in Sessions
    BY SessionsAssumption
  <1>2. RunTypes /\ ResponseTypes /\ LogTypes
    BY <1>1, BoundsAssumption DEF Init, RunTypes, ResponseTypes, LogTypes, Runs
  <1>3. Names /\ Started = {}
    BY BoundsAssumption DEF Init, Names, Runs, Started
  <1>4. StatusOfTask /\ RunningIsRegistered
    BY <1>3 DEF Init, StatusOfTask, RunningIsRegistered
  <1>5. Chain
    BY <1>3 DEF Init, Chain, Settled
  <1>6. Log
    BY DEF Init, Log
  <1>7. Queues
    BY EmptyInOrder DEF Init, Queues, QueueOrder, LiveNext
  <1>8. Endings
    <2>1. \A c \in Subs : EndingOf(c)
      BY EmptyHasNoEnd DEF Init, EndingOf, Ending
    <2>2. QED
      BY <2>1, EndingsSplit
  <1>9. FinishedRunIsEvictable
    BY DEF Init, FinishedRunIsEvictable
  <1>10. QED
    BY <1>2, <1>3, <1>4, <1>5, <1>6, <1>7, <1>8, <1>9 DEF Inv, AllTypes

\* Every step of the manager keeps it.
LEMMA StepInv == Inv /\ [Next]_vars => Inv'
  <1> SUFFICES ASSUME Inv, [Next]_vars PROVE Inv'
    OBVIOUS
  <1>1. /\ AllTypes /\ RunTypes /\ ResponseTypes /\ LogTypes /\ Names
        /\ StatusOfTask /\ RunningIsRegistered /\ Chain /\ Log /\ Queues
        /\ QueueOrder /\ LiveNext /\ Endings /\ FinishedRunIsEvictable
    BY DEF Inv, AllTypes, Queues
  <1>2. AllTypes'
    BY <1>1, StepRunTypes, StepResponseTypes, StepLogTypes, StepNames DEF AllTypes
  <1>3. StatusOfTask' /\ RunningIsRegistered'
    BY <1>1, StepStatus, StepRegistered
  <1>4. Chain'
    BY <1>1, StepChain
  <1>5. Log' /\ Queues'
    BY <1>1, StepLog, StepQueues
  <1>6. Endings'
    BY <1>1, StepEndings
  <1>7. FinishedRunIsEvictable'
    BY <1>1, StepEvictable
  <1>8. QED
    BY <1>2, <1>3, <1>4, <1>5, <1>6, <1>7 DEF Inv

\* The inductive invariant holds in every reachable state.
THEOREM InvHolds == Spec => []Inv
  BY InitInv, StepInv, PTL DEF Spec

\* Every reachable state is well typed.
THEOREM TypesHold == Spec => []TypeOK
  <1>1. Inv => TypeOK
    BY DEF Inv, AllTypes, TypeOK
  <1>2. QED
    BY <1>1, InvHolds, PTL

\* Every browser receives a prefix of the run's log, in order, without loss or
\* repetition, whenever it joins and however replay, live events, sentinels and
\* timeouts interleave.
THEOREM DeliveryIsInOrder == Spec => []DeliveredIsPrefix
  <1>1. Inv => DeliveredIsPrefix
    BY DEF Inv, Log, DeliveredIsPrefix
  <1>2. QED
    BY <1>1, InvHolds, PTL

\* A response closed on a completed run has delivered its whole log.
THEOREM DeliveryIsComplete == Spec => []DeliveredComplete
  <1>1. Inv => DeliveredComplete
    BY DEF Inv, Endings
  <1>2. QED
    BY <1>1, InvHolds, PTL

\* No response waits for a run that is over without a sentinel on its queue.
THEOREM EveryoneIsWoken == Spec => []NobodyLeftWaiting
  <1>1. Inv => NobodyLeftWaiting
    BY DEF Inv, Endings
  <1>2. QED
    BY <1>1, InvHolds, PTL

\* A run that is running is the one its session's registry entry names.
THEOREM RunningRunsAreRegistered == Spec => []RunningIsRegistered
  <1>1. Inv => RunningIsRegistered
    BY DEF Inv
  <1>2. QED
    BY <1>1, InvHolds, PTL

\* A finished run without subscribers has its eviction timer armed.
THEOREM FinishedRunsAreEvictable == Spec => []FinishedRunIsEvictable
  <1>1. Inv => FinishedRunIsEvictable
    BY DEF Inv
  <1>2. QED
    BY <1>1, InvHolds, PTL

\* Two runs of a session are at work together only past a cut run.
THEOREM SaveBarrierHolds == Spec => []BarrierUnlessCut
  <1>1. Inv => BarrierUnlessCut
    <2> SUFFICES ASSUME Inv, NEW p \in Started, NEW r \in Started, p < r, sess[p] = sess[r],
                        Working(p), Working(r)
                 PROVE  \E m \in p .. r - 1 : sess[m] = sess[r] /\ m \in cut
      BY DEF BarrierUnlessCut
    <2>1. sess[r] \in Sessions /\ pc[p] # "done"
      BY StartedRuns DEF Inv, AllTypes, RunTypes, Working
    <2>2. Settled(sess[r], r)
      BY <2>1 DEF Inv, Chain
    <2>3. QED
      BY <2>1, <2>2 DEF Settled
  <1>2. QED
    BY <1>1, InvHolds, PTL

-----------------------------------------------------------------------------
(***************************************************************************)
(* Refinement of RunLog.                                                   *)
(***************************************************************************)

\* A run that was not started has the status it will start with.
Fresh == \A r \in Runs : r > nrun => status[r] = "running"

LEMMA FreshStep == Inv /\ Fresh /\ [Next]_vars => Fresh'
  <1> SUFFICES ASSUME Inv, Fresh, [Next]_vars PROVE Fresh'
    OBVIOUS
  <1>1. RunTypes /\ Names /\ Started \subseteq Runs
    BY StartedRuns DEF Inv, AllTypes
  <1>2. nrun \in Nat
    BY <1>1 DEF RunTypes
  <1>3. ASSUME nrun' = nrun, NEW r \in Started, NEW x, status' = [status EXCEPT ![r] = x] PROVE Fresh'
    BY <1>1, <1>2, <1>3 DEF Fresh, Started, RunTypes
  <1>4. ASSUME UNCHANGED <<nrun, status>> PROVE Fresh'
    BY <1>4 DEF Fresh
  <1>5. ASSUME NEW s \in Sessions, NEW c \in Subs, Start(s, c) PROVE Fresh'
    <2>1. nrun' = nrun + 1
      BY <1>5 DEF Start
    <2>2. \A r \in Runs : r \notin Started => status'[r] = status[r]
      BY <1>1, <1>5 DEF Start, Terminalize, InFlight, Names, RunTypes
    <2>3. QED
      BY <1>2, <2>1, <2>2 DEF Fresh, Started, Runs
  <1>6. ASSUME NEW r \in Started, GeneratorStep(r) PROVE Fresh'
    BY <1>3, <1>4, <1>6 DEF GeneratorStep, Publish, Complete, Fail, UnwindEnd
  <1>7. ASSUME NEW r \in Started, TaskStep(r) PROVE Fresh'
    BY <1>3, <1>4, <1>7 DEF TaskStep, EnterDrain, PrevFinished, DeliverCancel, CancelWaiting, BarrierEnd
  <1>8. ASSUME NEW r \in Started, EvictFire(r) PROVE Fresh'
    BY <1>4, <1>8 DEF EvictFire
  <1>9. ASSUME NEW s \in Sessions, Stop(s) PROVE Fresh'
    BY <1>4, <1>9 DEF Stop
  <1>10. ASSUME NEW s \in Sessions, NEW c \in Subs, Resume(s, c) PROVE Fresh'
    BY <1>4, <1>10 DEF Resume, runVars
  <1>11. ASSUME NEW c \in Subs, Subscribe(c) \/ ResponseStep(c) \/ Disconnect(c) PROVE Fresh'
    BY <1>4, <1>11 DEF Subscribe, ResponseStep, Disconnect, Replay, Flush, SendFromBuffer, ReplayDone, Receive,
       TimeoutEnd, FlushDone, runVars
  <1>12. CASE UNCHANGED vars
    BY <1>4, <1>12 DEF vars
  <1>13. QED
    BY <1>5, <1>6, <1>7, <1>8, <1>9, <1>10, <1>11, <1>12 DEF Next, Request

\* What the invariant says of runs, logs and responses.
LEMMA LogFacts ==
  ASSUME Inv
  PROVE  /\ Started \subseteq Runs /\ nrun \in Nat
         /\ buffer \in [Runs -> Seq(Events)] /\ got \in [Subs -> Seq(Events)]
         /\ status \in [Runs -> {"running", "done", "error", "stopped"}]
         /\ spc \in [Subs -> {"free", "bound", "replay", "live", "flush", "closed"}]
         /\ srun \in [Subs -> 0 .. MaxRuns] /\ nextSeq \in [Subs -> Nat]
         /\ \A c \in Subs : spc[c] # "free" => srun[c] \in Runs
         /\ \A c \in Subs : Len(got[c]) = nextSeq[c]
         /\ \A r \in Runs : status[r] = "done" => pc[r] = "done"
  BY StartedRuns DEF Inv, AllTypes, Names, RunTypes, ResponseTypes, LogTypes, Log, StatusOfTask

\* No step that leaves the logs, the statuses and what responses have alone
\* is seen by the browsers.
LEMMA Unseen ==
  ASSUME UNCHANGED <<buffer, status, srun, got>>,
         \A c \in Subs : spc'[c] \in {"free", "closed"} <=> spc[c] \in {"free", "closed"}
  PROVE  UNCHANGED Browsers!logVars
  BY DEF Browsers!logVars, Lengths, Over, Completed, Reading

\* A log that gets n more events.
LEMMA LogGrows ==
  ASSUME Inv, NEW r \in Runs, NEW n \in Nat, NEW b, Len(b) = Len(buffer[r]) + n,
         buffer' = [buffer EXCEPT ![r] = b], pc[r] # "done", UNCHANGED <<srun, got, spc>>
  PROVE  Browsers!Grow(r, n)
  <1>1. Lengths' = [Lengths EXCEPT ![r] = @ + n]
    BY LogFacts DEF Lengths
  <1>2. r \notin Completed
    BY LogFacts DEF Completed
  <1>3. Reading' = Reading
    BY DEF Reading
  <1>4. QED
    BY <1>1, <1>2, <1>3 DEF Browsers!Grow

\* A run ends without completing.
LEMMA RunEnds ==
  ASSUME Inv, NEW r \in Runs, NEW n \in {0, 2}, NEW b, Len(b) = Len(buffer[r]) + n,
         buffer' = [buffer EXCEPT ![r] = b], pc[r] # "done", UNCHANGED <<srun, got, spc>>,
         NEW x \in {"stopped", "error"}, status' = [status EXCEPT ![r] = x]
  PROVE  Browsers!LogNext
  <1>1. Browsers!Grow(r, n)
    BY LogGrows
  <1>2. Over' = Over \cup {r} /\ Completed' = Completed
    BY LogFacts DEF Over, Completed
  <1>3. Browsers!End(r)
    BY <1>1, <1>2 DEF Browsers!End
  <1>4. QED
    BY <1>3 DEF Browsers!LogNext

\* A response gets the next event of its log.
LEMMA GetsNext ==
  ASSUME Inv, NEW c \in Subs, spc[c] \in Attached, spc'=spc, UNCHANGED <<buffer, status, srun>>,
         nextSeq[c] < Len(buffer[srun[c]]), got' = [got EXCEPT ![c] = Append(@, nextSeq[c] + 1)]
  PROVE  Browsers!LogNext
  <1>1. c \in Reading /\ UNCHANGED <<Lengths, Over, Completed, Reading>>
    BY LogFacts DEF Reading, Lengths, Over, Completed, Attached
  <1>2. Len(got[c]) = nextSeq[c] /\ Lengths[srun[c]] = Len(buffer[srun[c]])
    BY LogFacts DEF Lengths, Attached
  <1>3. Browsers!Read(c)
    BY <1>1, <1>2 DEF Browsers!Read
  <1>4. QED
    BY <1>3 DEF Browsers!LogNext

\* The server closes a response whose run is over and whose log is read.
LEMMA ClosesRead ==
  ASSUME Inv, NEW c \in Subs, spc[c] \in Attached, spc' = [spc EXCEPT ![c] = "closed"],
         UNCHANGED <<buffer, status, srun, got>>, status[srun[c]] # "running",
         nextSeq[c] >= Len(buffer[srun[c]])
  PROVE  Browsers!LogNext
  <1>1. c \in Reading /\ UNCHANGED <<Lengths, Over, Completed>> /\ Reading' = Reading \ {c}
    BY LogFacts DEF Reading, Lengths, Over, Completed, Attached
  <1>2. nextSeq[c] = Len(buffer[srun[c]])
    <2>1. nextSeq[c] <= Len(buffer[srun[c]])
      BY DEF Inv, Log, Attached
    <2>2. nextSeq[c] \in Nat /\ Len(buffer[srun[c]]) \in Nat
      BY LogFacts DEF Attached
    <2>3. QED
      BY <2>1, <2>2
  <1>3. Len(got[c]) = Lengths[srun[c]] /\ srun[c] \in Over
    BY <1>2, LogFacts DEF Lengths, Over, Attached
  <1>4. Browsers!Close(c)
    BY <1>1, <1>3 DEF Browsers!Close
  <1>5. QED
    BY <1>4 DEF Browsers!LogNext

\* A response is opened on a run that is not over.
LEMMA Opens ==
  ASSUME Inv, NEW c \in Subs, NEW r \in Runs, Bind(c, r), UNCHANGED buffer, status[r] = "running",
         status'[r] = "running",
         \/ UNCHANGED status
         \/ \E p \in Runs : status[p] = "running" /\ status' = [status EXCEPT ![p] = "stopped"]
  PROVE  Browsers!LogNext
  <1>1. c \notin Reading /\ Reading' = Reading \cup {c}
    BY LogFacts DEF Bind, Reading
  <1>2. UNCHANGED <<Lengths, Completed>>
    BY LogFacts DEF Lengths, Completed
  <1>3. r \notin Over
    BY DEF Over
  <1>4. UNCHANGED Over \/ \E p \in Runs \ (Completed \cup {r}) : Over' = Over \cup {p}
    <2>1. CASE UNCHANGED status
      BY <2>1 DEF Over
    <2>2. ASSUME NEW p \in Runs, status[p] = "running", status' = [status EXCEPT ![p] = "stopped"]
          PROVE  \E q \in Runs \ (Completed \cup {r}) : Over' = Over \cup {q}
      <3>1. p # r /\ p \notin Completed
        BY <2>2, LogFacts DEF Completed
      <3>2. Over' = Over \cup {p}
        BY <2>2, LogFacts DEF Over
      <3>3. QED
        BY <3>1, <3>2
    <2>3. QED
      BY <2>1, <2>2
  <1>5. Browsers!Open(c, r)
    BY <1>1, <1>2, <1>3, <1>4 DEF Browsers!Open, Bind
  <1>6. QED
    BY <1>5 DEF Browsers!LogNext
\* start() and chat_resume() open a response on a run that is not over.
LEMMA RequestRefines ==
  ASSUME Inv, Fresh, NEW s \in Sessions, NEW c \in Subs, Start(s, c) \/ Resume(s, c)
  PROVE  Browsers!LogNext
  <1> USE LogFacts
  <1>1. CASE Start(s, c)
    <2>1. PICK r \in Runs : r = nrun + 1
      BY <1>1 DEF Start
    <2>2. PICK p : p = registry[s]
      OBVIOUS
    <2>3. Bind(c, r) /\ UNCHANGED buffer /\ Terminalize(p)
      BY <1>1, <2>1, <2>2 DEF Start
    <2>4. InFlight(p) => p \in Started
      BY <2>2 DEF Inv, AllTypes, Names, InFlight
    <2>5. status[r] = "running" /\ r \notin Started
      BY <2>1 DEF Fresh, Started
    <2>6. status'[r] = "running"
      BY <2>3, <2>4, <2>5 DEF Terminalize
    <2>7. \/ UNCHANGED status
          \/ \E q \in Runs : status[q] = "running" /\ status' = [status EXCEPT ![q] = "stopped"]
      BY <2>3, <2>4 DEF Terminalize
    <2>8. QED
      BY <2>3, <2>5, <2>6, <2>7, Opens
  <1>2. CASE Resume(s, c)
    <2>1. PICK r : r = registry[s]
      OBVIOUS
    <2>2. r \in Runs /\ status[r] = "running" /\ Bind(c, r) /\ UNCHANGED <<buffer, status>>
      BY <1>2, <2>1 DEF Resume, runVars, Inv, AllTypes, Names
    <2>3. QED
      BY <2>2, Opens
  <1>3. QED
    BY <1>1, <1>2

\* A run's task adds to its log, ends its run, or does nothing browsers see.
LEMMA TaskRefines ==
  ASSUME Inv, NEW r \in Started, TaskStep(r)
  PROVE  [Browsers!LogNext]_Browsers!logVars
  <1> USE LogFacts
  <1>1. ASSUME EnterDrain(r) \/ PrevFinished(r) \/ DeliverCancel(r) \/ BarrierEnd(r)
        PROVE  UNCHANGED Browsers!logVars
    <2>1. UNCHANGED <<buffer, status, spc, srun, got>>
      BY <1>1 DEF EnterDrain, PrevFinished, DeliverCancel, BarrierEnd, subVars
    <2>2. QED
      BY <2>1, Unseen
  <1>2. ASSUME CancelWaiting(r) PROVE Browsers!LogNext
    <2>1. UNCHANGED <<srun, got, spc, buffer>> /\ status' = [status EXCEPT ![r] = "stopped"]
          /\ pc[r] # "done" /\ r \in Runs
      BY <1>2 DEF CancelWaiting
    <2>2. PICK b : b = buffer[r]
      OBVIOUS
    <2>3. buffer' = [buffer EXCEPT ![r] = b] /\ Len(b) = Len(buffer[r]) + 0
      BY <2>1, <2>2
    <2>4. QED
      BY <2>1, <2>3, RunEnds
  <1>3. QED
    BY <1>1, <1>2 DEF TaskStep

\* So does the generator.
LEMMA GeneratorRefines ==
  ASSUME Inv, NEW r \in Started, GeneratorStep(r)
  PROVE  [Browsers!LogNext]_Browsers!logVars
  <1> USE LogFacts
  <1>1. ASSUME Publish(r) PROVE Browsers!LogNext
    <2>1. PICK b : b = Append(buffer[r], Len(buffer[r]) + 1)
      OBVIOUS
    <2>2. buffer' = [buffer EXCEPT ![r] = b] /\ UNCHANGED <<status, spc, srun, got>> /\ pc[r] # "done"
      BY <1>1, <2>1 DEF Publish
    <2>3. Len(b) = Len(buffer[r]) + 1
      BY <2>1
    <2>4. Browsers!Grow(r, 1)
      BY <2>2, <2>3, LogGrows
    <2>5. UNCHANGED <<Over, Completed>>
      BY <2>2 DEF Over, Completed
    <2>6. Browsers!Add(r)
      BY <2>4, <2>5 DEF Browsers!Add
    <2>7. QED
      BY <2>6 DEF Browsers!LogNext
  <1>2. ASSUME Complete(r) PROVE [Browsers!LogNext]_Browsers!logVars
    <2>1. UNCHANGED <<buffer, spc, srun, got>> /\ pc[r] # "done"
          /\ status' = [status EXCEPT ![r] = IF @ = "running" THEN "done" ELSE @]
      BY <1>2 DEF Complete
    <2>2. CASE status[r] = "running"
      <3>1. status' = [status EXCEPT ![r] = "done"]
        BY <2>1, <2>2
      <3>2. PICK b : b = buffer[r]
        OBVIOUS
      <3>3. buffer' = [buffer EXCEPT ![r] = b] /\ Len(b) = Len(buffer[r]) + 0
        BY <2>1, <3>2
      <3>4. Browsers!Grow(r, 0)
        BY <2>1, <3>3, LogGrows
      <3>5. r \notin Over /\ Over' = Over \cup {r} /\ Completed' = Completed \cup {r}
        BY <2>2, <3>1 DEF Over, Completed
      <3>6. Browsers!Finish(r)
        BY <3>4, <3>5 DEF Browsers!Finish
      <3>7. QED
        BY <3>6 DEF Browsers!LogNext
    <2>3. CASE status[r] # "running"
      <3>1. UNCHANGED status
        BY <2>1, <2>3
      <3>2. QED
        BY <2>1, <3>1, Unseen
    <2>4. QED
      BY <2>2, <2>3
  <1>3. ASSUME Fail(r) PROVE Browsers!LogNext
    <2>1. PICK k : k = Len(buffer[r]) + 1
      OBVIOUS
    <2>2. PICK b : b = buffer[r] \o <<k, k + 1>>
      OBVIOUS
    <2>3. buffer' = [buffer EXCEPT ![r] = b] /\ UNCHANGED <<spc, srun, got>> /\ pc[r] # "done"
          /\ status' = [status EXCEPT ![r] = "error"]
      BY <1>3, <2>1, <2>2 DEF Fail
    <2>4. Len(b) = Len(buffer[r]) + 2
      BY <2>1, <2>2
    <2>5. QED
      BY <2>3, <2>4, RunEnds
  <1>4. ASSUME UnwindEnd(r) PROVE Browsers!LogNext
    <2>1. UNCHANGED <<srun, got, spc, buffer>> /\ status' = [status EXCEPT ![r] = "stopped"]
          /\ pc[r] # "done" /\ r \in Runs
      BY <1>4 DEF UnwindEnd
    <2>2. PICK b : b = buffer[r]
      OBVIOUS
    <2>3. buffer' = [buffer EXCEPT ![r] = b] /\ Len(b) = Len(buffer[r]) + 0
      BY <2>1, <2>2
    <2>4. QED
      BY <2>1, <2>3, RunEnds
  <1>5. QED
    BY <1>1, <1>2, <1>3, <1>4 DEF GeneratorStep

\* The event a response takes from its queue, if it has not sent it, is the next
\* one of the log.
LEMMA TakesNext ==
  ASSUME Inv, NEW c \in Subs, spc[c] = "live", queue[c] # <<>>, Head(queue[c]) # End,
         Head(queue[c]).seq >= nextSeq[c]
  PROVE  nextSeq[c] < Len(buffer[srun[c]]) /\ Head(queue[c]).ev = nextSeq[c] + 1
  <1>1. /\ buffer[srun[c]] \in Seq(Events) /\ Len(buffer[srun[c]]) \in Nat
        /\ nextSeq[c] \in Nat /\ queue[c] \in Seq(QueueItems)
    BY ResponseLog DEF Inv
  <1>2. PICK q \in Seq(QueueItems), n \in Nat, m \in Nat :
          q = queue[c] /\ n = Len(buffer[srun[c]]) /\ m = nextSeq[c]
    BY <1>1
  <1>3. InOrder(q, n) /\ NoGap(q, m, n) /\ m <= n
    BY <1>2 DEF Inv, Queues, QueueOrder, LiveNext, Log
  <1>4. q # <<>> /\ q[1] # End /\ q[1].seq >= m /\ Head(q) = q[1]
    BY <1>2
  <1>5. PICK l : l = IF q[1].seq >= m THEN q[1].seq + 1 ELSE m
    OBVIOUS
  <1>6. q[1].seq = m /\ q[1].ev = m + 1 /\ l <= n
    BY <1>3, <1>4, <1>5, NoGapTail
  <1>7. QED
    BY <1>2, <1>4, <1>5, <1>6

\* A response's body reads the next event, closes when all is read, or does
\* nothing the browser sees.
LEMMA ResponseRefines ==
  ASSUME Inv, NEW c \in Subs, ResponseStep(c)
  PROVE  [Browsers!LogNext]_Browsers!logVars
  <1> USE LogFacts
  <1>1. ASSUME Replay(c) \/ Flush(c) PROVE Browsers!LogNext
    <2>1. /\ spc[c] \in Attached /\ spc' = spc /\ UNCHANGED <<buffer, status, srun>>
          /\ nextSeq[c] < Len(buffer[srun[c]])
          /\ got' = [got EXCEPT ![c] = Append(@, buffer[srun[c]][nextSeq[c] + 1])]
      BY <1>1 DEF Replay, Flush, SendFromBuffer, Attached, runVars
    <2>2. srun[c] \in Runs /\ nextSeq[c] \in Nat /\ Len(buffer[srun[c]]) \in Nat
      BY <2>1 DEF Attached
    <2>3. buffer[srun[c]][nextSeq[c] + 1] = nextSeq[c] + 1
      BY <2>1, <2>2 DEF Inv, Log
    <2>4. QED
      BY <2>1, <2>3, GetsNext
  <1>2. ASSUME ReplayDone(c) PROVE [Browsers!LogNext]_Browsers!logVars
    <2>1. /\ spc[c] = "replay" /\ nextSeq[c] >= Len(buffer[srun[c]])
          /\ UNCHANGED <<buffer, status, srun, got>>
      BY <1>2 DEF ReplayDone, runVars
    <2>2. CASE status[srun[c]] # "running"
      <3>1. spc' = [spc EXCEPT ![c] = "closed"]
        BY <1>2, <2>2 DEF ReplayDone
      <3>2. QED
        BY <2>1, <2>2, <3>1, ClosesRead DEF Attached
    <2>3. CASE status[srun[c]] = "running"
      <3>1. spc' = [spc EXCEPT ![c] = "live"]
        BY <1>2, <2>3 DEF ReplayDone
      <3>2. QED
        BY <2>1, <3>1, Unseen
    <2>4. QED
      BY <2>2, <2>3
  <1>3. ASSUME Receive(c) PROVE [Browsers!LogNext]_Browsers!logVars
    <2>1. spc[c] = "live" /\ queue[c] # <<>> /\ UNCHANGED <<buffer, status, srun>>
      BY <1>3 DEF Receive, runVars
    <2>2. CASE Head(queue[c]) # End /\ Head(queue[c]).seq >= nextSeq[c]
      <3>1. nextSeq[c] < Len(buffer[srun[c]]) /\ Head(queue[c]).ev = nextSeq[c] + 1
        BY <2>1, <2>2, TakesNext
      <3>2. spc' = spc /\ got' = [got EXCEPT ![c] = Append(@, Head(queue[c]).ev)]
        <4>1. nextSeq[c] \in Nat /\ queue[c] \in Seq(QueueItems)
          BY <2>1, ResponseLog DEF Inv
        <4>2. Head(queue[c]) \in QueueItems
          BY <2>1, <4>1, HeadTailProperties
        <4>3. Head(queue[c]).seq \in Int
          BY <4>2 DEF QueueItems
        <4>4. QED
          BY <1>3, <2>2, <4>1, <4>3 DEF Receive
      <3>3. QED
        BY <2>1, <3>1, <3>2, GetsNext DEF Attached
    <2>3. CASE Head(queue[c]) # End /\ ~(Head(queue[c]).seq >= nextSeq[c])
      <3>1. UNCHANGED <<spc, got>>
        BY <1>3, <2>3 DEF Receive
      <3>2. QED
        BY <2>1, <3>1, Unseen
    <2>4. CASE Head(queue[c]) = End
      <3>1. spc' = [spc EXCEPT ![c] = "flush"] /\ UNCHANGED got
        BY <1>3, <2>4 DEF Receive
      <3>2. QED
        BY <2>1, <3>1, Unseen
    <2>5. QED
      BY <2>2, <2>3, <2>4
  <1>4. ASSUME TimeoutEnd(c) PROVE UNCHANGED Browsers!logVars
    <2>1. UNCHANGED <<buffer, status, srun, got>> /\ spc[c] = "live"
          /\ spc' = [spc EXCEPT ![c] = "flush"]
      BY <1>4 DEF TimeoutEnd, runVars
    <2>2. QED
      BY <2>1, Unseen
  <1>5. ASSUME FlushDone(c) PROVE Browsers!LogNext
    <2>1. /\ spc[c] = "flush" /\ nextSeq[c] >= Len(buffer[srun[c]])
          /\ spc' = [spc EXCEPT ![c] = "closed"] /\ UNCHANGED <<buffer, status, srun, got>>
      BY <1>5 DEF FlushDone, runVars
    <2>2. status[srun[c]] # "running"
      BY <2>1 DEF Inv, Endings, SentinelMeansOver
    <2>3. QED
      BY <2>1, <2>2, ClosesRead DEF Attached
  <1>6. QED
    BY <1>1, <1>2, <1>3, <1>4, <1>5 DEF ResponseStep

\* The browser leaves.
LEMMA LeaveRefines ==
  ASSUME Inv, NEW c \in Subs, Disconnect(c)
  PROVE  Browsers!LogNext
  <1> USE LogFacts
  <1>1. /\ spc[c] \in Attached \cup {"bound"} /\ spc' = [spc EXCEPT ![c] = "free"]
        /\ srun' = [srun EXCEPT ![c] = 0] /\ got' = [got EXCEPT ![c] = <<>>]
        /\ UNCHANGED <<buffer, status>>
    BY DEF Disconnect, runVars
  <1>2. c \in Reading /\ Reading' = Reading \ {c} /\ UNCHANGED <<Lengths, Over, Completed>>
    BY <1>1 DEF Reading, Attached, Lengths, Over, Completed
  <1>3. Browsers!Leave(c)
    BY <1>1, <1>2 DEF Browsers!Leave
  <1>4. QED
    BY <1>3 DEF Browsers!LogNext

\* Every step of the manager is a step of the logs and their readers, or none.
LEMMA StepRefines ==
  Inv /\ Fresh /\ [Next]_vars => [Browsers!LogNext]_Browsers!logVars
  <1> SUFFICES ASSUME Inv, Fresh, [Next]_vars PROVE [Browsers!LogNext]_Browsers!logVars
    OBVIOUS
  <1>1. ASSUME NEW s \in Sessions, NEW c \in Subs, Start(s, c) \/ Resume(s, c) PROVE Browsers!LogNext
    BY <1>1, RequestRefines
  <1>2. ASSUME NEW s \in Sessions, Stop(s) PROVE UNCHANGED Browsers!logVars
    BY <1>2, Unseen DEF Stop, subVars
  <1>3. ASSUME NEW r \in Started, TaskStep(r) \/ GeneratorStep(r)
        PROVE  [Browsers!LogNext]_Browsers!logVars
    BY <1>3, TaskRefines, GeneratorRefines
  <1>4. ASSUME NEW r \in Started, EvictFire(r) PROVE UNCHANGED Browsers!logVars
    BY <1>4, Unseen DEF EvictFire, subVars
  <1>5. ASSUME NEW c \in Subs, Subscribe(c) PROVE UNCHANGED Browsers!logVars
    <2>1. UNCHANGED <<buffer, status, srun, got>> /\ spc[c] = "bound"
          /\ spc' = [spc EXCEPT ![c] = "replay"]
      BY <1>5 DEF Subscribe, runVars
    <2>2. QED
      BY <2>1, LogFacts, Unseen
  <1>6. ASSUME NEW c \in Subs, ResponseStep(c) PROVE [Browsers!LogNext]_Browsers!logVars
    BY <1>6, ResponseRefines
  <1>7. ASSUME NEW c \in Subs, Disconnect(c) PROVE Browsers!LogNext
    BY <1>7, LeaveRefines
  <1>8. CASE UNCHANGED vars
    BY <1>8, Unseen DEF vars
  <1>9. QED
    BY <1>1, <1>2, <1>3, <1>4, <1>5, <1>6, <1>7, <1>8 DEF Next, Request

\* Nothing is started, logged or opened at first.
LEMMA InitRefines == Init => Fresh /\ Browsers!LogInit
  <1> SUFFICES ASSUME Init PROVE Fresh /\ Browsers!LogInit
    OBVIOUS
  <1>1. Fresh
    BY DEF Init, Fresh
  <1>2. Lengths = [r \in Runs |-> 0]
    BY DEF Init, Lengths
  <1>3. Over = {} /\ Completed = {} /\ Reading = {}
    BY DEF Init, Over, Completed, Reading
  <1>4. Browsers!LogInit
    BY <1>2, <1>3 DEF Init, Browsers!LogInit
  <1>5. QED
    BY <1>1, <1>4

\* The manager implements the logs and their readers, for every number of
\* sessions, connections, runs and events: whatever its tasks, queues, sentinels,
\* time-outs and timers do, a browser sees a response read the log of one run,
\* from the start and in order, closed by the server only at the end of the log
\* of a run that is over.
THEOREM Refinement == Spec => ImplementsRunLog
  <1>1. Init => Fresh /\ Browsers!LogInit
    BY InitRefines
  <1>2. Inv /\ Fresh /\ [Next]_vars => Fresh'
    BY FreshStep
  <1>3. Inv /\ Fresh /\ [Next]_vars => [Browsers!LogNext]_Browsers!logVars
    BY StepRefines
  <1>4. QED
    BY <1>1, <1>2, <1>3, InvHolds, PTL DEF Spec, ImplementsRunLog, Browsers!LogSpec

=============================================================================
