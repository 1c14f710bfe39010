---------------------------- MODULE BgJobsProofs ----------------------------
(***************************************************************************)
(* The safety of background jobs for any number of jobs, sessions, deaths  *)
(* of the server and continuations.  The inductive invariant relates three *)
(* views of a job: its record on disk, the copy refresh() works on, and    *)
(* the list the monitor made some time ago.                                *)
(***************************************************************************)
EXTENDS BgJobs, TLAPS

\* A record of a job that has not ended carries no verdict, that of one that has
\* says how; only a job that was followed up is pruned.
RecordInv ==
  \A j \in Jobs :
    /\ store[j].status = "absent" => store[j] = Absent
    /\ store[j].status = "running" => store[j] = Running
    /\ store[j].status = "pruned" => store[j].followed
    /\ store[j].cause = "" => store[j].status \in {"absent", "running"}

\* The verdicts refresh() gives.
Verdicts == {Ended("done", "exit"), Ended("failed", "exit"),
             Ended("failed", "timed_out"), Ended("failed", "died")}

\* A verdict is right about the command and its exit file.
TrueOf(r, j) ==
  /\ r.status = "done" => code[j] = 0
  /\ r.cause = "died" => process[j] = "gone" /\ exit[j] = "none"

\* A job that is launched has no record yet.  While refresh() works, its copy
\* of a record is the stored one, or a right verdict on a job stored as running;
\* it has no verdict yet on the jobs it has still to examine.
RefreshInv ==
  /\ srv = "launch" => call.job \in Jobs /\ store[call.job] = Absent
  /\ srv # "refresh" => scan = {} /\ probe = None
  /\ \A j \in scan : jobs[j] = Running
  /\ probe \in Jobs => jobs[probe] = Running /\ probe \notin scan
  /\ srv = "refresh" => \A j \in Jobs :
       \/ jobs[j] = store[j]
       \/ store[j] = Running /\ jobs[j] \in Verdicts /\ TrueOf(jobs[j], j)

\* The stored verdicts are right, and so is the exit file.
VerdictInv ==
  \A j \in Jobs :
    /\ TrueOf(store[j], j)
    /\ exit[j] = "0" => code[j] = 0

\* The job the monitor follows up and those still on its list have ended, by
\* themselves, and nobody has told the agent.  A job about to be marked was
\* told, or its session is gone.
Unheard(j) == Finished(store[j]) /\ ~store[j].followed /\ store[j].cause # "killed"

DueInv ==
  /\ \A j \in todo : Unheard(j)
  /\ mon = "drain" => Unheard(cur) /\ cur \notin todo
  /\ srv = "mark" => mon = "drain" /\ (posts[cur] > 0 \/ sess[cur] \notin alive)

\* A continuation is stored for ended jobs only, and a second one only when the
\* server died before the mark.
Marking(j) == srv = "mark" /\ cur = j

PostInv ==
  \A j \in Jobs :
    /\ posts[j] > 0 => Finished(store[j]) \/ store[j].status = "pruned"
    /\ store[j].cause = "killed" => store[j].followed /\ posts[j] = 0
    /\ posts[j] <= crashes + 1
    /\ ~store[j].followed /\ ~Marking(j) => posts[j] <= crashes

IInv == TypeOK /\ RecordInv /\ RefreshInv /\ VerdictInv /\ DueInv /\ PostInv /\ NeverSilent

-----------------------------------------------------------------------------
(* Records. *)

\* What a job without a record, and the record of launch(), say.
LEMMA StartFacts ==
  /\ Absent \in JobRecords /\ Absent.status = "absent" /\ Absent.cause = "" /\ ~Absent.followed
  /\ Running \in JobRecords /\ Running.status = "running" /\ Running.cause = "" /\ ~Running.followed
BY DEF JobRecords, Absent, Running

\* What refresh() and kill() say of a job that ended.
LEMMA EndedFacts ==
  ASSUME NEW s \in {"done", "failed"}, NEW c \in {"exit", "timed_out", "died", "killed"}
  PROVE  /\ Ended(s, c) \in JobRecords /\ Ended(s, c).status = s
         /\ Ended(s, c).cause = c /\ ~Ended(s, c).followed
BY DEF JobRecords, Ended

\* mark_followed_up() and kill() set one field of a record.
LEMMA FollowedFacts ==
  ASSUME NEW r \in JobRecords
  PROVE  /\ [r EXCEPT !.followed = TRUE] \in JobRecords
         /\ [r EXCEPT !.followed = TRUE].status = r.status
         /\ [r EXCEPT !.followed = TRUE].cause = r.cause
         /\ [r EXCEPT !.followed = TRUE].followed
BY DEF JobRecords

\* A verdict ends a job, and is neither a kill nor a follow-up.
LEMMA VerdictFacts ==
  \A r \in Verdicts : r \in JobRecords /\ Finished(r) /\ r.cause \notin {"", "killed"} /\ ~r.followed
<1> SUFFICES ASSUME NEW s \in {"done", "failed"}, NEW c \in {"exit", "timed_out", "died"}
             PROVE  /\ Ended(s, c) \in JobRecords /\ Finished(Ended(s, c))
                    /\ Ended(s, c).cause \notin {"", "killed"} /\ ~Ended(s, c).followed
  BY DEF Verdicts
<1> QED BY EndedFacts DEF Finished

\* _prune() changes the status of jobs that were followed up, and nothing else.
LEMMA PrunedFacts ==
  ASSUME jobs \in [Jobs -> JobRecords]
  PROVE  /\ Pruned \in [Jobs -> JobRecords]
         /\ \A j \in Jobs :
              /\ Pruned[j].cause = jobs[j].cause /\ Pruned[j].followed = jobs[j].followed
              /\ Pruned[j] = jobs[j] \/ (Pruned[j].status = "pruned" /\ jobs[j].followed)
BY DEF Pruned, JobRecords

-----------------------------------------------------------------------------
(* The types. *)

\* A bounded counter that has not reached its bound.
LEMMA CountStep ==
  ASSUME NEW n \in Nat, NEW k \in 0 .. n, k < n
  PROVE  k + 1 \in 0 .. n
OBVIOUS

\* What the server's memory holds when it starts.
LEMMA BlankFacts ==
  /\ NoJobs \in [Jobs -> JobRecords]
  /\ NoCall \in [by : {"", "monitor", "list", "kill"}, job : Jobs \cup {None}]
BY StartFacts DEF NoJobs, NoCall

\* The type invariant holds at the start.
LEMMA InitTypes == Init => TypeOK
<1> SUFFICES ASSUME Init PROVE TypeOK
  OBVIOUS
<1>1. crashes \in 0 .. MaxCrashes /\ posts \in [Jobs -> 0 .. MaxPosts]
  BY BoundsAssumption DEF Init
<1>2. store \in [Jobs -> JobRecords] /\ jobs \in [Jobs -> JobRecords]
  BY BlankFacts DEF Init
<1>3. QED BY <1>1, <1>2, BlankFacts DEF Init, TypeOK

\* Every step keeps the types.
LEMMA TypeStep == TypeOK /\ [Next]_vars => TypeOK'
<1> SUFFICES ASSUME TypeOK, [Next]_vars PROVE TypeOK'
  OBVIOUS
<1> USE BoundsAssumption, NoneAssumption DEF TypeOK, env, refreshing, monitor, chat, history
<1>1. ASSUME NEW j \in Jobs, ProcessStep(j) \/ TimePasses(j) PROVE TypeOK'
  <2>1. CASE TimePasses(j)
    BY <2>1 DEF TimePasses
  <2>2. CASE CommandEnds(j)
    BY <2>2 DEF CommandEnds
  <2>3. CASE EchoWrites(j)
    BY <2>3 DEF EchoWrites
  <2>4. CASE Dies(j)
    BY <2>4 DEF Dies
  <2>5. CASE Reaped(j)
    BY <2>5 DEF Reaped
  <2>6. QED BY <1>1, <2>1, <2>2, <2>3, <2>4, <2>5 DEF ProcessStep
<1>2. ASSUME (\E j \in Jobs : Launch(j)) \/ LaunchSaves PROVE TypeOK'
  <2>1. ASSUME NEW j \in Jobs, Launch(j) PROVE TypeOK'
    BY <2>1 DEF Launch
  <2>2. CASE LaunchSaves
    <3>1. store' \in [Jobs -> JobRecords]
      BY <2>2, StartFacts DEF LaunchSaves
    <3>2. QED BY <2>2, <3>1, BlankFacts DEF LaunchSaves
  <2>3. QED BY <1>2, <2>1, <2>2
<1>3. ASSUME NEW by \in {"monitor", "list", "kill"}, NEW j \in Jobs \cup {None}, Refresh(by, j)
      PROVE TypeOK'
  BY <1>3 DEF Refresh
<1>4. ASSUME NEW j \in Jobs, Look(j) PROVE TypeOK'
  <2>1. jobs' \in [Jobs -> JobRecords]
    <3>1. Ended("done", "exit") \in JobRecords /\ Ended("failed", "exit") \in JobRecords
      BY EndedFacts
    <3>2. \/ jobs' = jobs
          \/ jobs' = [jobs EXCEPT ![j] = Ended("done", "exit")]
          \/ jobs' = [jobs EXCEPT ![j] = Ended("failed", "exit")]
      BY <1>4 DEF Look
    <3>3. QED BY ZenonT(30), <3>1, <3>2
  <2>2. QED BY <1>4, <2>1 DEF Look
<1>5. ASSUME NEW j \in Jobs, Probe(j) PROVE TypeOK'
  <2>1. jobs' \in [Jobs -> JobRecords]
    <3>1. Ended("failed", "timed_out") \in JobRecords /\ Ended("failed", "died") \in JobRecords
      BY EndedFacts
    <3>2. QED BY <1>5, <3>1 DEF Probe
  <2>2. process' \in [Jobs -> {"none", "running", "writing", "zombie", "gone"}]
    BY ZenonT(30), <1>5 DEF Probe, KillTree
  <2>3. QED BY <1>5, <2>1, <2>2 DEF Probe
<1>6. ASSUME Refreshed PROVE TypeOK'
  <2>1. Pruned \in [Jobs -> JobRecords]
    BY PrunedFacts
  <2>2. [Ended("failed", "killed") EXCEPT !.followed = TRUE] \in JobRecords
    BY EndedFacts, FollowedFacts
  <2>3. store' \in [Jobs -> JobRecords]
    BY <1>6, <2>1, <2>2 DEF Refreshed
  <2>4. process' \in [Jobs -> {"none", "running", "writing", "zombie", "gone"}]
    <3>1. KillTree(call.job) \/ process' = process
      BY <1>6 DEF Refreshed
    <3>2. QED BY ZenonT(30), <3>1 DEF KillTree
  <2>5. /\ jobs' \in [Jobs -> JobRecords]
        /\ call' \in [by : {"", "monitor", "list", "kill"}, job : Jobs \cup {None}]
    BY <1>6, BlankFacts DEF Refreshed
  <2>6. todo' \subseteq Jobs /\ mon' \in {"sleep", "next", "drain"} /\ (mon' = "drain" => cur' \in Jobs)
    BY <1>6 DEF Refreshed
  <2>7. QED BY <1>6, <2>3, <2>4, <2>5, <2>6 DEF Refreshed
<1>7. ASSUME NEW j \in Jobs, FollowUp(j) PROVE TypeOK'
  BY <1>7 DEF FollowUp
<1>8. CASE DrainFails \/ DrainDropped \/ Sleep
  BY <1>8 DEF DrainFails, DrainDropped, Sleep
<1>9. CASE DrainEnds
  <2>1. cur \in Jobs /\ posts[cur] + 1 \in 0 .. MaxPosts
    <3>1. cur \in Jobs /\ posts[cur] < MaxPosts
      BY <1>9 DEF DrainEnds
    <3>2. posts[cur] \in 0 .. MaxPosts
      BY <3>1
    <3>3. QED BY <3>1, <3>2, CountStep
  <2>2. posts' \in [Jobs -> 0 .. MaxPosts]
    BY <1>9, <2>1 DEF DrainEnds
  <2>3. QED BY <1>9, <2>2 DEF DrainEnds
<1>10. CASE Mark
  <2>1. store' \in [Jobs -> JobRecords]
    BY <1>10, FollowedFacts DEF Mark
  <2>2. QED BY <1>10, <2>1 DEF Mark
<1>11. ASSUME NEW s \in Sessions, TurnStarts(s) \/ TurnEnds(s) \/ DeleteSession(s) PROVE TypeOK'
  BY <1>11 DEF TurnStarts, TurnEnds, DeleteSession
<1>12. CASE ServerDies
  <2>1. crashes' \in 0 .. MaxCrashes
    BY <1>12, CountStep DEF ServerDies
  <2>2. jobs' \in [Jobs -> JobRecords]
    BY <1>12, BlankFacts DEF ServerDies
  <2>3. QED BY <1>12, <2>1, <2>2, BlankFacts DEF ServerDies
<1>13. CASE UNCHANGED vars
  BY <1>13 DEF vars
<1>14. QED
  BY <1>1, <1>2, <1>3, <1>4, <1>5, <1>6, <1>7, <1>8, <1>9, <1>10, <1>11, <1>12, <1>13
  DEF Next, RefreshStep, MonitorStep, Tick, ToolLists, ToolKills

\* The variables of the job monitor keep their types.
THEOREM TypeCorrect == Spec => []TypeOK
BY InitTypes, TypeStep, PTL DEF Spec

-----------------------------------------------------------------------------
(* The kinds of step.  Each keeps the invariant, once for all the actions of *)
(* its kind; the types are known already.                                    *)

Parts == RecordInv /\ RefreshInv /\ VerdictInv /\ DueInv /\ PostInv /\ NeverSilent

\* The detached processes and the clock: what is gone without an exit file stays
\* so, and an exit file that reads "0" is written by a command that succeeded.
World ==
  /\ \A j \in Jobs :
       /\ process[j] = "gone" => process'[j] = "gone" /\ exit'[j] = exit[j]
       /\ exit'[j] = "0" => exit[j] = "0" \/ code[j] = 0
  /\ alive' \subseteq alive
  /\ UNCHANGED <<store, sess, code, srv, call, jobs, scan, probe, mon, todo, cur, crashes, posts>>

\* refresh() examines job j: it leaves the scan, and if it is given a verdict,
\* that verdict is right.
Examined(j) ==
  /\ j \in Jobs /\ srv = "refresh" /\ jobs[j] = Running
  /\ scan' \subseteq scan \ {j} /\ probe' \in {None, j}
  /\ probe' = j => jobs'[j] = jobs[j]
  /\ \A k \in Jobs : k # j => jobs'[k] = jobs[k]
  /\ jobs'[j] = jobs[j] \/ (jobs'[j] \in Verdicts /\ TrueOf(jobs'[j], j))
  /\ \A k \in Jobs : process[k] = "gone" => process'[k] = "gone"
  /\ UNCHANGED <<store, sess, alive, code, exit, srv, call, mon, todo, cur, crashes, posts>>

\* The monitor moves on without touching the store: it may take a job off its list.
MonitorMoves ==
  /\ srv = "loop" /\ srv' \in {"loop", "mark"}
  /\ todo' \subseteq todo
  /\ mon' = "drain" => Unheard(cur') /\ cur' \in Jobs \ todo'
  /\ srv' = "mark" => mon' = "drain" /\ (posts'[cur'] > 0 \/ sess[cur'] \notin alive)
  /\ \A j \in Jobs : \/ posts'[j] = posts[j]
                     \/ srv' = "mark" /\ cur' = j /\ posts'[j] = posts[j] + 1
  /\ UNCHANGED <<store, sess, alive, process, code, exit, call, jobs, scan, probe, crashes>>

\* The counters are natural numbers.
LEMMA CountTypes == TypeOK => crashes \in Nat /\ \A j \in Jobs : posts[j] \in Nat
<1> SUFFICES ASSUME TypeOK PROVE crashes \in Nat /\ \A j \in Jobs : posts[j] \in Nat
  OBVIOUS
<1>1. crashes \in 0 .. MaxCrashes /\ posts \in [Jobs -> 0 .. MaxPosts]
  BY DEF TypeOK
<1>2. QED BY <1>1, BoundsAssumption

\* The processes and the clock.
LEMMA WorldStep == ASSUME TypeOK, TypeOK', Parts, World PROVE Parts'
<1> USE DEF TypeOK, Parts, World
<1>1. RecordInv' BY DEF RecordInv
<1>2. \A r : \A j \in Jobs : TrueOf(r, j) => TrueOf(r, j)'
  BY DEF TrueOf
<1>3. RefreshInv' 
  <2>1. ASSUME srv = "refresh", NEW j \in Jobs
        PROVE  jobs[j] = store[j] \/ (store[j] = Running /\ jobs[j] \in Verdicts /\ TrueOf(jobs[j], j)')
    BY <2>1, <1>2 DEF RefreshInv
  <2>2. QED BY <2>1 DEF RefreshInv, TrueOf, Verdicts
<1>4. VerdictInv' BY DEF VerdictInv, TrueOf
<1>5. DueInv' BY DEF DueInv, Unheard
<1>6. PostInv' BY DEF PostInv, Marking
<1>7. NeverSilent' BY DEF NeverSilent
<1>8. QED BY <1>1, <1>3, <1>4, <1>5, <1>6, <1>7

\* refresh() examines a job.
LEMMA ExaminedStep ==
  ASSUME TypeOK, TypeOK', Parts, NEW j \in Jobs, Examined(j) PROVE Parts'
<1> USE DEF Parts, Examined
<1>1. RecordInv' BY DEF RecordInv
<1>2. \A r : \A k \in Jobs : TrueOf(r, k) => TrueOf(r, k)'
  BY DEF TrueOf
<1>4. RefreshInv'
  <2>1. scan' \subseteq Jobs
    BY DEF TypeOK
  <2>2. ASSUME NEW k \in scan' PROVE jobs'[k] = Running
    BY <2>1, <2>2 DEF RefreshInv
  <2>3. probe' \in Jobs => jobs'[probe'] = Running /\ probe' \notin scan'
    BY NoneAssumption
  <2>4. \A k \in Jobs :
          \/ jobs[k] = store[k]
          \/ store[k] = Running /\ jobs[k] \in Verdicts /\ TrueOf(jobs[k], k)
    BY DEF RefreshInv
  <2>5. Running \notin Verdicts
    BY VerdictFacts, StartFacts DEF Finished
  <2>6. store[j] = Running
    BY <2>4, <2>5
  <2>7. ASSUME NEW k \in Jobs, k # j
        PROVE  jobs'[k] = store[k] \/ (store[k] = Running /\ jobs'[k] \in Verdicts /\ TrueOf(jobs'[k], k))
    BY <2>4, <2>7
  <2>8. jobs'[j] = store[j] \/ (store[j] = Running /\ jobs'[j] \in Verdicts /\ TrueOf(jobs'[j], j))
    BY <2>6
  <2>9. ASSUME NEW k \in Jobs
        PROVE  (jobs[k] = store[k] \/ (store[k] = Running /\ jobs[k] \in Verdicts /\ TrueOf(jobs[k], k)))'
    BY <2>7, <2>8 DEF TrueOf, Verdicts
  <2>10. srv' = "refresh"
    OBVIOUS
  <2>11. QED BY <2>2, <2>3, <2>9, <2>10 DEF RefreshInv
<1>5. VerdictInv' BY DEF VerdictInv, TrueOf
<1>6. DueInv' BY DEF DueInv, Unheard
<1>7. PostInv' BY DEF PostInv, Marking
<1>8. NeverSilent' BY DEF NeverSilent
<1>9. QED BY <1>1, <1>4, <1>5, <1>6, <1>7, <1>8

\* The monitor moves on.
LEMMA MonitorMovesStep == ASSUME TypeOK, TypeOK', Parts, MonitorMoves PROVE Parts'
<1> USE DEF Parts, MonitorMoves
<1>1. RecordInv' BY DEF RecordInv
<1>2. RefreshInv' BY DEF RefreshInv
<1>3. VerdictInv' BY DEF VerdictInv, TrueOf
<1>4. crashes \in Nat /\ \A j \in Jobs : posts[j] \in Nat
  BY CountTypes
<1>5. DueInv' BY <1>4 DEF DueInv, Unheard
<1>6. PostInv'
  <2>1. ASSUME NEW j \in Jobs, srv' = "mark", cur' = j
        PROVE  posts[j] <= crashes /\ Unheard(j) /\ posts'[j] \in {posts[j], posts[j] + 1}
    BY <2>1 DEF Unheard, PostInv, Marking
  <2>2. ASSUME NEW j \in Jobs, ~(srv' = "mark" /\ cur' = j)
        PROVE  posts'[j] = posts[j] /\ ~Marking(j)
    BY <2>2, <1>4 DEF Marking
  <2>3. ASSUME NEW j \in Jobs
        PROVE  /\ posts'[j] > 0 => Finished(store[j]) \/ store[j].status = "pruned"
               /\ store[j].cause = "killed" => store[j].followed /\ posts'[j] = 0
               /\ posts'[j] <= crashes + 1
               /\ ~store[j].followed /\ ~(srv' = "mark" /\ cur' = j) => posts'[j] <= crashes
    BY <2>1, <2>2, <1>4 DEF PostInv, Unheard
  <2>4. QED BY <2>3 DEF PostInv, Marking, Finished
<1>7. NeverSilent' BY <1>4 DEF NeverSilent
<1>8. QED BY <1>1, <1>2, <1>3, <1>5, <1>6, <1>7

-----------------------------------------------------------------------------
(* Each action is of its kind, or keeps the invariant for reasons of its own. *)

\* The detached processes, the clock, and the users' turns and deletions.
LEMMA WorldActions ==
  ASSUME TypeOK, NEW j \in Jobs, NEW s \in Sessions,
         \/ ProcessStep(j) \/ TimePasses(j)
         \/ TurnStarts(s) \/ TurnEnds(s) \/ DeleteSession(s)
  PROVE  World
<1> USE DEF TypeOK, World, env, refreshing, monitor, chat, history
<1>1. CASE ProcessStep(j)
  BY <1>1 DEF ProcessStep, CommandEnds, EchoWrites, Dies, Reaped
<1>2. CASE TimePasses(j)
  BY <1>2 DEF TimePasses
<1>3. CASE TurnStarts(s) \/ TurnEnds(s) \/ DeleteSession(s)
  BY <1>3 DEF TurnStarts, TurnEnds, DeleteSession
<1>4. QED BY <1>1, <1>2, <1>3

\* refresh() reads an exit file: one that reads "0" is a command that succeeded.
LEMMA LookExamines ==
  ASSUME TypeOK, Parts, NEW j \in Jobs, Look(j) PROVE Examined(j)
<1> USE DEF TypeOK, Parts, monitor, chat, history, env
<1>1. jobs[j] = Running /\ srv = "refresh"
  BY DEF Look, RefreshInv
<1>2. CASE exit[j] = "none"
  BY <1>1, <1>2 DEF Look, Examined
<1>3. CASE exit[j] # "none"
  <2>1. jobs' = [jobs EXCEPT ![j] = Ended(IF exit[j] = "0" THEN "done" ELSE "failed", "exit")]
    BY <1>3 DEF Look
  <2>2. CASE exit[j] = "0"
    <3>1. jobs' = [jobs EXCEPT ![j] = Ended("done", "exit")]
      BY <2>1, <2>2
    <3>2. TrueOf(Ended("done", "exit"), j)
      BY <2>2, EndedFacts DEF TrueOf, VerdictInv
    <3>3. jobs'[j] = Ended("done", "exit") /\ \A k \in Jobs : k # j => jobs'[k] = jobs[k]
      BY <3>1
    <3>4. jobs'[j] \in Verdicts /\ TrueOf(jobs'[j], j)
      BY <3>2, <3>3 DEF Verdicts
    <3>5. QED BY <1>1, <1>3, <3>3, <3>4, NoneAssumption DEF Look, Examined
  <2>3. CASE exit[j] # "0"
    <3>1. jobs' = [jobs EXCEPT ![j] = Ended("failed", "exit")]
      BY <2>1, <2>3
    <3>2. TrueOf(Ended("failed", "exit"), j)
      BY EndedFacts DEF TrueOf
    <3>3. jobs'[j] = Ended("failed", "exit") /\ \A k \in Jobs : k # j => jobs'[k] = jobs[k]
      BY <3>1
    <3>4. jobs'[j] \in Verdicts /\ TrueOf(jobs'[j], j)
      BY <3>2, <3>3 DEF Verdicts
    <3>5. QED BY <1>1, <1>3, <3>3, <3>4, NoneAssumption DEF Look, Examined
  <2>4. QED BY <2>2, <2>3
<1>4. QED BY <1>2, <1>3

\* refresh() kills an overdue job, or finds that its process is gone and that it
\* still left no exit file.
LEMMA ProbeExamines ==
  ASSUME TypeOK, Parts, NEW j \in Jobs, Probe(j) PROVE Examined(j)
<1> USE DEF TypeOK, Parts, monitor, chat, history, env
<1>1. jobs[j] = Running /\ srv = "refresh" /\ j \notin scan
  BY DEF Probe, RefreshInv
<1>2. \A k \in Jobs : process[k] = "gone" => process'[k] = "gone"
  BY DEF Probe, KillTree
<1>3. TrueOf(Ended("failed", "timed_out"), j)
  BY EndedFacts DEF TrueOf
<1>4. CASE PastLimit(j)
  <2>1. jobs'[j] = Ended("failed", "timed_out") /\ \A k \in Jobs : k # j => jobs'[k] = jobs[k]
    BY <1>4 DEF Probe
  <2>2. jobs'[j] \in Verdicts /\ TrueOf(jobs'[j], j)
    BY <1>3, <2>1 DEF Verdicts
  <2>3. QED BY <1>1, <1>2, <2>1, <2>2, NoneAssumption DEF Probe, Examined
<1>5. CASE ~PastLimit(j) /\ Vanished(j)
  <2>1. TrueOf(Ended("failed", "died"), j)
    BY <1>5, EndedFacts DEF TrueOf, Vanished
  <2>2. jobs'[j] = Ended("failed", "died") /\ \A k \in Jobs : k # j => jobs'[k] = jobs[k]
    BY <1>5 DEF Probe
  <2>3. jobs'[j] \in Verdicts /\ TrueOf(jobs'[j], j)
    BY <2>1, <2>2 DEF Verdicts
  <2>4. QED BY <1>1, <1>2, <2>2, <2>3, NoneAssumption DEF Probe, Examined
<1>6. CASE ~PastLimit(j) /\ ~Vanished(j)
  BY <1>1, <1>2, <1>6 DEF Probe, Examined
<1>7. QED BY <1>4, <1>5, <1>6

\* The monitor takes up a job, gives it up, stores its continuation, goes to sleep.
LEMMA MonitorActions ==
  ASSUME TypeOK, Parts,
         DrainFails \/ DrainEnds \/ DrainDropped \/ Sleep \/ \E j \in Jobs : FollowUp(j)
  PROVE  MonitorMoves
<1> USE CountTypes DEF Parts, DueInv, MonitorMoves, refreshing, monitor, chat, history, env
<1>1. CASE DrainFails
  BY <1>1 DEF DrainFails
<1>2. CASE DrainEnds
  <2>1. cur \in Jobs /\ posts \in [Jobs -> 0 .. MaxPosts]
    BY <1>2 DEF DrainEnds, TypeOK
  <2>2. /\ \A j \in Jobs : posts'[j] = posts[j] \/ (cur = j /\ posts'[j] = posts[j] + 1)
        /\ posts'[cur] > 0
    BY <1>2, <2>1 DEF DrainEnds
  <2>3. QED BY <1>2, <2>1, <2>2 DEF DrainEnds, Unheard
<1>3. CASE Sleep
  BY <1>3 DEF Sleep
<1>4. ASSUME NEW j \in Jobs, FollowUp(j) PROVE MonitorMoves
  BY <1>4 DEF FollowUp, Unheard
<1>5. CASE DrainDropped
  <2>1. cur \in Jobs
    BY <1>5 DEF DrainDropped, TypeOK
  <2>2. QED BY <1>5, <2>1 DEF DrainDropped, Unheard
<1>6. QED BY <1>1, <1>2, <1>3, <1>4, <1>5

\* Popen: a job that has no record yet.
LEMMA KeepLaunch == ASSUME TypeOK, TypeOK', Parts, NEW j \in Jobs, Launch(j) PROVE Parts'
<1> USE StartFacts, CountTypes DEF Parts, Launch, monitor, chat, history
<1>1. store[j] = Absent /\ \A k \in Jobs \ {j} : process'[k] = process[k]
  <2>1. process' = [process EXCEPT ![j] = "running"] /\ DOMAIN process = Jobs
    BY DEF TypeOK
  <2>2. store[j] = Absent
    BY DEF RecordInv
  <2>3. QED BY <2>1, <2>2
<1>2. RecordInv' BY DEF RecordInv
<1>3. RefreshInv' BY <1>1 DEF RefreshInv
<1>4. VerdictInv' BY <1>1 DEF VerdictInv, TrueOf
<1>5. DueInv' BY DEF DueInv, Unheard
<1>6. PostInv' BY DEF PostInv, Marking
<1>7. NeverSilent' BY DEF NeverSilent
<1>8. QED BY <1>2, <1>3, <1>4, <1>5, <1>6, <1>7

\* The record of a job that is launched.
LEMMA LaunchedFacts ==
  ASSUME TypeOK, Parts, LaunchSaves
  PROVE  /\ call.job \in Jobs /\ store[call.job] = Absent /\ store'[call.job] = Running
         /\ \A k \in Jobs \ {call.job} : store'[k] = store[k]
<1>1. call.job \in Jobs /\ store[call.job] = Absent
  BY DEF LaunchSaves, Parts, RefreshInv
<1>2. store' = [store EXCEPT ![call.job] = Running] /\ store \in [Jobs -> JobRecords]
  BY DEF LaunchSaves, TypeOK
<1>3. QED BY <1>1, <1>2

\* A new record says nothing of the command.
LEMMA NewVerdict ==
  ASSUME VerdictInv, UNCHANGED <<process, exit, code>>, NEW j \in Jobs, store'[j] = Running,
         \A k \in Jobs \ {j} : store'[k] = store[k]
  PROVE  VerdictInv'
<1>1. ASSUME NEW k \in Jobs, k # j PROVE TrueOf(store[k], k)'
  BY <1>1 DEF VerdictInv, TrueOf
<1>2. TrueOf(store[j], j)'
  BY DEF TrueOf, Running, Absent
<1>3. QED BY <1>1, <1>2 DEF VerdictInv

\* launch() stores the record.
LEMMA KeepLaunchSaves == ASSUME TypeOK, TypeOK', Parts, LaunchSaves PROVE Parts'
<1> USE StartFacts, CountTypes DEF Parts, LaunchSaves, monitor, env, chat, history
<1>1. PICK j \in Jobs : store'[j] = Running /\ (\A k \in Jobs \ {j} : store'[k] = store[k])
                       /\ store[j] = Absent
  BY LaunchedFacts
<1>2. \A k \in Jobs : Unheard(k) => k # j /\ Unheard(k)'
  BY <1>1 DEF Unheard, Finished
<1>3. RecordInv' BY <1>1 DEF RecordInv
<1>4. RefreshInv' BY DEF RefreshInv
<1>5. VerdictInv'
  <2>1. VerdictInv /\ UNCHANGED <<process, exit, code>>
    OBVIOUS
  <2>2. QED BY <1>1, <2>1, NewVerdict
<1>6. DueInv' BY <1>2 DEF DueInv, TypeOK
<1>7. PostInv' BY <1>1 DEF PostInv, Marking, Finished
<1>8. NeverSilent' BY <1>1 DEF NeverSilent
<1>9. QED BY <1>3, <1>4, <1>5, <1>6, <1>7, <1>8

\* refresh() starts.
LEMMA KeepRefresh ==
  ASSUME TypeOK, Parts, NEW by, NEW j, Refresh(by, j) PROVE Parts'
<1> USE NoneAssumption DEF Parts, Refresh, env, monitor, chat, history
<1>1. RecordInv' BY DEF RecordInv
<1>2. RefreshInv' 
  <2>1. \A k \in scan' : jobs'[k] = Running
    BY DEF RecordInv
  <2>2. QED BY <2>1 DEF RefreshInv
<1>3. VerdictInv' BY DEF VerdictInv, TrueOf
<1>4. DueInv' BY DEF DueInv, Unheard
<1>5. PostInv' BY DEF PostInv, Marking, DueInv
<1>6. NeverSilent' BY DEF NeverSilent
<1>7. QED BY <1>1, <1>2, <1>3, <1>4, <1>5, <1>6

\* mark_followed_up()
LEMMA KeepMark == ASSUME TypeOK, TypeOK', Parts, Mark PROVE Parts'
<1> USE CountTypes DEF Parts, Mark, refreshing, env, chat, history
<1>1. cur \in Jobs /\ mon = "drain" /\ Unheard(cur) /\ cur \notin todo
      /\ (posts[cur] > 0 \/ sess[cur] \notin alive)
  BY DEF DueInv, TypeOK
<1>2. /\ store'[cur].followed /\ store'[cur].status = store[cur].status
      /\ store'[cur].cause = store[cur].cause
      /\ \A k \in Jobs \ {cur} : store'[k] = store[k]
  <2>1. store'[cur] = [store[cur] EXCEPT !.followed = TRUE] /\ store[cur] \in JobRecords
    BY <1>1 DEF TypeOK
  <2>2. \A k \in Jobs \ {cur} : store'[k] = store[k]
    BY DEF TypeOK
  <2>3. QED BY <2>1, <2>2, FollowedFacts
<1>3. RecordInv'
  <2>1. store[cur].status \notin {"absent", "running", "pruned"} /\ store[cur].cause # ""
    BY <1>1 DEF RecordInv, Unheard, Finished
  <2>2. ASSUME NEW k \in Jobs, k # cur PROVE store'[k] = store[k]
    BY <2>2, <1>2
  <2>3. QED BY <1>2, <2>1, <2>2 DEF RecordInv
<1>4. RefreshInv' BY DEF RefreshInv
<1>5. VerdictInv' BY <1>1, <1>2 DEF VerdictInv, TrueOf
<1>6. DueInv' BY ZenonT(30), <1>1, <1>2 DEF DueInv, Unheard, TypeOK, Finished
<1>7. PostInv' BY <1>1, <1>2 DEF PostInv, Marking, Finished, Unheard
<1>8. NeverSilent' BY <1>1, <1>2 DEF NeverSilent
<1>9. QED BY <1>3, <1>4, <1>5, <1>6, <1>7, <1>8

\* What kill() records.
Killed == [Ended("failed", "killed") EXCEPT !.followed = TRUE]

LEMMA KilledFacts ==
  Killed \in JobRecords /\ Killed.status = "failed" /\ Killed.cause = "killed" /\ Killed.followed
BY EndedFacts, FollowedFacts DEF Killed

\* refresh() saves, and its caller acts on the result: a record changes only by
\* the kill the call asks for, by a right verdict on a running job, or by the
\* pruning of a job that was followed up.
LEMMA SavedFacts ==
  ASSUME TypeOK, Parts, Refreshed
  PROVE  /\ srv' = "loop" /\ scan' = {} /\ probe' = None /\ srv = "refresh"
         /\ UNCHANGED <<code, exit, cur, crashes, posts, sess, alive>>
         /\ \A k \in Jobs :
              /\ process[k] = "gone" => process'[k] = "gone"
              /\ store[k].followed => store'[k].followed /\ store'[k].cause = store[k].cause
              /\ store[k].status \notin {"absent", "running"} => store'[k].cause = store[k].cause
              /\ ~store[k].followed /\ Finished(store[k]) => store'[k] = store[k]
              /\ store[k].followed /\ Finished(store[k]) => store'[k].status \in {store[k].status, "pruned"}
              /\ store[k].status = "pruned" => store'[k].status = "pruned"
              /\ store'[k].followed => store[k].followed \/ store'[k] = Killed
              /\ \/ store'[k] = store[k]
                 \/ store[k] = Running /\ store'[k] = Killed /\ k = call.job
                 \/ store[k] = Running /\ store'[k] \in Verdicts /\ TrueOf(store'[k], k)
                 \/ /\ store[k].followed /\ store'[k].followed
                    /\ store'[k].status = "pruned" /\ store'[k].cause = store[k].cause
<1> USE DEF Parts
<1> DEFINE ofJob(k) == \/ store'[k] = Pruned[k]
                       \/ store[k] = Running /\ store'[k] = Killed /\ k = call.job
<1>1. Killed \in JobRecords /\ Killed.status = "failed" /\ Killed.cause = "killed" /\ Killed.followed
  BY KilledFacts
<1>2. \A k \in Jobs :
        \/ jobs[k] = store[k]
        \/ store[k] = Running /\ jobs[k] \in Verdicts /\ TrueOf(jobs[k], k)
  BY DEF RefreshInv, Refreshed
<1>3. /\ Pruned \in [Jobs -> JobRecords]
      /\ \A k \in Jobs :
           /\ Pruned[k].cause = jobs[k].cause /\ Pruned[k].followed = jobs[k].followed
           /\ Pruned[k] = jobs[k] \/ (Pruned[k].status = "pruned" /\ jobs[k].followed)
  BY PrunedFacts DEF TypeOK
<1>4. ASSUME NEW k \in Jobs PROVE ofJob(k)
  <2>1. CASE ~(call.job \in Jobs /\ Kills(Pruned[call.job])) \/ k # call.job
    BY <2>1, <1>3 DEF Refreshed
  <2>2. CASE call.job \in Jobs /\ Kills(Pruned[call.job]) /\ k = call.job
    <3>1. Pruned[k].status = "running"
      BY <2>2 DEF Kills
    <3>2. jobs[k].status = "running"
      BY <3>1, <1>3
    <3>3. store[k].status = "running"
      BY <3>2, <1>2, VerdictFacts DEF Finished
    <3>4. store'[k] = Killed
      BY <2>2, <1>3 DEF Refreshed, Killed
    <3>5. QED BY <2>2, <3>3, <3>4 DEF RecordInv
  <2>3. QED BY <2>1, <2>2
<1>5. /\ srv' = "loop" /\ scan' = {} /\ probe' = None /\ srv = "refresh"
      /\ UNCHANGED <<code, exit, cur, crashes, posts, sess, alive>>
      /\ \A k \in Jobs : process[k] = "gone" => process'[k] = "gone"
  <2>1. KillTree(call.job) \/ process' = process
    BY DEF Refreshed
  <2>2. \A k \in Jobs : process[k] = "gone" => process'[k] = "gone"
    BY ZenonT(30), <2>1 DEF KillTree, TypeOK
  <2>3. QED BY <2>2 DEF Refreshed, chat, history
<1>6. ASSUME NEW k \in Jobs
      PROVE  /\ store[k].followed => store'[k].followed /\ store'[k].cause = store[k].cause
             /\ store[k].status \notin {"absent", "running"} => store'[k].cause = store[k].cause
             /\ ~store[k].followed /\ Finished(store[k]) => store'[k] = store[k]
             /\ store[k].followed /\ Finished(store[k]) => store'[k].status \in {store[k].status, "pruned"}
             /\ store[k].status = "pruned" => store'[k].status = "pruned"
             /\ store'[k].followed => store[k].followed \/ store'[k] = Killed
  <2>1. CASE store[k] = Running
    BY ZenonT(30), <2>1, <1>1, <1>2, <1>3, <1>4, StartFacts, VerdictFacts DEF Finished
  <2>2. CASE store[k] # Running
    <3>1. jobs[k] = store[k] /\ store'[k] = Pruned[k]
      BY <2>2, <1>2, <1>4
    <3>2. QED BY <2>2, <3>1, <1>3 DEF Finished
  <2>3. QED BY <2>1, <2>2
<1>7. ASSUME NEW k \in Jobs, store'[k] # store[k]
      PROVE  \/ store[k] = Running /\ store'[k] = Killed /\ k = call.job
             \/ store[k] = Running /\ store'[k] \in Verdicts /\ TrueOf(store'[k], k)
             \/ /\ store[k].followed /\ store'[k].followed
                /\ store'[k].status = "pruned" /\ store'[k].cause = store[k].cause
  <2>1. CASE store[k] = Running /\ ~(store'[k] = Killed /\ k = call.job)
    <3>1. store'[k] = Pruned[k] /\ ~jobs[k].followed
      BY <2>1, <1>2, <1>4, StartFacts, VerdictFacts
    <3>2. store'[k] = jobs[k]
      BY <3>1, <1>3
    <3>3. QED BY <2>1, <3>2, <1>2, <1>7
  <2>2. CASE store[k] # Running
    <3>1. jobs[k] = store[k] /\ store'[k] = Pruned[k]
      BY <2>2, <1>2, <1>4
    <3>2. QED BY <3>1, <1>3, <1>7
  <2>3. QED BY <2>1, <2>2
<1>8. QED BY <1>5, <1>6, <1>7

\* refresh() saves: the invariant holds of what it stores.
LEMMA KeepRefreshed == ASSUME TypeOK, TypeOK', Parts, Refreshed PROVE Parts'
<1> USE DEF Parts
<1>1. Killed \in JobRecords /\ Killed.status = "failed" /\ Killed.cause = "killed" /\ Killed.followed
  BY KilledFacts
<1>2. \A k \in Jobs :
        \/ jobs[k] = store[k]
        \/ store[k] = Running /\ jobs[k] \in Verdicts /\ TrueOf(jobs[k], k)
  BY DEF RefreshInv, Refreshed
<1>3. \A k \in Jobs : Pruned[k].cause = jobs[k].cause /\ Pruned[k].followed = jobs[k].followed
  BY PrunedFacts DEF TypeOK
<1>5. /\ srv' = "loop" /\ scan' = {} /\ probe' = None /\ srv = "refresh"
      /\ UNCHANGED <<code, exit, cur, crashes, posts, sess, alive>>
      /\ \A k \in Jobs : process[k] = "gone" => process'[k] = "gone"
  BY SavedFacts
<1>6. ASSUME NEW k \in Jobs
      PROVE  /\ store[k].followed => store'[k].followed /\ store'[k].cause = store[k].cause
             /\ ~store[k].followed /\ Finished(store[k]) => store'[k] = store[k]
             /\ store'[k].followed => store[k].followed \/ store'[k] = Killed
  BY SavedFacts
<1>7. ASSUME NEW k \in Jobs, store'[k] # store[k]
      PROVE  \/ store[k] = Running /\ store'[k] = Killed
             \/ store[k] = Running /\ store'[k] \in Verdicts /\ TrueOf(store'[k], k)
             \/ /\ store[k].followed /\ store'[k].followed
                /\ store'[k].status = "pruned" /\ store'[k].cause = store[k].cause
  BY <1>7, SavedFacts
<1>8. RecordInv'
  <2>1. ASSUME NEW k \in Jobs
        PROVE  /\ store'[k].status = "absent" => store'[k] = Absent
               /\ store'[k].status = "running" => store'[k] = Running
               /\ store'[k].status = "pruned" => store'[k].followed
               /\ store'[k].cause = "" => store'[k].status \in {"absent", "running"}
    <3>1. CASE store'[k] = store[k]
      BY <3>1 DEF RecordInv
    <3>2. CASE store'[k] = Killed
      BY <3>2, <1>1
    <3>3. CASE store'[k] \in Verdicts
      BY <3>3, VerdictFacts DEF Finished
    <3>4. CASE /\ store[k].followed /\ store'[k].followed
               /\ store'[k].status = "pruned" /\ store'[k].cause = store[k].cause
      BY <3>4, StartFacts DEF RecordInv
    <3>5. QED BY <1>7, <3>1, <3>2, <3>3, <3>4
  <2>2. QED BY <2>1 DEF RecordInv
<1>9. RefreshInv' BY <1>5, NoneAssumption DEF RefreshInv
<1>10. VerdictInv' BY <1>1, <1>5, <1>7 DEF VerdictInv, TrueOf
<1>11. \A k \in Jobs : Unheard(k) => Unheard(k)'
  BY <1>6 DEF Unheard
<1>12. DueInv'
  <2>1. CASE call.by = "monitor"
    <3>1. mon' = "next" /\ todo' = {k \in Jobs : Finished(Pruned[k]) /\ ~Pruned[k].followed}
      BY <2>1 DEF Refreshed
    <3>2. ASSUME NEW k \in todo' PROVE Unheard(k)'
      <4>1. k \in Jobs /\ Finished(Pruned[k]) /\ ~Pruned[k].followed /\ store' = Pruned
        BY <3>1, <2>1 DEF Refreshed, Kills
      <4>2. store'[k].cause # "killed"
        BY <4>1, <1>2, <1>3, VerdictFacts DEF PostInv
      <4>3. QED BY <4>1, <4>2 DEF Unheard
    <3>3. QED BY <3>1, <3>2, <1>5 DEF DueInv
  <2>2. CASE call.by # "monitor"
    <3>1. todo' = todo /\ mon' = mon /\ todo \subseteq Jobs /\ (mon = "drain" => cur \in Jobs)
      BY <2>2 DEF Refreshed, TypeOK
    <3>2. ASSUME NEW k \in todo' PROVE Unheard(k)'
      BY <3>1, <3>2, <1>11 DEF DueInv
    <3>3. ASSUME mon = "drain" PROVE Unheard(cur)' /\ cur' \notin todo'
      <4>1. PICK c \in Jobs : c = cur
        BY <3>1, <3>3
      <4>2. Unheard(c)' /\ c \notin todo
        BY <4>1, <3>3, <1>11 DEF DueInv
      <4>3. QED BY <4>1, <4>2, <3>1, <1>5 DEF Unheard
    <3>4. QED BY <3>1, <3>2, <3>3, <1>5 DEF DueInv
  <2>3. QED BY <2>1, <2>2
<1>13. PostInv'
  <2>1. ASSUME NEW k \in Jobs
        PROVE  /\ posts[k] > 0 => Finished(store'[k]) \/ store'[k].status = "pruned"
               /\ store'[k].cause = "killed" => store'[k].followed /\ posts[k] = 0
               /\ posts[k] <= crashes + 1
               /\ ~store'[k].followed => posts[k] <= crashes
    <3> USE CountTypes
    <3>1. ~Marking(k)
      BY <1>5 DEF Marking
    <3>2. CASE store'[k] = store[k]
      BY <3>1, <3>2 DEF PostInv
    <3>3. CASE store[k] = Running
      <4>1. posts[k] = 0
        <5>1. ~Finished(store[k]) /\ store[k].status # "pruned"
          BY <3>3, StartFacts DEF Finished
        <5>2. QED BY <5>1 DEF PostInv
      <4>2. store'[k].cause = "killed" => store'[k].followed
        BY <3>2, <1>1, <1>7, VerdictFacts DEF PostInv
      <4>3. QED BY <4>1, <4>2
    <3>4. CASE store'[k] # store[k] /\ store[k] # Running
      BY <3>4, <1>7 DEF PostInv
    <3>5. QED BY <3>2, <3>3, <3>4
  <2>2. QED BY <2>1, <1>5 DEF PostInv, Marking, Finished
<1>14. NeverSilent' 
  BY <1>1, <1>5, <1>6 DEF NeverSilent
<1>15. QED BY <1>8, <1>9, <1>10, <1>12, <1>13, <1>14

\* The server dies: what it held in memory is gone.
LEMMA KeepServerDies == ASSUME TypeOK, Parts, ServerDies PROVE Parts'
<1> USE NoneAssumption, CountTypes DEF Parts, ServerDies, env, history
<1>1. RecordInv' BY DEF RecordInv
<1>2. RefreshInv' BY DEF RefreshInv
<1>3. VerdictInv' BY DEF VerdictInv, TrueOf
<1>4. DueInv' BY DEF DueInv
<1>5. PostInv' BY DEF PostInv, Marking
<1>6. NeverSilent' BY DEF NeverSilent
<1>7. QED BY <1>1, <1>2, <1>3, <1>4, <1>5, <1>6

-----------------------------------------------------------------------------
(* The theorems. *)

\* The invariant holds at the start.
LEMMA InitInv == Init => IInv
<1> SUFFICES ASSUME Init PROVE IInv
  OBVIOUS
<1>1. TypeOK BY InitTypes
<1>2. \A j \in Jobs : store[j] = Absent /\ exit[j] = "none" /\ posts[j] = 0
  BY DEF Init, NoJobs
<1>3. crashes = 0
  BY DEF Init
<1>4. RecordInv /\ VerdictInv /\ NeverSilent
  BY <1>2, StartFacts DEF RecordInv, VerdictInv, TrueOf, NeverSilent
<1>5. PostInv
  <2>1. \A j \in Jobs : store[j].cause # "killed" /\ posts[j] = 0
    BY <1>2, StartFacts
  <2>2. QED BY <2>1, <1>3 DEF PostInv
<1>6. RefreshInv /\ DueInv
  BY NoneAssumption DEF Init, RefreshInv, DueInv
<1>7. QED BY <1>1, <1>4, <1>5, <1>6 DEF IInv

\* Every step keeps it.
LEMMA InvStep == IInv /\ [Next]_vars => IInv'
<1> SUFFICES ASSUME IInv, [Next]_vars PROVE IInv'
  OBVIOUS
<1>1. TypeOK /\ TypeOK' /\ Parts
  BY TypeStep DEF IInv, Parts
<1>2. ASSUME NEW j \in Jobs, ProcessStep(j) \/ TimePasses(j) PROVE Parts'
  <2>1. PICK s \in Sessions : s = sess[j]
    BY <1>1 DEF TypeOK
  <2>2. QED BY <1>1, <1>2, WorldActions, WorldStep
<1>3. ASSUME NEW s \in Sessions, TurnStarts(s) \/ TurnEnds(s) \/ DeleteSession(s) PROVE Parts'
  <2>1. CASE Jobs # {}
    BY <2>1, <1>1, <1>3, WorldActions, WorldStep
  <2>2. CASE Jobs = {}
    BY <2>2, <1>1, <1>3, WorldStep
    DEF World, TurnStarts, TurnEnds, DeleteSession, env, refreshing, monitor, history
  <2>3. QED BY <2>1, <2>2
<1>4. ASSUME NEW j \in Jobs, Look(j) \/ Probe(j) PROVE Parts'
  BY <1>1, <1>4, LookExamines, ProbeExamines, ExaminedStep
<1>5. ASSUME Refreshed PROVE Parts'
  BY <1>1, <1>5, KeepRefreshed
<1>6. ASSUME DrainFails \/ DrainEnds \/ DrainDropped \/ Sleep \/ \E j \in Jobs : FollowUp(j) PROVE Parts'
  BY <1>1, <1>6, MonitorActions, MonitorMovesStep
<1>7. ASSUME Tick \/ ToolLists \/ \E j \in Jobs : ToolKills(j) PROVE Parts'
  BY <1>1, <1>7, KeepRefresh DEF Tick, ToolLists, ToolKills
<1>8. ASSUME Mark PROVE Parts'
  BY <1>1, <1>8, KeepMark
<1>9. ASSUME (\E j \in Jobs : Launch(j)) \/ LaunchSaves PROVE Parts'
  BY <1>1, <1>9, KeepLaunch, KeepLaunchSaves
<1>10. ASSUME ServerDies PROVE Parts'
  BY <1>1, <1>10, KeepServerDies
<1>11. ASSUME UNCHANGED vars PROVE Parts'
  BY <1>1, <1>11, WorldStep DEF World, vars, env, refreshing, monitor, chat, history
<1>12. Parts'
  BY <1>2, <1>3, <1>4, <1>5, <1>6, <1>7, <1>8, <1>9, <1>10, <1>11
  DEF Next, RefreshStep, MonitorStep
<1>13. QED BY <1>1, <1>12 DEF IInv, Parts

\* The invariant holds always.
THEOREM Invariance == Spec => []IInv
BY InitInv, InvStep, PTL DEF Spec

\* Completion never silently does nothing: a job is marked followed up only once
\* its continuation is stored, when the agent had it killed, or when its session
\* was deleted.
THEOREM NeverSilentHolds == Spec => []NeverSilent
<1>1. IInv => NeverSilent BY DEF IInv
<1>2. QED BY <1>1, Invariance, PTL

\* A job the agent stopped is never auto-continued, although the monitor works
\* through a list made before the kill.
THEOREM KilledStaysQuietHolds == Spec => []KilledStaysQuiet
<1>1. IInv => KilledStaysQuiet BY DEF IInv, PostInv, KilledStaysQuiet
<1>2. QED BY <1>1, Invariance, PTL

\* "done" is recorded for a command that succeeded, and "died" for one that left
\* no exit file.
THEOREM VerdictsAreTrueHolds == Spec => []VerdictsAreTrue
<1>1. IInv => VerdictsAreTrue BY DEF IInv, VerdictInv, TrueOf, VerdictsAreTrue
<1>2. QED BY <1>1, Invariance, PTL

\* The agent is re-invoked once for a job, and once more at most for every death
\* of the server.
THEOREM OncePerLifeHolds == Spec => []OncePerLife
<1>1. IInv => OncePerLife BY CountTypes DEF IInv, PostInv, OncePerLife
<1>2. QED BY <1>1, Invariance, PTL

-----------------------------------------------------------------------------
(* Refinement of JobNews. *)

\* How a job ended, as the agent sees it.
LEMMA OutcomeFacts ==
  ASSUME TypeOK, Parts, NEW j \in Jobs
  PROVE  /\ store[j].status = "absent" => Outcome(store[j]) = "absent"
         /\ store[j] = Running <=> Outcome(store[j]) = "running"
         /\ Unheard(j) => Outcome(store[j]) \in Agent!Ends
<1> USE StartFacts DEF Parts, Outcome
<1>1. store[j] \in JobRecords
  BY DEF TypeOK
<1>2. store[j].status = "absent" => Outcome(store[j]) = "absent"
  BY DEF RecordInv
<1>3. store[j] = Running <=> Outcome(store[j]) = "running"
  <2>1. store[j].cause # "running"
    BY <1>1 DEF JobRecords
  <2>2. QED BY <2>1 DEF RecordInv
<1>4. Unheard(j) => Outcome(store[j]) \in Agent!Ends
  <2>1. Unheard(j) => store[j].cause \in {"exit", "timed_out", "died"}
    BY <1>1 DEF JobRecords, Unheard, Finished, RecordInv
  <2>2. QED BY <2>1 DEF Agent!Ends
<1>5. QED BY <1>2, <1>3, <1>4

\* A step that leaves the records, the continuations and the marking alone is
\* not seen by the agent.
LEMMA Unseen ==
  ASSUME UNCHANGED <<store, posts, Telling, sess, alive>> PROVE UNCHANGED Agent!newsVars
BY DEF Agent!newsVars, Outcomes, Settled, Unheeded

\* The record of launch() is stored.
LEMMA LaunchStarts ==
  ASSUME TypeOK, Parts, LaunchSaves PROVE \E j \in Jobs : Agent!Start(j)
<1> USE DEF LaunchSaves, history, monitor, chat
<1>1. PICK j \in Jobs : store'[j] = Running /\ (\A k \in Jobs \ {j} : store'[k] = store[k])
                       /\ store[j] = Absent
  BY LaunchedFacts
<1>2. Outcomes' = [Outcomes EXCEPT ![j] = "running"]
  <2>1. Outcome(store'[j]) = "running"
    BY <1>1, StartFacts DEF Outcome
  <2>2. \A k \in Jobs : k # j => Outcome(store'[k]) = Outcome(store[k])
    BY <1>1
  <2>3. QED BY <2>1, <2>2 DEF Outcomes
<1>3. Settled' = Settled
  BY <1>1, StartFacts DEF Settled
<1>4. Outcomes[j] = "absent"
  BY <1>1, StartFacts DEF Outcomes, Outcome
<1>5. QED BY <1>2, <1>3, <1>4 DEF Agent!Start, Telling, Unheeded

\* refresh() saves: verdicts on running jobs, and one kill at most.
LEMMA RefreshedLearns ==
  ASSUME TypeOK, Parts, Refreshed PROVE \E K : (K = {} \/ \E j \in Jobs : K = {j}) /\ Agent!Learn(K)
<1> DEFINE D == {j \in Jobs : store[j] = Running /\ store'[j] # Running}
           how == [j \in D |-> store'[j].cause]
           K == {j \in D : store'[j] = Killed}
<1>1. /\ srv = "refresh" /\ srv' = "loop" /\ UNCHANGED <<posts, sess, alive>>
      /\ \A k \in Jobs :
           \/ store'[k] = store[k]
           \/ store[k] = Running /\ store'[k] = Killed /\ k = call.job
           \/ store[k] = Running /\ store'[k] \in Verdicts
           \/ /\ store[k].followed /\ store'[k].followed
              /\ store'[k].status = "pruned" /\ store'[k].cause = store[k].cause
  BY SavedFacts
<1>2. K = {} \/ \E j \in Jobs : K = {j}
  <2>1. \A j \in K : j = call.job
    BY <1>1, KilledFacts, VerdictFacts
  <2>2. QED BY <2>1
<1>3. \A j \in D : how[j] \in Agent!Ends \cup {"killed"} /\ (how[j] = "killed" <=> j \in K)
  <2> SUFFICES ASSUME NEW j \in D
               PROVE  /\ store'[j].cause \in Agent!Ends \cup {"killed"}
                      /\ store'[j].cause = "killed" <=> store'[j] = Killed
    OBVIOUS
  <2>1. store'[j] = Killed \/ store'[j] \in Verdicts
    BY <1>1, StartFacts
  <2>2. CASE store'[j] = Killed
    BY <2>2, KilledFacts
  <2>3. CASE store'[j] \in Verdicts
    <3>1. store'[j].cause \in {"exit", "timed_out", "died"}
      BY <2>3, EndedFacts DEF Verdicts
    <3>2. QED BY <3>1, KilledFacts DEF Agent!Ends
  <2>4. QED BY <2>1, <2>2, <2>3
<1>4. Outcomes' = [j \in Jobs |-> IF j \in D THEN how[j] ELSE Outcomes[j]]
  <2>1. ASSUME NEW j \in D PROVE Outcome(store'[j]) = how[j]
    BY <1>3 DEF Outcome, Agent!Ends
  <2>2. ASSUME NEW j \in Jobs, j \notin D PROVE Outcome(store'[j]) = Outcome(store[j])
    <3>1. CASE store'[j] = store[j]
      BY <3>1
    <3>2. CASE store[j] = Running
      BY <2>2, <3>2
    <3>3. CASE store[j].followed /\ store'[j].followed /\ store'[j].cause = store[j].cause
      <4>1. store[j].cause # ""
        BY <3>3, StartFacts DEF Parts, RecordInv
      <4>2. QED BY <3>3, <4>1 DEF Outcome
    <3>4. QED BY <1>1, <3>1, <3>2, <3>3
  <2>3. QED BY <2>1, <2>2 DEF Outcomes
<1>5. Settled' = Settled \cup K
  <2>1. ASSUME NEW j \in Jobs PROVE store'[j].followed <=> store[j].followed \/ j \in K
    BY <1>1, StartFacts, KilledFacts, VerdictFacts
  <2>2. QED BY <2>1 DEF Settled
<1>6. D \subseteq {j \in Jobs : Outcomes[j] = "running"}
  BY StartFacts DEF Outcomes, Outcome
<1>7. Telling = {} /\ Telling' = Telling
  BY <1>1 DEF Telling
<1>8. how \in [D -> Agent!Ends \cup {"killed"}] /\ {j \in D : how[j] = "killed"} = K
  BY <1>3
<1> HIDE DEF D, how, K
<1>9. Agent!Learn(K)
  BY <1>1, <1>4, <1>5, <1>6, <1>7, <1>8 DEF Agent!Learn, Unheeded
<1>10. QED BY <1>2, <1>9

\* The continuation is added to the session.
LEMMA DrainTells == ASSUME TypeOK, Parts, DrainEnds PROVE cur \in Jobs /\ Agent!Tell(cur)
<1> USE DEF DrainEnds, monitor
<1>1. cur \in Jobs /\ Unheard(cur)
  BY DEF TypeOK, Parts, DueInv
<1>2. Outcomes[cur] \in Agent!Ends /\ cur \notin Settled
  BY <1>1, OutcomeFacts DEF Outcomes, Settled, Unheard
<1>3. Telling = {} /\ Telling' = {cur} /\ UNCHANGED <<Outcomes, Settled>>
  BY DEF Telling, Outcomes, Settled
<1>4. QED BY <1>1, <1>2, <1>3 DEF Agent!Tell, Unheeded, chat

\* The message is dropped.
LEMMA DrainMisses == ASSUME TypeOK, Parts, DrainDropped PROVE cur \in Jobs /\ Agent!Miss(cur)
<1> USE DEF DrainDropped, monitor, chat, history
<1>1. cur \in Jobs /\ Unheard(cur) /\ cur \in Unheeded
  BY DEF TypeOK, Parts, DueInv, Unheeded
<1>2. Outcomes[cur] \in Agent!Ends /\ cur \notin Settled
  BY <1>1, OutcomeFacts DEF Outcomes, Settled, Unheard
<1>3. Telling = {} /\ Telling' = {cur} /\ UNCHANGED <<Outcomes, Settled, Unheeded>>
  BY DEF Telling, Outcomes, Settled, Unheeded
<1>4. QED BY <1>1, <1>2, <1>3 DEF Agent!Miss

\* mark_followed_up()
LEMMA MarkSettles == ASSUME TypeOK, Parts, Mark PROVE cur \in Jobs /\ Agent!Settle(cur)
<1> USE DEF Mark, history
<1>1. cur \in Jobs
  BY DEF TypeOK, Parts, DueInv
<1>2. /\ store'[cur].followed /\ Outcome(store'[cur]) = Outcome(store[cur])
      /\ \A k \in Jobs : k # cur => store'[k] = store[k]
  <2>1. store'[cur] = [store[cur] EXCEPT !.followed = TRUE] /\ store[cur] \in JobRecords
    BY <1>1 DEF TypeOK
  <2>2. \A k \in Jobs : k # cur => store'[k] = store[k]
    BY DEF TypeOK
  <2>3. /\ store'[cur].followed /\ store'[cur].cause = store[cur].cause
        /\ store'[cur].status = store[cur].status
    BY <2>1, FollowedFacts
  <2>4. QED BY <2>2, <2>3 DEF Outcome
<1>3. Outcomes' = Outcomes
  <2>1. \A k \in Jobs : Outcome(store'[k]) = Outcome(store[k])
    BY <1>2
  <2>2. QED BY <2>1 DEF Outcomes
<1>4. Settled' = Settled \cup {cur}
  BY <1>1, <1>2 DEF Settled
<1>5. Telling = {cur} /\ Telling' = {}
  BY DEF Telling
<1>6. QED BY <1>1, <1>3, <1>4, <1>5 DEF Agent!Settle, Unheeded, chat

\* Every step is seen as one of the agent's view, or not at all.
LEMMA StepRefines == IInv /\ [Next]_vars => [Agent!NewsNext]_Agent!newsVars
<1> SUFFICES ASSUME IInv, [Next]_vars PROVE [Agent!NewsNext]_Agent!newsVars
  OBVIOUS
<1> USE DEF env, refreshing, monitor, chat, history
<1>1. TypeOK /\ Parts
  BY DEF IInv, Parts
<1>2. ASSUME NEW j \in Jobs, ProcessStep(j) \/ TimePasses(j) PROVE UNCHANGED Agent!newsVars
  BY <1>2, Unseen DEF ProcessStep, CommandEnds, EchoWrites, Dies, Reaped, TimePasses, Telling
<1>3. ASSUME NEW s \in Sessions, TurnStarts(s) \/ TurnEnds(s) PROVE UNCHANGED Agent!newsVars
  BY <1>3, Unseen DEF TurnStarts, TurnEnds, Telling
<1>4. ASSUME NEW j \in Jobs, Look(j) \/ Probe(j) PROVE UNCHANGED Agent!newsVars
  BY <1>4, Unseen DEF Look, Probe, Telling
<1>5. ASSUME NEW by, NEW j, Refresh(by, j) PROVE UNCHANGED Agent!newsVars
  BY <1>5, Unseen DEF Refresh, Telling
<1>6. ASSUME DrainFails \/ Sleep PROVE UNCHANGED Agent!newsVars
  BY <1>6, Unseen DEF DrainFails, Sleep, Telling
<1>7. ASSUME NEW j \in Jobs, FollowUp(j) PROVE UNCHANGED Agent!newsVars
  BY <1>7, Unseen DEF FollowUp, Telling
<1>8. ASSUME LaunchSaves PROVE Agent!NewsNext
  BY <1>1, <1>8, LaunchStarts DEF Agent!NewsNext
<1>9. ASSUME Refreshed PROVE Agent!NewsNext
  BY <1>1, <1>9, RefreshedLearns DEF Agent!NewsNext
<1>10. ASSUME DrainEnds PROVE Agent!NewsNext
  BY <1>1, <1>10, DrainTells DEF Agent!NewsNext
<1>11. ASSUME Mark PROVE Agent!NewsNext
  BY <1>1, <1>11, MarkSettles DEF Agent!NewsNext
<1>12. ASSUME ServerDies PROVE Agent!NewsNext
  <2>1. Telling' = {} /\ UNCHANGED <<Outcomes, posts, Settled, Unheeded>>
    BY <1>12 DEF ServerDies, Telling, Outcomes, Settled, Unheeded
  <2>2. QED BY <2>1 DEF Agent!Forget, Agent!NewsNext
<1>13. ASSUME UNCHANGED vars PROVE UNCHANGED Agent!newsVars
  BY <1>13, Unseen DEF vars, Telling
<1>14. ASSUME NEW j \in Jobs, Launch(j) PROVE UNCHANGED Agent!newsVars
  BY <1>14, Unseen DEF Launch, Telling
<1>15. ASSUME DrainDropped PROVE Agent!NewsNext
  BY <1>1, <1>15, DrainMisses DEF Agent!NewsNext
<1>16. ASSUME NEW s \in Sessions, DeleteSession(s) PROVE Agent!NewsNext
  <2>1. Unheeded \subseteq Unheeded' /\ UNCHANGED <<Outcomes, posts, Telling, Settled>>
    BY <1>16 DEF DeleteSession, Unheeded, Outcomes, Telling, Settled
  <2>2. QED BY <2>1 DEF Agent!Leave, Agent!NewsNext
<1>17. QED
  BY <1>2, <1>3, <1>4, <1>5, <1>6, <1>7, <1>8, <1>9, <1>10, <1>11, <1>12, <1>13, <1>14, <1>15, <1>16
  DEF Next, RefreshStep, MonitorStep, Tick, ToolLists, ToolKills

\* No job has been launched at first, and nothing told.
LEMMA InitRefines == Init => Agent!NewsInit
<1> SUFFICES ASSUME Init PROVE Agent!NewsInit
  OBVIOUS
<1>1. Outcomes = [j \in Jobs |-> "absent"] /\ Settled = {}
  BY StartFacts DEF Init, NoJobs, Outcomes, Outcome, Settled
<1>2. Unheeded = {}
  BY DEF Init, Unheeded
<1>3. QED BY <1>1, <1>2 DEF Init, Telling, Agent!NewsInit

\* The jobs and their monitor implement the news, for any number of jobs,
\* sessions, continuations and deaths of the server: how a job ended is never
\* revised, by a kill, a later poll or pruning; the agent hears of each job that
\* ended without its doing, of one at a time, and again only of one that a dying
\* server had not marked; a job that is marked is never followed up again.
THEOREM Refinement == Spec => ImplementsJobNews
<1>1. QED BY InitRefines, StepRefines, Invariance, PTL DEF Spec, ImplementsJobNews, Agent!NewsSpec

=============================================================================
