------------------------------- MODULE BgJobs -------------------------------
(***************************************************************************)
(* Background shell jobs (src/src/bg_jobs.py), the tool that controls them *)
(* (src/src/agent_tools/bg_job_tools.py) and the monitor that re-invokes   *)
(* the agent when one finishes (src/src/bg_monitor.py).                    *)
(*                                                                         *)
(* The server is one asyncio loop: what it does between two awaits is not  *)
(* interrupted by other requests, but the detached processes and the clock *)
(* go on meanwhile, and the server may die at any point.  So refresh() is  *)
(* taken apart where it looks at a process or its exit file, and a follow- *)
(* up where it awaits the agent and between its two commits.               *)
(***************************************************************************)
EXTENDS Naturals, FiniteSets

CONSTANTS
  Jobs,        \* job ids
  Sessions,    \* chat session ids
  MaxCrashes,  \* bound: times the server dies
  MaxPosts,    \* bound: continuations posted for one job
  None         \* no job

ASSUME BoundsAssumption == MaxCrashes \in Nat /\ MaxPosts \in Nat \ {0}
ASSUME NoneAssumption == None \notin Jobs

VARIABLES
  store,     \* bg_jobs.json
  sess,      \* session_id of each job
  process,   \* the detached wrapper: "none", "running", "writing" (the exit
             \* file is open), "zombie" (dead, not reaped), "gone"
  code,      \* the command's exit status: 0, or 1 for any other
  exit,      \* the exit file: "none", "empty", "0" or "1"
  overdue,   \* jobs past max_runtime_s
  stale,     \* jobs that ended more than _RETENTION_S ago
  srv,       \* what the server is in the middle of: "loop" (nothing), "launch"
             \* (a process that has no record yet), "refresh", or "mark" (a
             \* follow-up is over, its job not yet marked)
  call,      \* who called refresh, and for which job; the job that is launched
  jobs,      \* refresh: the records in memory
  scan,      \* refresh: the running jobs it has still to examine
  probe,     \* refresh: the job it found without an exit file a moment ago
  mon,       \* the monitor's loop: "sleep", "next", "drain"
  todo,      \* the rest of the list pending_followups returned
  cur,       \* the job whose follow-up runs
  alive,     \* sessions that are not deleted
  active,    \* sessions for which agent_runs.is_active() is true
  crashes,
  posts      \* history: continuations added to the session for each job

env == <<process, code, exit, overdue, stale>>
refreshing == <<call, jobs, scan, probe>>
monitor == <<mon, todo, cur>>
chat == <<alive, active>>
history == <<posts>>
vars == <<store, sess, env, srv, refreshing, monitor, chat, crashes, history>>

\* cause: how the record says the job ended.
Absent == [status |-> "absent", cause |-> "", followed |-> FALSE]
Running == [Absent EXCEPT !.status = "running"]
Ended(status, cause) == [status |-> status, cause |-> cause, followed |-> FALSE]

Finished(r) == r.status \in {"done", "failed"}

NoCall == [by |-> "", job |-> None]
NoJobs == [j \in Jobs |-> Absent]

Init ==
  /\ store = NoJobs
  /\ sess \in [Jobs -> Sessions]
  /\ process = [j \in Jobs |-> "none"]
  /\ code \in [Jobs -> {0, 1}]
  /\ exit = [j \in Jobs |-> "none"]
  /\ overdue = {} /\ stale = {}
  /\ srv = "loop" /\ call = NoCall /\ jobs = NoJobs /\ scan = {} /\ probe = None
  /\ mon = "sleep" /\ todo = {} /\ cur = None
  /\ alive = Sessions /\ active = {}
  /\ crashes = 0
  /\ posts = [j \in Jobs |-> 0]

-----------------------------------------------------------------------------
(***************************************************************************)
(* The detached process: bash <command>; echo $? > <exit file>.            *)
(***************************************************************************)

\* The command ends; the shell opens the exit file, which truncates it.
CommandEnds(j) ==
  /\ process[j] = "running"
  /\ process' = [process EXCEPT ![j] = "writing"]
  /\ exit' = [exit EXCEPT ![j] = "empty"]
  /\ UNCHANGED <<store, sess, code, overdue, stale, srv, refreshing, monitor, chat, crashes, history>>

\* echo writes the status and the wrapper exits.
EchoWrites(j) ==
  /\ process[j] = "writing"
  /\ process' = [process EXCEPT ![j] = "zombie"]
  /\ exit' = [exit EXCEPT ![j] = IF code[j] = 0 THEN "0" ELSE "1"]
  /\ UNCHANGED <<store, sess, code, overdue, stale, srv, refreshing, monitor, chat, crashes, history>>

\* The process group dies without more (out of memory, a signal).
Dies(j) ==
  /\ process[j] \in {"running", "writing"}
  /\ process' = [process EXCEPT ![j] = "zombie"]
  /\ UNCHANGED <<store, sess, code, exit, overdue, stale, srv, refreshing, monitor, chat, crashes, history>>

\* The server's next Popen, or init after the server died, reaps it.
Reaped(j) ==
  /\ process[j] = "zombie"
  /\ process' = [process EXCEPT ![j] = "gone"]
  /\ UNCHANGED <<store, sess, code, exit, overdue, stale, srv, refreshing, monitor, chat, crashes, history>>

\* kill_process_tree()
KillTree(j) ==
  process' = [process EXCEPT ![j] = IF @ \in {"running", "writing"} THEN "zombie" ELSE @]

\* The clock passes max_runtime_s, or the retention time of a finished job.
TimePasses(j) ==
  /\ \/ /\ store[j].status = "running" /\ j \notin overdue
        /\ overdue' = overdue \cup {j}
        /\ UNCHANGED stale
     \/ /\ Finished(store[j]) /\ j \notin stale
        /\ stale' = stale \cup {j}
        /\ UNCHANGED overdue
  /\ UNCHANGED <<store, sess, process, code, exit, srv, refreshing, monitor, chat, crashes, history>>

-----------------------------------------------------------------------------
(***************************************************************************)
(* bg_jobs: launch(), refresh() and what its callers do with the result.   *)
(***************************************************************************)

\* An agent of session s is at work: in a live turn, or headless for the monitor.
InTurn(s) == s \in active \/ (mon = "drain" /\ sess[cur] = s)

\* The bash tool, in an agent turn of the job's session.
Launch(j) ==
  /\ srv = "loop"
  /\ store[j].status = "absent" /\ process[j] = "none"
  /\ InTurn(sess[j])
  /\ process' = [process EXCEPT ![j] = "running"]
  /\ srv' = "launch" /\ call' = [by |-> "", job |-> j]
  /\ UNCHANGED <<store, sess, code, exit, overdue, stale, jobs, scan, probe,
                 monitor, chat, crashes, history>>

\* launch() goes on after Popen: the record is stored.
LaunchSaves ==
  /\ srv = "launch"
  /\ store' = [store EXCEPT ![call.job] = Running]
  /\ srv' = "loop" /\ call' = NoCall
  /\ UNCHANGED <<sess, env, jobs, scan, probe, monitor, chat, crashes, history>>

\* refresh() loads the store; the monitor's tick or the manage_bg_jobs tool calls it.
Refresh(by, j) ==
  /\ srv = "loop"
  /\ srv' = "refresh"
  /\ call' = [by |-> by, job |-> j]
  /\ jobs' = store
  /\ scan' = {k \in Jobs : store[k].status = "running"}
  /\ UNCHANGED <<store, sess, env, probe, monitor, chat, crashes, history>>

\* exit_path.exists(), and if it does its text: an empty one reads as "1".
Look(j) ==
  /\ srv = "refresh" /\ probe = None
  /\ j \in scan
  /\ scan' = scan \ {j}
  /\ \/ /\ exit[j] # "none"
        /\ jobs' = [jobs EXCEPT ![j] = Ended(IF exit[j] = "0" THEN "done" ELSE "failed", "exit")]
        /\ UNCHANGED probe
     \/ /\ exit[j] = "none"
        /\ probe' = j
        /\ UNCHANGED jobs
  /\ UNCHANGED <<store, sess, env, srv, call, monitor, chat, crashes, history>>

\* Mutant: the exit file is not looked for again.
VanishedUnchecked(j) == process[j] = "gone"

Vanished(j) == process[j] = "gone" /\ exit[j] = "none"

\* Mutant: no limit on the run time.
PastLimitNever(j) == FALSE

PastLimit(j) == j \in overdue

\* There was no exit file: the job is killed if it is overdue, given up if the
\* process is gone and there still is no file, left alone otherwise.
Probe(j) ==
  /\ srv = "refresh" /\ probe = j
  /\ probe' = None
  /\ \/ /\ PastLimit(j)
        /\ KillTree(j)
        /\ jobs' = [jobs EXCEPT ![j] = Ended("failed", "timed_out")]
     \/ /\ ~PastLimit(j)
        /\ jobs' = IF Vanished(j) THEN [jobs EXCEPT ![j] = Ended("failed", "died")] ELSE jobs
        /\ UNCHANGED process
  /\ UNCHANGED <<store, sess, code, exit, overdue, stale, srv, call, scan, monitor, chat, crashes, history>>

\* _prune(): followed up, and past the retention time.
Pruned == [j \in Jobs |-> IF jobs[j].followed /\ j \in stale
                          THEN [jobs[j] EXCEPT !.status = "pruned"] ELSE jobs[j]]

\* Mutant: kill() does not ask whether the job is running.
KillsAny(r) == call.by = "kill"

\* kill(): a finished job is returned unchanged.
Kills(r) == call.by = "kill" /\ r.status = "running"

\* refresh() saves.  pending_followups() returns the finished jobs that were not
\* followed up, the list and output actions are done, and kill() ends a job
\* that is still running and keeps the monitor quiet about it.
Refreshed ==
  LET j == call.job
      kills == j \in Jobs /\ Kills(Pruned[j])
  IN  /\ srv = "refresh" /\ scan = {} /\ probe = None
      /\ store' = IF kills THEN [Pruned EXCEPT ![j] = [Ended("failed", "killed") EXCEPT !.followed = TRUE]]
                           ELSE Pruned
      /\ IF kills THEN KillTree(j) ELSE UNCHANGED process
      /\ IF call.by = "monitor"
         THEN /\ mon' = "next"
              /\ todo' = {k \in Jobs : Finished(Pruned[k]) /\ ~Pruned[k].followed}
         ELSE UNCHANGED <<mon, todo>>
      /\ srv' = "loop" /\ call' = NoCall /\ jobs' = NoJobs
      /\ UNCHANGED <<sess, code, exit, overdue, stale, scan, probe, cur, chat, crashes, history>>

-----------------------------------------------------------------------------
(***************************************************************************)
(* The monitor.                                                            *)
(***************************************************************************)

Tick == mon = "sleep" /\ Refresh("monitor", None)

\* The manage_bg_jobs tool, in an agent turn.
ToolLists == (\E s \in Sessions : InTurn(s)) /\ Refresh("list", None)
ToolKills(j) == InTurn(sess[j]) /\ store[j].status # "absent" /\ Refresh("kill", j)

\* Mutant: a follow-up that is put off counts as handled.
FollowUpHandled(j) ==
  /\ srv = "loop" /\ mon = "next"
  /\ j \in todo
  /\ todo' = todo \ {j}
  /\ IF sess[j] \in alive /\ sess[j] \notin active
     THEN mon' = "drain" /\ cur' = j /\ UNCHANGED store
     ELSE store' = [store EXCEPT ![j].followed = TRUE] /\ UNCHANGED <<mon, cur>>
  /\ UNCHANGED <<sess, env, srv, refreshing, chat, crashes, history>>

\* _run_followup() up to its await.  get_session() raises for a deleted session
\* and a session with a live turn is put off: both leave the job for later.
FollowUp(j) ==
  /\ srv = "loop" /\ mon = "next"
  /\ j \in todo
  /\ todo' = todo \ {j}
  /\ IF sess[j] \in alive /\ sess[j] \notin active
     THEN mon' = "drain" /\ cur' = j
     ELSE UNCHANGED <<mon, cur>>
  /\ UNCHANGED <<store, sess, env, srv, refreshing, chat, crashes, history>>

\* The agent run fails, or its session was deleted meanwhile: retried next tick.
DrainFails ==
  /\ srv = "loop" /\ mon = "drain"
  /\ mon' = "next" /\ cur' = None
  /\ UNCHANGED <<store, sess, env, srv, refreshing, todo, chat, crashes, history>>

\* The agent run ends and its continuation is added to the session.
DrainEnds ==
  /\ srv = "loop" /\ mon = "drain"
  /\ sess[cur] \in alive
  /\ posts[cur] < MaxPosts
  /\ posts' = [posts EXCEPT ![cur] = @ + 1]
  /\ srv' = "mark"
  /\ UNCHANGED <<store, sess, env, refreshing, monitor, chat, crashes>>

\* The session was deleted meanwhile, but get_session() still finds it, in the
\* cache or before the deletion commits: the message is dropped, without an error.
DrainDropped ==
  /\ srv = "loop" /\ mon = "drain"
  /\ sess[cur] \notin alive
  /\ srv' = "mark"
  /\ UNCHANGED <<store, sess, env, refreshing, monitor, chat, crashes, history>>

\* Mutant: the flag is set in memory only.
MarkUnsaved ==
  /\ srv = "mark"
  /\ srv' = "loop" /\ mon' = "next" /\ cur' = None
  /\ UNCHANGED <<store, sess, env, refreshing, todo, chat, crashes, history>>

\* mark_followed_up()
Mark ==
  /\ srv = "mark"
  /\ store' = [store EXCEPT ![cur].followed = TRUE]
  /\ srv' = "loop" /\ mon' = "next" /\ cur' = None
  /\ UNCHANGED <<sess, env, refreshing, todo, chat, crashes, history>>

\* await asyncio.sleep(POLL_INTERVAL_S)
Sleep ==
  /\ srv = "loop" /\ mon = "next" /\ todo = {}
  /\ mon' = "sleep"
  /\ UNCHANGED <<store, sess, env, srv, refreshing, todo, cur, chat, crashes, history>>

-----------------------------------------------------------------------------
(***************************************************************************)
(* The users, and the death of the server.                                 *)
(***************************************************************************)

TurnStarts(s) ==
  /\ srv = "loop" /\ s \in alive \ active
  /\ active' = active \cup {s}
  /\ UNCHANGED <<store, sess, env, srv, refreshing, monitor, alive, crashes, history>>

TurnEnds(s) ==
  /\ srv = "loop" /\ s \in active
  /\ active' = active \ {s}
  /\ UNCHANGED <<store, sess, env, srv, refreshing, monitor, alive, crashes, history>>

\* On a thread of the pool.  A turn that is under way is not stopped.
DeleteSession(s) ==
  /\ s \in alive
  /\ alive' = alive \ {s}
  /\ UNCHANGED <<store, sess, env, srv, refreshing, monitor, active, crashes, history>>

ServerDies ==
  /\ crashes < MaxCrashes
  /\ crashes' = crashes + 1
  /\ srv' = "loop" /\ call' = NoCall /\ jobs' = NoJobs /\ scan' = {} /\ probe' = None
  /\ mon' = "sleep" /\ todo' = {} /\ cur' = None
  /\ active' = {}
  /\ UNCHANGED <<store, sess, env, alive, history>>

-----------------------------------------------------------------------------
ProcessStep(j) == CommandEnds(j) \/ EchoWrites(j) \/ Dies(j) \/ Reaped(j)

RefreshStep == Refreshed \/ \E j \in Jobs : Look(j) \/ Probe(j)

MonitorStep ==
  \/ Tick \/ DrainFails \/ DrainEnds \/ DrainDropped \/ Mark \/ Sleep \/ \E j \in Jobs : FollowUp(j)

Next ==
  \/ \E j \in Jobs : ProcessStep(j) \/ TimePasses(j) \/ Launch(j) \/ ToolKills(j)
  \/ LaunchSaves \/ ToolLists
  \/ RefreshStep \/ MonitorStep
  \/ \E s \in Sessions : TurnStarts(s) \/ TurnEnds(s) \/ DeleteSession(s)
  \/ ServerDies

Spec == Init /\ [][Next]_vars

(***************************************************************************)
(* Fairness: time passes; a call of launch() or refresh() goes on once it  *)
(* has started, and so does the step from the message to the mark; the     *)
(* event loop runs ready tasks in turn, so a monitor that could step   *)
(* again and again (when no refresh() is in its way) does; an agent run    *)
(* ends, and not every one of them fails.                                  *)
(***************************************************************************)
Fairness ==
  /\ \A j \in Jobs : WF_vars(TimePasses(j))
  /\ WF_vars(LaunchSaves) /\ WF_vars(RefreshStep) /\ WF_vars(Mark)
  /\ SF_vars(Tick) /\ SF_vars(Sleep) /\ SF_vars(DrainFails \/ DrainEnds \/ DrainDropped)
  /\ \A j \in Jobs : /\ SF_vars(FollowUp(j))
                     /\ SF_vars(DrainEnds /\ cur = j)

FairSpec == Spec /\ Fairness

-----------------------------------------------------------------------------
(***************************************************************************)
(* Properties.                                                             *)
(***************************************************************************)

JobRecords == [status : {"absent", "running", "done", "failed", "pruned"},
               cause : {"", "exit", "timed_out", "died", "killed"},
               followed : BOOLEAN]

\* The type invariant: the values each variable can hold.
TypeOK ==
  /\ store \in [Jobs -> JobRecords] /\ jobs \in [Jobs -> JobRecords]
  /\ sess \in [Jobs -> Sessions]
  /\ process \in [Jobs -> {"none", "running", "writing", "zombie", "gone"}]
  /\ code \in [Jobs -> {0, 1}]
  /\ exit \in [Jobs -> {"none", "empty", "0", "1"}]
  /\ overdue \subseteq Jobs /\ stale \subseteq Jobs /\ scan \subseteq Jobs /\ todo \subseteq Jobs
  /\ srv \in {"loop", "launch", "refresh", "mark"}
  /\ call \in [by : {"", "monitor", "list", "kill"}, job : Jobs \cup {None}]
  /\ probe \in Jobs \cup {None}
  /\ mon \in {"sleep", "next", "drain"}
  /\ cur \in Jobs \cup {None} /\ (mon = "drain" => cur \in Jobs)
  /\ alive \subseteq Sessions /\ active \subseteq Sessions
  /\ crashes \in 0 .. MaxCrashes
  /\ posts \in [Jobs -> 0 .. MaxPosts]

\* "Completion can never silently do nothing": a job is marked followed up only
\* when a continuation was added to its session, the agent had it killed, or the
\* session was deleted and its message dropped.
NeverSilent ==
  \A j \in Jobs : store[j].followed =>
    store[j].cause = "killed" \/ posts[j] > 0 \/ sess[j] \notin alive

\* The agent is re-invoked once for a job, and once more at most for every death
\* of the server, which may come between the continuation and the mark.
OncePerLife == \A j \in Jobs : posts[j] <= 1 + crashes

\* A job the agent stopped deliberately is never auto-continued, although the
\* monitor works through a list it made before the kill.
KilledStaysQuiet == \A j \in Jobs : store[j].cause = "killed" => posts[j] = 0

\* A job is recorded as "done" only if its command exited with status 0, and as
\* "died" only if there is no exit file: refresh() looks for the file again
\* after it found the process gone.
VerdictsAreTrue ==
  \A j \in Jobs :
    /\ store[j].status = "done" => code[j] = 0
    /\ store[j].cause = "died" => exit[j] = "none"

\* "A uvicorn restart never loses a job or its result": the record of a job that
\* wrote an exit status has that status.
ResultIsKept ==
  \A j \in Jobs : store[j].cause = "exit" /\ code[j] = 0 => store[j].status # "failed"

\* The user always hears back: a job is followed up in the end, whether it ends,
\* dies or runs for ever, unless its session is deleted, once the live turns
\* that put the follow-up off have come to an end.
JobsAreFollowedUp ==
  <>[](active = {}) =>
    \A j \in Jobs : store[j].status = "running" ~> store[j].followed \/ sess[j] \notin alive

\* The agent's view of its jobs: how each one ended, by the cause that outlives
\* the pruning of its record, the job between its follow-up and its mark, the
\* jobs that are marked, and those whose session is deleted.
Outcome(r) == IF r.cause = "" THEN r.status ELSE r.cause

Outcomes == [j \in Jobs |-> Outcome(store[j])]
Telling == IF srv = "mark" THEN {cur} ELSE {}
Settled == {j \in Jobs : store[j].followed}
Unheeded == {j \in Jobs : sess[j] \notin alive}

Agent ==
  INSTANCE JobNews
  WITH outcome <- Outcomes, told <- posts, telling <- Telling, settled <- Settled,
       unheeded <- Unheeded

\* The agent hears of each job that ended without its doing, of one at a time,
\* and again only of one that a dying server had not marked; how a job ended is
\* never revised, by a kill, a later poll or the pruning of its record; and a
\* job that was followed up, or killed, is never followed up again.
ImplementsJobNews == Agent!NewsSpec
=============================================================================
