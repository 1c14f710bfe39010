------------------------------ MODULE JobNews ------------------------------
(***************************************************************************)
(* What the background jobs promise the agent that launched them, without  *)
(* the processes, exit files, polls, lists and copies of records that keep *)
(* it.  A job ends in one way, which is learnt once and never revised.     *)
(* The agent is told of a job that ended without its doing, one job at a   *)
(* time, and a job is settled once the agent was told, or had it killed,   *)
(* or had its session deleted.  Only a server that died before it settled  *)
(* a job tells of it again.                                                *)
(***************************************************************************)
EXTENDS Naturals

CONSTANT Jobs

VARIABLES
  outcome,  \* of each job: "absent", "running", or how it ended
  told,     \* how many times the agent was told of it
  telling,  \* the job it was just told of, and that is not settled: one at most
  settled,  \* the jobs that will never be told of (again)
  unheeded  \* the jobs that have nobody to be told to: their session is gone

newsVars == <<outcome, told, telling, settled, unheeded>>

Ends == {"exit", "timed_out", "died"}

NewsInit ==
  /\ outcome = [j \in Jobs |-> "absent"]
  /\ told = [j \in Jobs |-> 0]
  /\ telling = {} /\ settled = {} /\ unheeded = {}

Start(j) ==
  /\ outcome[j] = "absent"
  /\ outcome' = [outcome EXCEPT ![j] = "running"]
  /\ UNCHANGED <<told, telling, settled, unheeded>>

\* A poll tells how some of the running jobs ended; the agent may have asked it
\* to kill one that still ran.
Learn(killed) ==
  /\ telling = {}
  /\ \E D \in SUBSET {j \in Jobs : outcome[j] = "running"} :
       \E how \in [D -> Ends \cup {"killed"}] :
         /\ {j \in D : how[j] = "killed"} = killed
         /\ outcome' = [j \in Jobs |-> IF j \in D THEN how[j] ELSE outcome[j]]
  /\ settled' = settled \cup killed
  /\ UNCHANGED <<told, telling, unheeded>>

Tell(j) ==
  /\ outcome[j] \in Ends /\ j \notin settled
  /\ telling = {} /\ telling' = {j}
  /\ told' = [told EXCEPT ![j] = @ + 1]
  /\ UNCHANGED <<outcome, settled, unheeded>>

\* A message that nobody will get.
Miss(j) ==
  /\ outcome[j] \in Ends /\ j \notin settled
  /\ j \in unheeded
  /\ telling = {} /\ telling' = {j}
  /\ UNCHANGED <<outcome, told, settled, unheeded>>

Settle(j) ==
  /\ j \in telling
  /\ telling' = {}
  /\ settled' = settled \cup {j}
  /\ UNCHANGED <<outcome, told, unheeded>>

\* The server dies and does not know that it told.
Forget ==
  /\ telling' = {}
  /\ UNCHANGED <<outcome, told, settled, unheeded>>

Leave ==
  /\ unheeded \subseteq unheeded'
  /\ UNCHANGED <<outcome, told, telling, settled>>

NewsNext ==
  \/ \E j \in Jobs : Start(j) \/ Tell(j) \/ Miss(j) \/ Settle(j) \/ Learn({j})
  \/ Learn({}) \/ Forget \/ Leave

NewsSpec == NewsInit /\ [][NewsNext]_newsVars

=============================================================================
