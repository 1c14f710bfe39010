-------------------------- MODULE MCTaskScheduler --------------------------
(* Instances of the task scheduler for TLC. *)
EXTENDS TaskScheduler, TLC

CONSTANTS t1, t2

\* t1 is triggered by an event and runs t2 when it succeeds.
ChainThen == (t1 :> t2) @@ (t2 :> NoTask)
SoloThen == (t1 :> NoTask)

\* What the actions read: the status of a finished row is of no consequence.
Readable ==
  <<up, taskVars, [e \in Execs |-> IF row[e] \in Active THEN row[e] ELSE "over"], recent,
    memVars, execVars, gateVars, crashes, handVars>>
ExecSymmetry == Permutations(Execs)

=============================================================================
