------------------------------- MODULE RunLog -------------------------------
(***************************************************************************)
(* What the detached runs promise to the browsers, without the tasks, the  *)
(* queues, the sentinels, the time-outs and the timers that keep it.  Each *)
(* run has one log, which only grows, and never again once the run has     *)
(* completed.  A response is opened on a run that is not over; it reads    *)
(* that run's log from its start, one event after the other, at its own    *)
(* pace; the server closes it only when the run is over and the whole of   *)
(* the log has been read.  The k-th event of a log is the number k.        *)
(***************************************************************************)
EXTENDS Naturals, Sequences

CONSTANTS Runs, Subs, NoRun

VARIABLES
  length,    \* how many events the log of each run has
  over,      \* runs that have ended, completed or not
  complete,  \* runs that have completed
  run,       \* the run each response reads
  received,  \* the events it has received
  reading    \* the responses that are open

logVars == <<length, over, complete, run, received, reading>>

LogInit ==
  /\ length = [r \in Runs |-> 0]
  /\ over = {} /\ complete = {}
  /\ run = [c \in Subs |-> NoRun]
  /\ received = [c \in Subs |-> <<>>]
  /\ reading = {}

Grow(r, n) ==
  /\ r \notin complete
  /\ length' = [length EXCEPT ![r] = @ + n]
  /\ UNCHANGED <<run, received, reading>>

Add(r) == Grow(r, 1) /\ UNCHANGED <<over, complete>>

\* A run is cut short, or fails, which two last events of its log tell.
End(r) ==
  /\ \E n \in {0, 2} : Grow(r, n)
  /\ over' = over \cup {r}
  /\ UNCHANGED complete

Finish(r) ==
  /\ r \notin over
  /\ Grow(r, 0)
  /\ over' = over \cup {r} /\ complete' = complete \cup {r}

\* A response is opened.  The request that opens it may cut another run short.
Open(c, r) ==
  /\ c \notin reading /\ r \notin over
  /\ reading' = reading \cup {c}
  /\ run' = [run EXCEPT ![c] = r]
  /\ received' = [received EXCEPT ![c] = <<>>]
  /\ UNCHANGED over \/ \E p \in Runs \ (complete \cup {r}) : over' = over \cup {p}
  /\ UNCHANGED <<length, complete>>

Read(c) ==
  /\ c \in reading
  /\ Len(received[c]) < length[run[c]]
  /\ received' = [received EXCEPT ![c] = Append(@, Len(@) + 1)]
  /\ UNCHANGED <<length, over, complete, run, reading>>

Close(c) ==
  /\ c \in reading
  /\ run[c] \in over /\ Len(received[c]) = length[run[c]]
  /\ reading' = reading \ {c}
  /\ UNCHANGED <<length, over, complete, run, received>>

Leave(c) ==
  /\ c \in reading
  /\ reading' = reading \ {c}
  /\ run' = [run EXCEPT ![c] = NoRun]
  /\ received' = [received EXCEPT ![c] = <<>>]
  /\ UNCHANGED <<length, over, complete>>

LogNext ==
  \/ \E r \in Runs : Add(r) \/ End(r) \/ Finish(r)
  \/ \E c \in Subs : Read(c) \/ Close(c) \/ Leave(c) \/ \E r \in Runs : Open(c, r)

LogSpec == LogInit /\ [][LogNext]_logVars

=============================================================================
