------------------------- MODULE ApprovalLifecycle -------------------------
(***************************************************************************)
(* What the approval of an exact tool action promises, without the store,  *)
(* the requests and the runs that keep it: a card is opened once, at one   *)
(* place; it is allowed at most once and only while it is open; an allowed *)
(* action is executed at most once; whatever was denied, superseded,       *)
(* dismissed, evicted, expired or lost is in none of the sets open,        *)
(* allowed and executed, and never will be again.                          *)
(***************************************************************************)
CONSTANTS
  Approvals,  \* cards
  Chats,      \* places that show one card at a time
  Elsewhere,  \* places without a chat
  NoPlace

VARIABLES
  used,       \* cards that were ever opened
  open,       \* cards that can be answered
  allowed,    \* cards whose action may be executed
  executed,   \* cards whose action was executed
  home        \* where each card was opened

lifeVars == <<used, open, allowed, executed, home>>

LifeInit ==
  /\ used = {} /\ open = {} /\ allowed = {} /\ executed = {}
  /\ home = [a \in Approvals |-> NoPlace]

\* Older cards may go; those of the same chat do.
OpenCard(a, p) ==
  /\ a \notin used
  /\ used' = used \cup {a}
  /\ open' \in SUBSET (open \cup {a}) /\ a \in open'
  /\ p \in Chats => \A b \in open' \ {a} : home[b] # p
  /\ home' = [home EXCEPT ![a] = p]
  /\ UNCHANGED <<allowed, executed>>

AllowCard(a) ==
  /\ a \in open
  /\ open' \in SUBSET (open \ {a})
  /\ allowed' = allowed \cup {a}
  /\ UNCHANGED <<used, executed, home>>

ExecuteCard(a) ==
  /\ a \in allowed
  /\ allowed' = allowed \ {a}
  /\ executed' = executed \cup {a}
  /\ UNCHANGED <<used, open, home>>

VoidCards ==
  /\ open' \in SUBSET open /\ allowed' \in SUBSET allowed
  /\ UNCHANGED <<used, executed, home>>

LifeNext ==
  \/ \E a \in Approvals, p \in Chats \cup Elsewhere : OpenCard(a, p)
  \/ \E a \in Approvals : AllowCard(a) \/ ExecuteCard(a)
  \/ VoidCards

LifeSpec == LifeInit /\ [][LifeNext]_lifeVars

=============================================================================
