--------------------------- MODULE ToolApprovals ---------------------------
(***************************************************************************)
(* Approvals of exact tool actions: the store of pending cards             *)
(* (src/src/tool_approvals.py), the requests that answer, dismiss or       *)
(* refuse a card (src/routes/chat_routes.py, src/routes/skills_routes.py,  *)
(* src/src/task_scheduler.py), the gate of an agent run                    *)
(* (src/src/tool_capabilities.py, src/src/agent_loop.py,                   *)
(* src/src/tool_execution.py) and the signed grant for the rest of a chat  *)
(* (src/src/tool_approval_scopes.py, src/core/models.py).                  *)
(*                                                                         *)
(* Every method of the store holds its lock, and between peek and consume  *)
(* no request is suspended, so each request is one step up to the start of *)
(* the run it asks for; the run itself takes its own steps later.          *)
(*                                                                         *)
(* A card is named by its opaque id.  The digest of an action is           *)
(* abstracted to the run that proposed it: owner, session and origin of a  *)
(* card are those of that run, and an action is in the model because it is *)
(* one of those the gate stops (POST_EXTERNAL_BLOCKED_EFFECTS).            *)
(***************************************************************************)
EXTENDS Integers, FiniteSets

CONSTANTS
  Approvals,    \* approval ids; the token generator never repeats one
  Runs,         \* agent runs
  NoRun, NoCard,
  Owners,
  Chats,        \* chat sessions
  ChatOwner,    \* Session.owner
  Headless,     \* the empty session id of skill tests and audits
  MaxPending,   \* max_pending
  Ttl,          \* ttl_seconds, in ticks
  MaxTime,      \* ticks of the clock
  MaxRestarts   \* restarts of the server

ASSUME ConstantsAssumption ==
  /\ NoRun \notin Runs /\ NoCard \notin Approvals
  /\ Headless \notin Chats
  /\ ChatOwner \in [Chats -> Owners]
  /\ MaxPending \in Nat \ {0} /\ Ttl \in Nat \ {0}
  /\ MaxTime \in Nat /\ MaxRestarts \in Nat
  /\ IsFiniteSet(Approvals)

VARIABLES
  now,          \* time.time()
  pending,      \* the keys of ToolApprovalStore._pending
  origin,       \* the run that proposed the sealed action
  created,      \* PendingToolApproval.created_at
  armed,        \* cards sealed with external_untrusted_context_seen
  claimed,      \* ExactToolApproval._claimed: the sealed action was executed
  phase,        \* of each run
  kind,         \* who drives it
  owner,        \* the owner its tools run for
  place,        \* its session
  sealed,       \* exact_approval
  tainted,      \* external_untrusted_context_seen
  bypassed,     \* approval_gate_bypassed
  saved,        \* cards in the saved history of their chat
  stamped,      \* cards with a signed chat-session grant, in memory
  durable,      \* the same in the database
  restarts,
  verdict,      \* history: the decision that consumed the card
  acted         \* history: tainted runs that executed an action without a card

storeVars == <<pending, origin, created, armed>>
runVars == <<phase, kind, owner, place, sealed, tainted, bypassed>>
chatVars == <<saved, stamped, durable>>
vars == <<now, storeVars, claimed, runVars, chatVars, restarts, verdict, acted>>

Places == Chats \cup {Headless}
Kinds == {"chat", "delegated", "skill", "unattended"}
Allows == {"approve", "approve_task"}

Init ==
  /\ now = 0 /\ pending = {} /\ armed = {} /\ claimed = {}
  /\ origin = [a \in Approvals |-> NoRun] /\ created = [a \in Approvals |-> 0]
  /\ phase = [r \in Runs |-> "free"] /\ kind = [r \in Runs |-> "chat"]
  /\ \E o \in Owners : owner = [r \in Runs |-> o]
  /\ place = [r \in Runs |-> Headless] /\ sealed = [r \in Runs |-> NoCard]
  /\ tainted = {} /\ bypassed = {}
  /\ saved = {} /\ stamped = {} /\ durable = {} /\ restarts = 0
  /\ verdict = [a \in Approvals |-> "none"] /\ acted = {}

-----------------------------------------------------------------------------
(* The store. *)

Expired(a) == created[a] + Ttl <= now

\* What _purge_expired_locked leaves behind.
Unexpired == {a \in pending : ~Expired(a)}

At(a, o, p) == owner[origin[a]] = o /\ place[origin[a]] = p

\* Mutant: only a card of the same run is replaced.
SupersededOwn(r) ==
  {a \in Unexpired : At(a, owner[r], place[r]) /\ origin[a] = r}

\* Older cards a new one replaces: one card per chat, one per headless run.
Superseded(r) ==
  {a \in Unexpired : At(a, owner[r], place[r]) /\ (place[r] # Headless \/ origin[a] = r)}

\* The oldest cards go until there is room for one more.
Evicted(E, S) ==
  /\ E \subseteq S
  /\ Cardinality(S \ E) < MaxPending
  /\ \A a \in E : Cardinality(S \ E) = MaxPending - 1 /\ \A b \in S \ E : created[a] <= created[b]

\* create
Create(a, r) ==
  /\ origin[a] = NoRun
  /\ \E E \in SUBSET (Unexpired \ Superseded(r)) :
       /\ Evicted(E, Unexpired \ Superseded(r))
       /\ pending' = (Unexpired \ (Superseded(r) \cup E)) \cup {a}
  /\ origin' = [origin EXCEPT ![a] = r]
  /\ created' = [created EXCEPT ![a] = now]
  /\ armed' = IF r \in tainted THEN armed \cup {a} ELSE armed

\* Mutant: a consumed card stays in the store.
ConsumeKeeps(a, o, p, d) ==
  /\ a \in Unexpired /\ At(a, o, p)
  /\ pending' = Unexpired
  /\ verdict' = [verdict EXCEPT ![a] = d]
  /\ UNCHANGED <<origin, created, armed>>

\* consume finds the card, of the same owner and session, and removes it.
Consume(a, o, p, d) ==
  /\ a \in Unexpired /\ At(a, o, p)
  /\ pending' = Unexpired \ {a}
  /\ verdict' = [verdict EXCEPT ![a] = d]
  /\ UNCHANGED <<origin, created, armed>>

\* The cards retire_for_session discards.
Retired(o, c) == {a \in Unexpired : At(a, o, c)}

-----------------------------------------------------------------------------
(* Runs. *)

\* _history_grants_chat_session_approval: the signature binds the chat.
ChatGranted(c) == \E a \in stamped : place[origin[a]] = c

\* stream_agent_loop is called: the security context of the run.  Among the
\* messages of a chat observe_messages finds its grant, unless an API token
\* drives the run; tests, audits and scheduled tasks have no such messages.
StartRun(r, k, o, p, a, carried, allowRemaining) ==
  /\ phase[r] = "free"
  /\ phase' = [phase EXCEPT ![r] = IF a = NoCard THEN "working" ELSE "sealed"]
  /\ kind' = [kind EXCEPT ![r] = k]
  /\ owner' = [owner EXCEPT ![r] = o]
  /\ place' = [place EXCEPT ![r] = p]
  /\ sealed' = [sealed EXCEPT ![r] = a]
  /\ \E context \in BOOLEAN :
       tainted' = IF carried \/ context \/ a \in armed THEN tainted \cup {r} ELSE tainted
  /\ bypassed' = IF allowRemaining \/ (k = "chat" /\ ChatGranted(p))
                 THEN bypassed \cup {r} ELSE bypassed

\* Mutant: the taint of the dismissed card is not passed on.
MessageClean(c, r, k) ==
  /\ k \in {"chat", "delegated"}
  /\ pending' = Unexpired \ Retired(ChatOwner[c], c)
  /\ StartRun(r, k, ChatOwner[c], c, NoCard, FALSE, FALSE)
  /\ UNCHANGED <<now, origin, created, armed, claimed, chatVars, restarts, verdict, acted>>

\* An ordinary message in chat c, from a browser or with an API token,
\* dismisses the card that waits there; its taint is kept for this turn.
Message(c, r, k) ==
  /\ k \in {"chat", "delegated"}
  /\ pending' = Unexpired \ Retired(ChatOwner[c], c)
  /\ StartRun(r, k, ChatOwner[c], c, NoCard, Retired(ChatOwner[c], c) \cap armed # {}, FALSE)
  /\ UNCHANGED <<now, origin, created, armed, claimed, chatVars, restarts, verdict, acted>>

\* The request fails after the card was retired (no model, no endpoint).
MessageRejected(c) ==
  /\ pending' = Unexpired \ Retired(ChatOwner[c], c)
  /\ UNCHANGED <<now, origin, created, armed, claimed, runVars, chatVars, restarts, verdict, acted>>

\* A skill test or an audit.  The text of a skill is untrusted context.
StartHeadless(r, o, k) ==
  /\ k \in {"skill", "unattended"}
  /\ StartRun(r, k, o, Headless, NoCard, TRUE, FALSE)
  /\ UNCHANGED <<now, storeVars, claimed, chatVars, restarts, verdict, acted>>

\* A scheduled task in its own chat, or the follow-up of a background job:
\* no card is retired.
StartUnasked(r, c, k) ==
  /\ k \in {"chat", "unattended"}
  /\ StartRun(r, k, ChatOwner[c], c, NoCard, FALSE, FALSE)
  /\ UNCHANGED <<now, storeVars, claimed, chatVars, restarts, verdict, acted>>

\* A tool returned external content.
ObserveToolResult(r) ==
  /\ phase[r] = "working"
  /\ tainted' = tainted \cup {r}
  /\ UNCHANGED <<now, storeVars, claimed, phase, kind, owner, place, sealed, bypassed, chatVars, restarts, verdict, acted>>

\* decision_for, for an action of the blocked effects; public says whether
\* the tool is one of those an API token may never use.
DecisionFor(r, public) ==
  /\ ~(kind[r] = "delegated" /\ public)
  /\ r \in bypassed \/ r \notin tainted

\* The gate lets a proposed action through.
Act(r) ==
  /\ phase[r] = "working"
  /\ \E public \in BOOLEAN : DecisionFor(r, public)
  /\ acted' = IF r \in tainted THEN acted \cup {r} ELSE acted
  /\ UNCHANGED <<now, storeVars, claimed, runVars, chatVars, restarts, verdict>>

\* The gate stops it: the action is sealed in a card and the turn ends.
AskApproval(r, a) ==
  /\ phase[r] = "working"
  /\ \E public \in BOOLEAN : ~DecisionFor(r, public)
  /\ Create(a, r)
  /\ phase' = [phase EXCEPT ![r] = "paused"]
  /\ UNCHANGED <<now, claimed, kind, owner, place, sealed, tainted, bypassed, chatVars, restarts, verdict, acted>>

\* The resumed run executes the sealed action before anything else: the
\* context must be armed on both sides, and claim must succeed.
ExecuteSealed(r) ==
  /\ phase[r] = "sealed"
  /\ r \in tainted /\ sealed[r] \in armed \ claimed
  /\ claimed' = claimed \cup {sealed[r]}
  /\ phase' = [phase EXCEPT ![r] = "working"]
  /\ UNCHANGED <<now, storeVars, kind, owner, place, sealed, tainted, bypassed, chatVars, restarts, verdict, acted>>

\* It is refused: the context is not armed, or the sealed document or
\* workspace is no longer there.  The grant is spent all the same.
RefuseSealed(r) ==
  /\ phase[r] = "sealed"
  /\ phase' = [phase EXCEPT ![r] = "working"]
  /\ UNCHANGED <<now, storeVars, claimed, kind, owner, place, sealed, tainted, bypassed, chatVars, restarts, verdict, acted>>

\* The run ends or is cancelled; its turn is saved, the card in it included.
\* A cancelled run may save its turn without the card.
EndRun(r) ==
  /\ phase[r] \notin {"free", "ended"}
  /\ phase' = [phase EXCEPT ![r] = "ended"]
  /\ \E keep \in BOOLEAN :
       saved' = IF keep /\ phase[r] = "paused" /\ kind[r] \in {"chat", "delegated"}
                THEN saved \cup {a \in Approvals : origin[a] = r} ELSE saved
  /\ UNCHANGED <<now, storeVars, claimed, kind, owner, place, sealed, tainted, bypassed, stamped, durable, restarts, verdict, acted>>

-----------------------------------------------------------------------------
(* Answers. *)

\* _mark_tool_approval_resolved: the grant is signed onto the card, when the
\* chat's history has it; the write to the database may fail.
MarkResolved(a, d) ==
  /\ stamped' = IF d = "approve" /\ a \in saved THEN stamped \cup {a} ELSE stamped
  /\ \E stored \in BOOLEAN :
       durable' = IF d = "approve" /\ a \in saved /\ stored THEN durable \cup {a} ELSE durable
  /\ UNCHANGED saved

\* A card is allowed in its chat, and the run resumes with the sealed
\* action.  An API token is turned away before the store is asked.
Approve(c, a, d, r) ==
  /\ d \in Allows
  /\ Consume(a, ChatOwner[c], c, d)
  /\ MarkResolved(a, d)
  /\ StartRun(r, "chat", ChatOwner[c], c, a, a \in armed, TRUE)
  /\ UNCHANGED <<now, claimed, restarts, acted>>

\* It is denied, or the request fails once the card has been consumed.
Deny(c, a, d) ==
  /\ d \in Allows \cup {"deny"}
  /\ Consume(a, ChatOwner[c], c, d)
  /\ MarkResolved(a, d)
  /\ UNCHANGED <<now, claimed, runVars, restarts, acted>>

\* Mutant: the test goes on without the gate.
ApproveSkillTestOpens(o, a, r) ==
  /\ a \in Unexpired /\ phase[origin[a]] = "paused" /\ kind[origin[a]] = "skill"
  /\ Consume(a, o, Headless, "approve")
  /\ StartRun(r, "skill", o, Headless, a, TRUE, TRUE)
  /\ UNCHANGED <<now, claimed, chatVars, restarts, acted>>

\* The "allow once" of a skill test that waits: allow_continuation is False.
ApproveSkillTest(o, a, r) ==
  /\ a \in Unexpired /\ phase[origin[a]] = "paused" /\ kind[origin[a]] = "skill"
  /\ Consume(a, o, Headless, "approve")
  /\ StartRun(r, "skill", o, Headless, a, TRUE, FALSE)
  /\ UNCHANGED <<now, claimed, chatVars, restarts, acted>>

\* A denied test, a test started over, and the card of a run that nobody
\* attends to, which the consumer of the run's events denies at once.
DenyHeadless(a) ==
  /\ a \in Unexpired /\ kind[origin[a]] \in {"skill", "unattended"}
  /\ phase[origin[a]] = "paused"
  /\ Consume(a, owner[origin[a]], place[origin[a]], "deny")
  /\ phase' = [phase EXCEPT ![origin[a]] = "ended"]
  /\ UNCHANGED <<now, claimed, kind, owner, place, sealed, tainted, bypassed, chatVars, restarts, acted>>

\* A request with a wrong id, owner, session or decision only purges.
RefuseAnswer ==
  /\ pending' = Unexpired
  /\ UNCHANGED <<now, origin, created, armed, claimed, runVars, chatVars, restarts, verdict, acted>>

-----------------------------------------------------------------------------

Tick ==
  /\ now < MaxTime
  /\ now' = now + 1
  /\ UNCHANGED <<storeVars, claimed, runVars, chatVars, restarts, verdict, acted>>

\* The store and the runs are memory of the process; the chats are not.
Restart ==
  /\ restarts < MaxRestarts
  /\ restarts' = restarts + 1
  /\ pending' = {} /\ stamped' = durable
  /\ phase' = [r \in Runs |-> IF phase[r] = "free" THEN "free" ELSE "ended"]
  /\ UNCHANGED <<now, origin, created, armed, claimed, kind, owner, place, sealed, tainted, bypassed, saved, durable, verdict, acted>>

RunStep(r) ==
  ObserveToolResult(r) \/ Act(r) \/ ExecuteSealed(r) \/ RefuseSealed(r) \/ EndRun(r)

Answer(a) ==
  \/ \E c \in Chats :
       \/ \E d \in Allows, r \in Runs : Approve(c, a, d, r)
       \/ \E d \in Allows \cup {"deny"} : Deny(c, a, d)
  \/ \E o \in Owners, r \in Runs : ApproveSkillTest(o, a, r)
  \/ DenyHeadless(a)

Next ==
  \/ \E r \in Runs, c \in Chats, k \in {"chat", "delegated"} : Message(c, r, k)
  \/ \E c \in Chats : MessageRejected(c)
  \/ \E r \in Runs, o \in Owners, k \in {"skill", "unattended"} : StartHeadless(r, o, k)
  \/ \E r \in Runs, c \in Chats, k \in {"chat", "unattended"} : StartUnasked(r, c, k)
  \/ \E r \in Runs : RunStep(r)
  \/ \E r \in Runs, a \in Approvals : AskApproval(r, a)
  \/ \E a \in Approvals : Answer(a)
  \/ RefuseAnswer
  \/ Tick
  \/ Restart

Spec == Init /\ [][Next]_vars

-----------------------------------------------------------------------------
(* Properties. *)

\* The types of the store, the runs and the chats.
TypeOK ==
  /\ now \in 0..MaxTime /\ restarts \in 0..MaxRestarts
  /\ pending \subseteq Approvals /\ armed \subseteq Approvals /\ claimed \subseteq Approvals
  /\ origin \in [Approvals -> Runs \cup {NoRun}]
  /\ created \in [Approvals -> 0..MaxTime]
  /\ phase \in [Runs -> {"free", "sealed", "working", "paused", "ended"}]
  /\ kind \in [Runs -> Kinds] /\ owner \in [Runs -> Owners] /\ place \in [Runs -> Places]
  /\ sealed \in [Runs -> Approvals \cup {NoCard}]
  /\ tainted \subseteq Runs /\ bypassed \subseteq Runs
  /\ saved \subseteq Approvals /\ stamped \subseteq Approvals /\ durable \subseteq Approvals
  /\ verdict \in [Approvals -> Allows \cup {"none", "deny"}]
  /\ acted \subseteq Runs

\* A chat never waits on two cards, whoever asked (a turn, a follow-up of a
\* background job, a scheduled task in the same chat), and the store never
\* holds more than max_pending cards.
OneCardPerChat ==
  /\ \A a, b \in pending :
       place[origin[a]] = place[origin[b]] /\ place[origin[a]] \in Chats => a = b
  /\ Cardinality(pending) <= MaxPending

\* The owner's consent on which run r may act without a card: the decision
\* that resumed it, or one for its whole chat.
Consent(r, a) ==
  /\ At(a, owner[r], place[r])
  /\ \/ verdict[a] \in Allows /\ sealed[r] = a
     \/ verdict[a] = "approve"

\* A sealed action is executed only after its owner allowed it, and a tainted
\* run executes any other gated action only in a chat, never for an API
\* token, and on a consent of the chat's owner: the "once" of a skill test
\* does not open the gate for what follows.
ConsentPrecedesAction ==
  /\ \A a \in claimed : verdict[a] \in Allows /\ a \in armed
  /\ \A r \in acted :
       kind[r] = "chat" /\ place[r] \in Chats /\ \E a \in Approvals : Consent(r, a)

\* Dismissing a card does not launder its provenance: when a message starts
\* a turn in a chat with an armed card, that turn starts tainted.
RetiredTaintCarries ==
  [][\A r \in Runs, a \in pending \cap armed :
       /\ phase[r] = "free" /\ phase'[r] = "working" /\ a \notin pending'
       /\ ~Expired(a) /\ place'[r] = place[origin[a]] /\ place'[r] \in Chats
       => r \in tainted']_vars

\* The cards that were ever created, the cards of permissions not yet used,
\* and where each card was shown.
Created == {a \in Approvals : origin[a] # NoRun}
Granted == {a \in Approvals : \E r \in Runs : phase[r] = "sealed" /\ sealed[r] = a}
Home == [a \in Approvals |-> IF a \in Created THEN place[origin[a]] ELSE NoRun]

Lifecycle ==
  INSTANCE ApprovalLifecycle
    WITH used <- Created, open <- pending, allowed <- Granted, executed <- claimed,
         home <- Home, Elsewhere <- {Headless}, NoPlace <- NoRun

\* The store, the requests and the runs implement the life cycle of a card:
\* an action is executed at most once, only while its one-time permission
\* stands, and nothing void comes back.
ImplementsLifecycle == Lifecycle!LifeSpec

=============================================================================
