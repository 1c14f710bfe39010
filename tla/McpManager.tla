----------------------------- MODULE McpManager -----------------------------
(***************************************************************************)
(* The connections to MCP servers: the manager (src/src/mcp_manager.py),   *)
(* the browser authorisation of HTTP servers (src/src/mcp_oauth.py), the   *)
(* start of the built-in servers (src/src/builtin_mcp.py) and the routes   *)
(* and the tool that add, enable, disable, reconnect and delete a server   *)
(* (src/routes/mcp/mcp_routes.py, src/src/agent_tools/admin_tools.py).     *)
(*                                                                         *)
(* All of it runs on one event loop, so a step is the code between two     *)
(* awaits.  The manager has no lock: whatever an operation read before an  *)
(* await may have been changed by another one when it goes on.             *)
(*                                                                         *)
(* A link is what one connect attempt builds: transport, client session,   *)
(* exit stack and the tools the server listed.  The attempts are numbered  *)
(* as they start.  stdio and SSE do the same and are not told apart.  What *)
(* a server answers, and whether it does, is nondeterministic.             *)
(***************************************************************************)
EXTENDS Naturals, FiniteSets

CONSTANTS
  Servers,
  Http,         \* transport = "http"; the others are stdio or SSE
  Builtin,      \* the Python servers of _BUILTIN_SERVERS, without a row
  Ops,          \* operations in progress: at most this many at once
  MaxLinks,     \* connect attempts
  NoServer

ASSUME ConstantsAssumption ==
  /\ NoServer \notin Servers
  /\ Http \subseteq Servers /\ Builtin \subseteq Servers \ Http
  /\ MaxLinks \in Nat

Links == 1 .. MaxLinks
NoLink == 0

VARIABLES
  row,          \* McpServer: "new" before it is added, "on", "off", "gone"
  boot,         \* servers whose startup connect has not begun
  session,      \* _sessions and _tools: set and popped together
  stack,        \* _stacks
  conn,         \* _connections[s]["status"]
  connTask,     \* _connect_tasks
  link, of,     \* the state and the server of each attempt
  made,         \* the number of the last attempt
  cancelled,    \* background connects with a cancellation on its way
  kind, srv,    \* what each operation does, and to which server
  pc,           \* the await it is suspended at
  at,           \* the link it opens or calls
  cache,        \* the cached prompt; empty once _generation has moved on
  overlapped,   \* history: servers with a connect begun too early
  dropped,      \* history: servers with no connect begun since a disconnect
  cut           \* history: servers left half disconnected

regVars == <<session, stack, conn, connTask>>
linkVars == <<link, of, made>>
opVars == <<kind, srv, pc, at>>
histVars == <<overlapped, dropped, cut>>
vars == <<row, boot, regVars, linkVars, cancelled, opVars, cache, histVars>>

Busy == {"opening", "auth", "granted"}

Init ==
  /\ row \in [Servers -> {"none", "new", "on"}]
  /\ \A s \in Servers : row[s] = "none" <=> s \in Builtin
  /\ boot = {s \in Servers : row[s] \in {"none", "on"}}
  /\ session = [s \in Servers |-> NoLink] /\ stack = [s \in Servers |-> NoLink]
  /\ conn = [s \in Servers |-> "none"] /\ connTask = [s \in Servers |-> NoLink]
  /\ link = [l \in Links |-> "unused"] /\ of = [l \in Links |-> NoServer] /\ made = 0
  /\ cancelled = {}
  /\ kind = [o \in Ops |-> "none"] /\ srv = [o \in Ops |-> NoServer]
  /\ pc = [o \in Ops |-> "idle"] /\ at = [o \in Ops |-> NoLink]
  /\ cache = {}
  /\ overlapped = {} /\ dropped = {} /\ cut = {}

-----------------------------------------------------------------------------
(* The pieces of an operation. *)

Idle(o) ==
  /\ kind' = [kind EXCEPT ![o] = "none"] /\ srv' = [srv EXCEPT ![o] = NoServer]
  /\ pc' = [pc EXCEPT ![o] = "idle"] /\ at' = [at EXCEPT ![o] = NoLink]

Suspend(o, k, s, p, l) ==
  /\ kind' = [kind EXCEPT ![o] = k] /\ srv' = [srv EXCEPT ![o] = s]
  /\ pc' = [pc EXCEPT ![o] = p] /\ at' = [at EXCEPT ![o] = l]

\* A connect of s is under way, or a connection stands.
Taken(s) ==
  \/ stack[s] # NoLink
  \/ \E l \in Links : of[l] = s /\ link[l] \in Busy
  \/ \E o \in Ops : srv[o] = s /\ pc[o] \in {"failing", "expiring"}

\* connect_server up to its first await.  An HTTP server is connected by a
\* task of its own, and the caller waits for that for eight seconds.  status,
\* tasks and drops are what the code before it leaves behind.
ConnectServer(o, k, s, status, tasks, drops) ==
  LET l == made + 1
  IN /\ l \in Links
     /\ made' = l
     /\ link' = [link EXCEPT ![l] = "opening"]
     /\ of' = [of EXCEPT ![l] = s]
     /\ conn' = [conn EXCEPT ![s] = IF s \in Http THEN "connecting" ELSE status]
     /\ connTask' = IF s \in Http THEN [tasks EXCEPT ![s] = l] ELSE tasks
     /\ Suspend(o, k, s, IF s \in Http THEN "waiting" ELSE "opening", l)
     /\ overlapped' = IF Taken(s) THEN overlapped \cup {s} ELSE overlapped
     /\ dropped' = drops \ {s}

\* disconnect_server after its await, and what its caller does next: the
\* reconnect route and a failed call connect again, the tool does so if there
\* is a row, the delete route deletes the row it read before.
Disconnected(o, k, s, rows, tasks, drops) ==
  /\ session' = [session EXCEPT ![s] = NoLink]
  /\ cache' = {}
  /\ cut' = cut \ {s}
  /\ \/ /\ k \in {"reconnect", "call"} \/ (k = "tool" /\ row[s] \in {"on", "off"})
        /\ ConnectServer(o, k, s, "none", tasks, drops)
        /\ row' = rows
     \/ /\ k \in {"drop", "delete"} \/ (k = "tool" /\ row[s] \notin {"on", "off"})
        /\ conn' = [conn EXCEPT ![s] = "none"]
        /\ connTask' = tasks /\ dropped' = drops
        /\ row' = IF k = "delete" THEN [rows EXCEPT ![s] = "gone"] ELSE rows
        /\ Idle(o)
        /\ UNCHANGED <<linkVars, overlapped>>

\* Mutant: the background connect is left alone.
DisconnectUncancelled(o, k, s, rows) ==
  LET tasks == [connTask EXCEPT ![s] = NoLink]
  IN /\ UNCHANGED cancelled
     /\ stack' = [stack EXCEPT ![s] = NoLink]
     /\ \/ /\ stack[s] # NoLink
           /\ link' = [link EXCEPT ![stack[s]] = "closed"]
           /\ connTask' = tasks
           /\ dropped' = dropped \cup {s}
           /\ Suspend(o, k, s, "closing", NoLink)
           /\ row' = rows
           /\ UNCHANGED <<session, conn, of, made, cache, overlapped, cut>>
        \/ /\ stack[s] = NoLink
           /\ Disconnected(o, k, s, rows, tasks, dropped \cup {s})

\* disconnect_server: the background connect is cancelled, and the stack is
\* closed, which is the only await.
DisconnectServer(o, k, s, rows) ==
  LET tasks == [connTask EXCEPT ![s] = NoLink]
      running == {l \in Links : l = connTask[s] /\ link[l] \in Busy}
  IN /\ cancelled' = cancelled \cup running
     /\ stack' = [stack EXCEPT ![s] = NoLink]
     /\ \/ /\ stack[s] # NoLink
           /\ link' = [link EXCEPT ![stack[s]] = "closed"]
           /\ connTask' = tasks
           /\ dropped' = dropped \cup {s}
           /\ Suspend(o, k, s, "closing", NoLink)
           /\ row' = rows
           /\ UNCHANGED <<session, conn, of, made, cache, overlapped, cut>>
        \/ /\ stack[s] = NoLink
           /\ Disconnected(o, k, s, rows, tasks, dropped \cup {s})

\* Mutant: the stack is popped after it was closed.
CloseEndsPops(o) ==
  /\ pc[o] = "closing"
  /\ Disconnected(o, kind[o], srv[o], row, connTask, dropped)
  /\ stack' = [stack EXCEPT ![srv[o]] = NoLink]
  /\ UNCHANGED <<boot, cancelled>>

\* stack.aclose() returns.
CloseEnds(o) ==
  /\ pc[o] = "closing"
  /\ Disconnected(o, kind[o], srv[o], row, connTask, dropped)
  /\ UNCHANGED <<boot, stack, cancelled>>

\* It is cancelled, by the time limit of the request or the end of the agent
\* run: nothing after it is carried out.
CloseCancelled(o) ==
  /\ pc[o] = "closing"
  /\ cut' = cut \cup {srv[o]}
  /\ Idle(o)
  /\ UNCHANGED <<row, boot, regVars, linkVars, cancelled, cache, overlapped, dropped>>

-----------------------------------------------------------------------------
(* Operations. *)

Free(o) == pc[o] = "idle"

\* register_builtin_servers and connect_all_enabled, one task per server.
StartupConnect(o, s) ==
  /\ Free(o) /\ s \in boot
  /\ boot' = boot \ {s}
  /\ ConnectServer(o, IF s \in Builtin THEN "connect" ELSE "startup", s, conn[s], connTask, dropped)
  /\ UNCHANGED <<row, session, stack, cancelled, cache, cut>>

\* The routes that connect without disconnecting first: add_server, the
\* toggle, and the exchange of a Google code, which leaves the row alone.
EnableServer(o, s) ==
  /\ Free(o) /\ row[s] \in {"new", "on", "off"}
  /\ \/ row' = [row EXCEPT ![s] = "on"]
     \/ row[s] # "new" /\ s \notin Http /\ UNCHANGED row
  /\ ConnectServer(o, "connect", s, conn[s], connTask, dropped)
  /\ UNCHANGED <<boot, session, stack, cancelled, cache, cut>>

\* The toggle, off: the row is committed before the server is disconnected.
DisableServer(o, s) ==
  /\ Free(o) /\ row[s] \in {"on", "off"}
  /\ DisconnectServer(o, "drop", s, [row EXCEPT ![s] = "off"])
  /\ UNCHANGED boot

\* The reconnect and delete routes look for the row first.
ReconnectOrDelete(o, s, k) ==
  /\ Free(o) /\ k \in {"reconnect", "delete"} /\ row[s] \in {"on", "off"}
  /\ DisconnectServer(o, k, s, row)
  /\ UNCHANGED boot

\* The reconnect action of the manage_mcp tool takes any id, and
\* disconnect_all every id with a session, one after the other.
DropServer(o, s, k) ==
  /\ Free(o)
  /\ k = "tool" \/ (k = "drop" /\ session[s] # NoLink)
  /\ DisconnectServer(o, k, s, row)
  /\ UNCHANGED boot

\* _connect_stdio or _connect_sse succeeds: the link is registered over
\* whatever was there.  A call that reconnected is made once more.
ConnectSucceeds(o) ==
  LET s == srv[o]
  IN /\ pc[o] = "opening"
     /\ link' = [link EXCEPT ![at[o]] = "live"]
     /\ session' = [session EXCEPT ![s] = at[o]]
     /\ stack' = [stack EXCEPT ![s] = at[o]]
     /\ conn' = [conn EXCEPT ![s] = "connected"]
     /\ cache' = {}
     /\ IF kind[o] = "call" THEN Suspend(o, "call", s, "retrying", at[o]) ELSE Idle(o)
     /\ cut' = cut \ {s}
     /\ UNCHANGED <<row, boot, connTask, of, made, cancelled, overlapped, dropped>>

\* It raises, or the 20 s of a startup connect are over: the finally clause
\* closes the stack that was not registered.
ConnectFails(o) ==
  /\ pc[o] = "opening"
  /\ link' = [link EXCEPT ![at[o]] = "closed"]
  /\ pc' = [pc EXCEPT ![o] = "failing"]
  /\ UNCHANGED <<row, boot, regVars, of, made, cancelled, kind, srv, at, cache, histVars>>

\* Mutant: the connects of the startup have no time limit.
StartupTimeoutNever(o) == FALSE

StartupTimeout(o) ==
  /\ pc[o] = "opening" /\ kind[o] = "startup"
  /\ link' = [link EXCEPT ![at[o]] = "closed"]
  /\ pc' = [pc EXCEPT ![o] = "expiring"]
  /\ UNCHANGED <<row, boot, regVars, of, made, cancelled, kind, srv, at, cache, histVars>>

\* The status is published after that.  Only an error counts as a change.
FailureEnds(o) ==
  /\ pc[o] \in {"failing", "expiring"}
  /\ conn' = [conn EXCEPT ![srv[o]] = IF pc[o] = "failing" THEN "error" ELSE "timeout"]
  /\ cache' = IF pc[o] = "failing" THEN {} ELSE cache
  /\ Idle(o)
  /\ UNCHANGED <<row, boot, session, stack, connTask, linkVars, cancelled, histVars>>

\* _start_http_connect: the task is done, or eight seconds are over.
WaitEnds(o) ==
  /\ pc[o] = "waiting" /\ link[at[o]] \notin Busy
  /\ cache' = IF link[at[o]] = "abandoned" THEN cache ELSE {}
  /\ Idle(o)
  /\ UNCHANGED <<row, boot, regVars, linkVars, cancelled, histVars>>

\* Mutant: whether the task is done is not checked.
WaitTimesOutBlindly(o) ==
  /\ pc[o] = "waiting"
  /\ conn' = [conn EXCEPT ![srv[o]] = "needs_auth"]
  /\ Idle(o)
  /\ UNCHANGED <<row, boot, session, stack, connTask, linkVars, cancelled, cache, histVars>>

WaitTimesOut(o) ==
  /\ pc[o] = "waiting" /\ link[at[o]] \in Busy
  /\ conn' = [conn EXCEPT ![srv[o]] = "needs_auth"]
  /\ Idle(o)
  /\ UNCHANGED <<row, boot, session, stack, connTask, linkVars, cancelled, cache, histVars>>

-----------------------------------------------------------------------------
(* _connect_http, the background connect. *)

Background(l) == link[l] \in Busy /\ of[l] \in Http /\ l \notin cancelled

\* redirect_handler and callback_handler: the flow waits for the browser.
Redirect(l) ==
  /\ Background(l) /\ link[l] = "opening"
  /\ link' = [link EXCEPT ![l] = "auth"]
  /\ conn' = [conn EXCEPT ![of[l]] = "needs_auth"]
  /\ UNCHANGED <<row, boot, session, stack, connTask, of, made, cancelled, opVars, cache, histVars>>

\* resolve_pending, from the callback route or the pasted URL.
Authorise(l) ==
  /\ Background(l) /\ link[l] = "auth"
  /\ link' = [link EXCEPT ![l] = "granted"]
  /\ UNCHANGED <<row, boot, regVars, of, made, cancelled, opVars, cache, histVars>>

\* Mutant: _generation stays the same.
HttpConnectsUnseen(l) ==
  LET s == of[l]
  IN /\ Background(l) /\ link[l] # "auth"
     /\ link' = [link EXCEPT ![l] = "live"]
     /\ session' = [session EXCEPT ![s] = l]
     /\ stack' = [stack EXCEPT ![s] = l]
     /\ conn' = [conn EXCEPT ![s] = "connected"]
     /\ cut' = cut \ {s}
     /\ UNCHANGED <<row, boot, connTask, of, made, cancelled, opVars, cache, overlapped, dropped>>

HttpConnects(l) ==
  LET s == of[l]
  IN /\ Background(l) /\ link[l] # "auth"
     /\ link' = [link EXCEPT ![l] = "live"]
     /\ session' = [session EXCEPT ![s] = l]
     /\ stack' = [stack EXCEPT ![s] = l]
     /\ conn' = [conn EXCEPT ![s] = "connected"]
     /\ cache' = {}
     /\ cut' = cut \ {s}
     /\ UNCHANGED <<row, boot, connTask, of, made, cancelled, opVars, overlapped, dropped>>

\* It raises.  Its stack is not closed.
HttpFails(l) ==
  /\ Background(l) /\ link[l] # "auth"
  /\ link' = [link EXCEPT ![l] = "abandoned"]
  /\ conn' = [conn EXCEPT ![of[l]] = "error"]
  /\ UNCHANGED <<row, boot, session, stack, connTask, of, made, cancelled, opVars, cache, histVars>>

\* AUTH_WAIT_SECONDS are over.
AuthTimeout(l) ==
  /\ Background(l) /\ link[l] = "auth"
  /\ link' = [link EXCEPT ![l] = "abandoned"]
  /\ conn' = [conn EXCEPT ![of[l]] = "error"]
  /\ UNCHANGED <<row, boot, session, stack, connTask, of, made, cancelled, opVars, cache, histVars>>

\* The cancellation arrives: it publishes nothing.
HttpCancelled(l) ==
  /\ l \in cancelled
  /\ cancelled' = cancelled \ {l}
  /\ link' = [link EXCEPT ![l] = "abandoned"]
  /\ UNCHANGED <<row, boot, regVars, of, made, opVars, cache, histVars>>

-----------------------------------------------------------------------------
(* Tool calls and prompts. *)

\* call_tool of a built-in server.  Without a session it returns an error at
\* once; of another server it only reads the session.
CallTool(o, s) ==
  /\ Free(o) /\ s \in Builtin /\ session[s] # NoLink
  /\ Suspend(o, "call", s, "calling", session[s])
  /\ UNCHANGED <<row, boot, regVars, linkVars, cancelled, cache, histVars>>

CallEnds(o) ==
  /\ pc[o] \in {"calling", "retrying"}
  /\ Idle(o)
  /\ UNCHANGED <<row, boot, regVars, linkVars, cancelled, cache, histVars>>

\* The first call raises, because the server's process has died or its
\* session was closed: _reconnect_builtin.
CallRaises(o) ==
  /\ pc[o] = "calling"
  /\ DisconnectServer(o, "call", srv[o], row)
  /\ UNCHANGED boot

\* What get_tool_descriptions_for_prompt lists.
Described == {<<s, session[s]>> : s \in {x \in Servers \ Builtin : session[x] # NoLink}}

\* It computes the text anew; an empty one is not cached.
DescribeTools ==
  /\ cache = {}
  /\ cache' = Described
  /\ UNCHANGED <<row, boot, regVars, linkVars, cancelled, opVars, histVars>>

-----------------------------------------------------------------------------
Request(o, s) ==
  \/ StartupConnect(o, s) \/ EnableServer(o, s) \/ DisableServer(o, s)
  \/ \E k \in {"reconnect", "delete"} : ReconnectOrDelete(o, s, k)
  \/ \E k \in {"tool", "drop"} : DropServer(o, s, k)
  \/ CallTool(o, s)

Resume(o) ==
  \/ CloseEnds(o) \/ CloseCancelled(o) \/ ConnectSucceeds(o) \/ ConnectFails(o) \/ StartupTimeout(o)
  \/ FailureEnds(o) \/ WaitEnds(o) \/ WaitTimesOut(o) \/ CallEnds(o) \/ CallRaises(o)

LinkStep(l) ==
  \/ Redirect(l) \/ Authorise(l) \/ HttpConnects(l) \/ HttpFails(l)
  \/ AuthTimeout(l) \/ HttpCancelled(l)

Next ==
  \/ \E o \in Ops, s \in Servers : Request(o, s)
  \/ \E o \in Ops : Resume(o)
  \/ \E l \in Links : LinkStep(l)
  \/ DescribeTools

Spec == Init /\ [][Next]_vars

\* Timers fire, closing a stack ends, a cancellation arrives and a waiter is
\* woken.  A server need not answer, and a user need not authorise.
Fairness ==
  /\ \A o \in Ops :
       /\ WF_vars(CloseEnds(o)) /\ WF_vars(StartupTimeout(o)) /\ WF_vars(FailureEnds(o))
       /\ WF_vars(WaitEnds(o) \/ WaitTimesOut(o))
  /\ \A l \in Links : WF_vars(AuthTimeout(l)) /\ WF_vars(HttpCancelled(l))

FairSpec == Spec /\ Fairness

-----------------------------------------------------------------------------
(* Properties. *)

\* The types of the registries, the links and the operations.
TypeOK ==
  /\ row \in [Servers -> {"none", "new", "on", "off", "gone"}] /\ boot \subseteq Servers
  /\ session \in [Servers -> Links \cup {NoLink}] /\ stack \in [Servers -> Links \cup {NoLink}]
  /\ conn \in [Servers -> {"none", "connecting", "needs_auth", "connected", "error", "timeout"}]
  /\ connTask \in [Servers -> Links \cup {NoLink}]
  /\ link \in [Links -> Busy \cup {"unused", "live", "closed", "abandoned"}]
  /\ of \in [Links -> Servers \cup {NoServer}] /\ made \in 0 .. MaxLinks
  /\ cancelled \subseteq Links
  /\ kind \in [Ops -> {"none", "connect", "startup", "reconnect", "delete", "tool",
                       "drop", "call"}]
  /\ srv \in [Ops -> Servers \cup {NoServer}]
  /\ pc \in [Ops -> {"idle", "closing", "opening", "failing", "expiring", "waiting",
                     "calling", "retrying"}]
  /\ at \in [Ops -> Links \cup {NoLink}]
  /\ cache \subseteq (Servers \X Links)
  /\ overlapped \subseteq Servers /\ dropped \subseteq Servers /\ cut \subseteq Servers

\* The cached prompt lists the tools of the sessions that are registered now:
\* every path that registers or removes one changes _generation in the same
\* step, the background connect that ends long after connect_server included.
PromptIsCurrent == cache # {} => cache = Described

\* A disconnect of s awaits the close of its stack.
Closing(s) == \E o \in Ops : srv[o] = s /\ pc[o] = "closing"

\* A disconnect of s has begun and gone no further: it awaits the close, or was
\* cancelled there, and since then s was neither disconnected nor connected.
HalfWay(s) == Closing(s) \/ s \in cut

\* No leaked connection: an open link is in _stacks, where a disconnect finds
\* it, however connects, disconnects, failed calls and time-outs interleave,
\* unless a connect began while another one was under way or a connection
\* stood.  A session never outlives its link's place there without somebody
\* closing it.
LinksAreOwned ==
  /\ \A l \in Links : link[l] = "live" => stack[of[l]] = l \/ of[l] \in overlapped
  /\ \A s \in Servers \ overlapped :
       session[s] \notin {NoLink, stack[s]} => HalfWay(s)

\* "connected" is shown exactly for the servers whose tools can be called,
\* under the same condition, except where a disconnect is half-way.
StatusIsTrue ==
  \A s \in Servers \ overlapped : HalfWay(s) \/ (conn[s] = "connected" <=> session[s] # NoLink)

\* A background connect that was under way when its server was disconnected,
\* disabled or deleted does not bring the server back, even if the user
\* authorises it in time.
DisconnectIsFinal ==
  \A s \in (Http \cap dropped) \ overlapped :
    session[s] # NoLink => HalfWay(s)

\* The startup ends, though servers need not answer, and no flow waits for ever
\* for the authorisation that a user need not give.
WaitsEnd ==
  /\ (\E o \in Ops : kind[o] = "startup") ~> (\A o \in Ops : kind[o] # "startup")
  /\ \A l \in Links : link[l] = "auth" ~> link[l] # "auth"

=============================================================================
