--------------------------- MODULE McpManagerProofs ---------------------------
(***************************************************************************)
(* The safety of the manager of MCP connections, for any number of         *)
(* servers, operations and connect attempts.  The cached prompt is current *)
(* by itself.  That open links are in _stacks, that the status shown is    *)
(* true and that a disconnect is final rest on one inductive invariant: a  *)
(* server on which no two connects overlapped has at most one attempt under*)
(* way, none beside a connection that stands, and the cancellation of a    *)
(* background attempt is on its way as soon as its server is disconnected. *)
(***************************************************************************)
EXTENDS McpManager, TLAPS

-----------------------------------------------------------------------------
(* The inductive invariant. *)

\* The attempt an operation carries out or waits for is one at its server.
OpInv(o) ==
  /\ pc[o] # "idle" => srv[o] \in Servers
  /\ pc[o] = "opening" =>
       at[o] \in Links /\ link[at[o]] = "opening" /\ of[at[o]] = srv[o] /\ srv[o] \notin Http
  /\ pc[o] = "waiting" => at[o] \in Links /\ of[at[o]] = srv[o] /\ link[at[o]] # "unused"
  /\ pc[o] \in {"calling", "retrying"} => at[o] \in Links

\* No two operations carry out the same attempt.
Alone(o, p) == pc[o] = "opening" /\ pc[p] = "opening" /\ at[o] = at[p] => o = p

\* The attempts made are those up to made; only background ones are cancelled
\* while they are under way; one that succeeded is in _stacks.
LinkInv(l) ==
  /\ link[l] = "unused" <=> l > made
  /\ link[l] # "unused" => of[l] \in Servers
  /\ l \in cancelled => link[l] \in Busy /\ of[l] \in Http
  /\ link[l] = "live" => stack[of[l]] = l \/ of[l] \in overlapped

\* _stacks and _connect_tasks hold attempts at the server they are kept for.
StackInv(s) ==
  /\ stack[s] # NoLink => link[stack[s]] = "live" /\ of[stack[s]] = s
  /\ connTask[s] # NoLink => link[connTask[s]] # "unused" /\ of[connTask[s]] = s /\ s \in Http

Pending(l, s) == link[l] \in Busy /\ of[l] = s
Fails(o, s) == pc[o] \in {"failing", "expiring"} /\ srv[o] = s

\* An attempt that is under way is alone at its server, and a disconnect of the
\* server finds it in _connect_tasks or has cancelled it.
AttemptInv(s) ==
  /\ \A l \in Links : Pending(l, s) =>
       /\ stack[s] = NoLink
       /\ \A m \in Links : Pending(m, s) => m = l
       /\ \A o \in Ops : ~Fails(o, s)
       /\ s \in Http => l \in cancelled \/ (l = connTask[s] /\ s \notin dropped)
  /\ \A o \in Ops : Fails(o, s) => stack[s] = NoLink

\* Sessions, stacks and status agree, and a disconnected server stays so,
\* except while a disconnect is half-way.
SessionInv(s) ==
  \/ HalfWay(s)
  \/ /\ session[s] \in {NoLink, stack[s]}
     /\ conn[s] = "connected" <=> session[s] # NoLink
     /\ s \in Http \cap dropped => session[s] = NoLink

Parts ==
  /\ \A o \in Ops : OpInv(o)
  /\ \A o, p \in Ops : Alone(o, p)
  /\ \A l \in Links : LinkInv(l)
  /\ \A s \in Servers : StackInv(s)

Shape == TypeOK /\ Parts

Own(s) == s \in overlapped \/ (AttemptInv(s) /\ SessionInv(s))

Inv == Shape /\ \A s \in Servers : Own(s)

\* Zero is no link.
LEMMA LinkNumbers == Links \subseteq Nat /\ NoLink \notin Links /\ Busy \subseteq {"opening", "auth", "granted"}
BY ConstantsAssumption DEF Links, NoLink, Busy

-----------------------------------------------------------------------------
(* Types. *)

LEMMA TypeInit == Init => TypeOK
<1> SUFFICES ASSUME Init PROVE TypeOK
  OBVIOUS
<1>1. row \in [Servers -> {"none", "new", "on", "off", "gone"}] /\ boot \subseteq Servers
  BY DEF Init
<1>2. made \in 0 .. MaxLinks
  BY ConstantsAssumption DEF Init
<1>3. QED BY <1>1, <1>2 DEF Init, TypeOK

\* The types of what an operation changes, and of what connect_server does.
OpTypesOK ==
  /\ kind \in [Ops -> {"none", "connect", "startup", "reconnect", "delete", "tool", "drop", "call"}]
  /\ srv \in [Ops -> Servers \cup {NoServer}] /\ at \in [Ops -> Links \cup {NoLink}]
  /\ pc \in [Ops -> {"idle", "closing", "opening", "failing", "expiring", "waiting", "calling", "retrying"}]

ConnectTypesOK ==
  /\ OpTypesOK
  /\ conn \in [Servers -> {"none", "connecting", "needs_auth", "connected", "error", "timeout"}]
  /\ connTask \in [Servers -> Links \cup {NoLink}]
  /\ link \in [Links -> Busy \cup {"unused", "live", "closed", "abandoned"}]
  /\ of \in [Links -> Servers \cup {NoServer}] /\ made \in 0 .. MaxLinks
  /\ overlapped \subseteq Servers /\ dropped \subseteq Servers

\* connect_server keeps the types of what it changes.
LEMMA ConnectTypes ==
  ASSUME TypeOK, NEW o \in Ops, NEW s \in Servers, NEW status, NEW tasks, NEW drops,
         NEW k \in {"connect", "startup", "reconnect", "tool", "call"},
         status \in {"none", "connecting", "needs_auth", "connected", "error", "timeout"},
         tasks \in [Servers -> Links \cup {NoLink}], drops \subseteq Servers,
         ConnectServer(o, k, s, status, tasks, drops)
  PROVE  ConnectTypesOK'
<1> DEFINE l == made + 1
<1> USE DEF TypeOK
<1>1. l \in Links /\ made' = l /\ l \in 0 .. MaxLinks
  BY ConstantsAssumption DEF ConnectServer, Links
<1>2. link' = [link EXCEPT ![l] = "opening"] /\ of' = [of EXCEPT ![l] = s]
  BY DEF ConnectServer
<1>3. /\ conn' = [conn EXCEPT ![s] = IF s \in Http THEN "connecting" ELSE status]
      /\ connTask' = IF s \in Http THEN [tasks EXCEPT ![s] = l] ELSE tasks
      /\ overlapped' = IF Taken(s) THEN overlapped \cup {s} ELSE overlapped
      /\ dropped' = drops \ {s}
  BY DEF ConnectServer
<1>4. /\ kind' = [kind EXCEPT ![o] = k] /\ srv' = [srv EXCEPT ![o] = s]
      /\ pc' = [pc EXCEPT ![o] = IF s \in Http THEN "waiting" ELSE "opening"] /\ at' = [at EXCEPT ![o] = l]
  BY DEF ConnectServer, Suspend
<1> HIDE DEF l
<1>5. (link \in [Links -> Busy \cup {"unused", "live", "closed", "abandoned"}])'
  BY <1>1, <1>2 DEF Busy
<1>6. (of \in [Links -> Servers \cup {NoServer}])'
  BY <1>1, <1>2
<1>7. (conn \in [Servers -> {"none", "connecting", "needs_auth", "connected", "error", "timeout"}])'
  BY <1>3
<1>8. (connTask \in [Servers -> Links \cup {NoLink}])'
  BY <1>1, <1>3
<1>9. (kind \in [Ops -> {"none", "connect", "startup", "reconnect", "delete", "tool", "drop", "call"}])'
  BY <1>4
<1>10. (srv \in [Ops -> Servers \cup {NoServer}])' /\ (at \in [Ops -> Links \cup {NoLink}])'
  BY <1>1, <1>4
<1>11. (pc \in [Ops -> {"idle", "closing", "opening", "failing", "expiring", "waiting", "calling",
                        "retrying"}])'
  BY <1>4
<1>12. (made \in 0 .. MaxLinks)'
  BY <1>1
<1>13. (overlapped \subseteq Servers)' /\ (dropped \subseteq Servers)'
  BY <1>3
<1>14. QED BY <1>5, <1>6, <1>7, <1>8, <1>9, <1>10, <1>11, <1>12, <1>13 DEF ConnectTypesOK, OpTypesOK

\* Idle and Suspend.
LEMMA IdleTypes ==
  ASSUME TypeOK, NEW o \in Ops, Idle(o)
  PROVE  OpTypesOK'
BY DEF TypeOK, Idle, OpTypesOK

LEMMA SuspendTypes ==
  ASSUME TypeOK, NEW o \in Ops, NEW s \in Servers, NEW l \in Links \cup {NoLink},
         NEW k \in {"connect", "startup", "reconnect", "delete", "tool", "drop", "call"},
         NEW p \in {"idle", "closing", "opening", "failing", "expiring", "waiting", "calling", "retrying"},
         Suspend(o, k, s, p, l)
  PROVE  OpTypesOK'
BY DEF TypeOK, Suspend, OpTypesOK

Statuses == {"none", "connecting", "needs_auth", "connected", "error", "timeout"}

\* The end of a disconnect keeps the types of what it changes.
LEMMA DisconnectedTypes ==
  ASSUME TypeOK, NEW o \in Ops, NEW s \in Servers, NEW rows, NEW tasks, NEW drops,
         NEW k \in {"reconnect", "delete", "tool", "drop", "call"},
         rows \in [Servers -> {"none", "new", "on", "off", "gone"}],
         tasks \in [Servers -> Links \cup {NoLink}], drops \subseteq Servers,
         Disconnected(o, k, s, rows, tasks, drops),
         UNCHANGED boot, cancelled' \subseteq Links, (stack \in [Servers -> Links \cup {NoLink}])'
  PROVE  TypeOK'
<1>1. /\ (session \in [Servers -> Links \cup {NoLink}])' /\ (cache \subseteq (Servers \X Links))'
      /\ (cut \subseteq Servers)'
  BY DEF Disconnected, TypeOK
<1>2. CASE ConnectServer(o, k, s, "none", tasks, drops) /\ row' = rows /\ k \in {"reconnect", "tool", "call"}
  <2>1. ConnectTypesOK'
    BY <1>2, ConnectTypes
  <2>2. QED BY <1>1, <1>2, <2>1 DEF TypeOK, ConnectTypesOK, OpTypesOK
<1>3. CASE /\ conn' = [conn EXCEPT ![s] = "none"] /\ connTask' = tasks /\ dropped' = drops
           /\ row' = IF k = "delete" THEN [rows EXCEPT ![s] = "gone"] ELSE rows
           /\ Idle(o) /\ UNCHANGED <<linkVars, overlapped>>
  <2>1. (row \in [Servers -> {"none", "new", "on", "off", "gone"}])'
    BY <1>3
  <2>2. (conn \in [Servers -> Statuses])'
    BY <1>3 DEF TypeOK, Statuses
  <2>3. OpTypesOK'
    BY <1>3, IdleTypes
  <2>4. QED BY <1>1, <1>3, <2>1, <2>2, <2>3 DEF TypeOK, linkVars, Statuses, OpTypesOK
<1>4. QED BY <1>2, <1>3 DEF Disconnected

LEMMA DisconnectTypes ==
  ASSUME TypeOK, NEW o \in Ops, NEW s \in Servers, NEW rows,
         NEW k \in {"reconnect", "delete", "tool", "drop", "call"},
         rows \in [Servers -> {"none", "new", "on", "off", "gone"}],
         DisconnectServer(o, k, s, rows), UNCHANGED boot
  PROVE  TypeOK'
<1>1. PICK tasks : tasks = [connTask EXCEPT ![s] = NoLink]
  OBVIOUS
<1>2. tasks \in [Servers -> Links \cup {NoLink}]
  BY <1>1 DEF TypeOK
<1>3. (stack \in [Servers -> Links \cup {NoLink}])' /\ cancelled' \subseteq Links
  BY DEF DisconnectServer, TypeOK
<1>4. CASE stack[s] = NoLink /\ Disconnected(o, k, s, rows, tasks, dropped \cup {s})
  <2>1. dropped \cup {s} \subseteq Servers
    BY DEF TypeOK
  <2>2. QED BY <1>2, <1>3, <1>4, <2>1, DisconnectedTypes
<1>5. CASE /\ stack[s] # NoLink /\ link' = [link EXCEPT ![stack[s]] = "closed"]
           /\ connTask' = tasks /\ dropped' = dropped \cup {s} /\ Suspend(o, k, s, "closing", NoLink)
           /\ row' = rows /\ UNCHANGED <<session, conn, of, made, cache, overlapped, cut>>
  <2>1. (link \in [Links -> Busy \cup {"unused", "live", "closed", "abandoned"}])'
    BY <1>5 DEF TypeOK
  <2>2. (dropped \subseteq Servers)' /\ (connTask \in [Servers -> Links \cup {NoLink}])'
    BY <1>2, <1>5 DEF TypeOK
  <2>3. OpTypesOK'
    BY <1>5, SuspendTypes
  <2>4. QED BY <1>3, <1>5, <2>1, <2>2, <2>3 DEF TypeOK, OpTypesOK
<1>6. QED BY <1>1, <1>4, <1>5 DEF DisconnectServer

\* Where an attempt of the server s changes.
LEMMA LinkTypes ==
  ASSUME TypeOK, NEW l \in Links, NEW s \in Servers, NEW x \in Busy \cup {"live", "closed", "abandoned"},
         NEW y \in Statuses
  PROVE  /\ [link EXCEPT ![l] = x] \in [Links -> Busy \cup {"unused", "live", "closed", "abandoned"}]
         /\ [conn EXCEPT ![s] = y] \in [Servers -> Statuses]
         /\ [session EXCEPT ![s] = l] \in [Servers -> Links \cup {NoLink}]
         /\ [stack EXCEPT ![s] = l] \in [Servers -> Links \cup {NoLink}]
BY DEF TypeOK, Statuses

LEMMA RequestTypes ==
  ASSUME Shape, NEW o \in Ops, NEW s \in Servers, Request(o, s)
  PROVE  TypeOK'
<1> USE DEF Statuses
<1>1. TypeOK
  BY DEF Shape, Parts
<1>2. /\ \A x \in {"on", "off"} : [row EXCEPT ![s] = x] \in [Servers -> {"none", "new", "on", "off", "gone"}]
      /\ row \in [Servers -> {"none", "new", "on", "off", "gone"}] /\ conn[s] \in Statuses
      /\ connTask \in [Servers -> Links \cup {NoLink}] /\ dropped \subseteq Servers
  BY <1>1 DEF TypeOK
<1>3. CASE StartupConnect(o, s)
  <2>1. PICK k \in {"connect", "startup"} : ConnectServer(o, k, s, conn[s], connTask, dropped)
    BY <1>3 DEF StartupConnect
  <2>2. boot' \subseteq Servers /\ UNCHANGED <<row, session, stack, cancelled, cache, cut>>
    BY <1>1, <1>3 DEF StartupConnect, TypeOK
  <2>3. ConnectTypesOK'
    BY <1>1, <1>2, <2>1, ConnectTypes
  <2>4. QED BY <1>1, <2>2, <2>3 DEF TypeOK, ConnectTypesOK, OpTypesOK
<1>4. CASE EnableServer(o, s)
  <2>1. ConnectServer(o, "connect", s, conn[s], connTask, dropped)
    BY <1>4 DEF EnableServer
  <2>2. /\ (row \in [Servers -> {"none", "new", "on", "off", "gone"}])'
        /\ UNCHANGED <<boot, session, stack, cancelled, cache, cut>>
    BY <1>2, <1>4 DEF EnableServer
  <2>3. ConnectTypesOK'
    BY <1>1, <1>2, <2>1, ConnectTypes
  <2>4. QED BY <1>1, <2>2, <2>3 DEF TypeOK, ConnectTypesOK, OpTypesOK
<1>5. CASE DisableServer(o, s)
  BY <1>1, <1>2, <1>5, DisconnectTypes DEF DisableServer
<1>6. CASE \E k \in {"reconnect", "delete"} : ReconnectOrDelete(o, s, k)
  BY <1>1, <1>2, <1>6, DisconnectTypes DEF ReconnectOrDelete
<1>7. CASE \E k \in {"tool", "drop"} : DropServer(o, s, k)
  BY <1>1, <1>2, <1>7, DisconnectTypes DEF DropServer
<1>8. CASE CallTool(o, s)
  <2>1. Suspend(o, "call", s, "calling", session[s]) /\ session[s] \in Links \cup {NoLink}
        /\ UNCHANGED <<row, boot, regVars, linkVars, cancelled, cache, histVars>>
    BY <1>1, <1>8 DEF CallTool, TypeOK
  <2>2. OpTypesOK'
    BY <1>1, <2>1, SuspendTypes
  <2>3. QED BY <1>1, <2>1, <2>2 DEF TypeOK, OpTypesOK, regVars, linkVars, histVars
<1>9. QED BY <1>3, <1>4, <1>5, <1>6, <1>7, <1>8 DEF Request

LEMMA ResumeTypes ==
  ASSUME Shape, NEW o \in Ops, Resume(o)
  PROVE  TypeOK'
<1> USE DEF Statuses, regVars, linkVars, opVars, histVars
<1>1. TypeOK
  BY DEF Shape, Parts
<1>2. /\ row \in [Servers -> {"none", "new", "on", "off", "gone"}]
      /\ connTask \in [Servers -> Links \cup {NoLink}] /\ dropped \subseteq Servers
      /\ kind[o] \in {"none", "connect", "startup", "reconnect", "delete", "tool", "drop", "call"}
  BY <1>1 DEF TypeOK
<1>3. pc[o] # "idle"
  BY DEF Resume, CloseEnds, CloseCancelled, ConnectSucceeds, ConnectFails, StartupTimeout, FailureEnds,
         WaitEnds, WaitTimesOut, CallEnds, CallRaises
<1>4. PICK s \in Servers : s = srv[o]
  BY <1>3 DEF Shape, Parts, OpInv
<1>5. pc[o] \in {"opening", "waiting", "calling", "retrying"} => at[o] \in Links
  BY DEF Shape, Parts, OpInv
<1>6. CASE CloseEnds(o)
  <2>1. Disconnected(o, kind[o], s, row, connTask, dropped) /\ UNCHANGED <<boot, stack, cancelled>>
    BY <1>4, <1>6 DEF CloseEnds
  <2>2. kind[o] \in {"reconnect", "delete", "tool", "drop", "call"}
    BY <2>1 DEF Disconnected
  <2>3. cancelled' \subseteq Links /\ (stack \in [Servers -> Links \cup {NoLink}])'
    BY <1>1, <2>1 DEF TypeOK
  <2>4. QED BY <1>1, <1>2, <2>1, <2>2, <2>3, DisconnectedTypes
<1>7. CASE ConnectSucceeds(o)
  <2>1. /\ pc[o] = "opening" /\ link' = [link EXCEPT ![at[o]] = "live"]
        /\ session' = [session EXCEPT ![s] = at[o]] /\ stack' = [stack EXCEPT ![s] = at[o]]
        /\ conn' = [conn EXCEPT ![s] = "connected"] /\ cache' = {}
        /\ Suspend(o, "call", s, "retrying", at[o]) \/ Idle(o)
        /\ UNCHANGED <<row, boot, connTask, of, made, cancelled, overlapped, dropped>> /\ cut' = cut \ {s}
    BY <1>4, <1>7 DEF ConnectSucceeds
  <2>2. OpTypesOK'
    BY <1>1, <1>5, <2>1, IdleTypes, SuspendTypes
  <2>3. QED BY <1>1, <1>5, <2>1, <2>2, LinkTypes DEF TypeOK, OpTypesOK
<1>8. CASE ConnectFails(o) \/ StartupTimeout(o)
  <2>1. /\ pc[o] = "opening" /\ link' = [link EXCEPT ![at[o]] = "closed"]
        /\ pc' = [pc EXCEPT ![o] = "failing"] \/ pc' = [pc EXCEPT ![o] = "expiring"]
        /\ UNCHANGED <<row, boot, regVars, of, made, cancelled, kind, srv, at, cache, histVars>>
    BY <1>8 DEF ConnectFails, StartupTimeout
  <2>2. (pc \in [Ops -> {"idle", "closing", "opening", "failing", "expiring", "waiting", "calling",
                         "retrying"}])'
    BY <1>1, <2>1 DEF TypeOK
  <2>3. QED BY <1>1, <1>4, <1>5, <2>1, <2>2, LinkTypes DEF TypeOK
<1>9. CASE FailureEnds(o) \/ WaitEnds(o) \/ WaitTimesOut(o) \/ CallEnds(o)
  <2>1. /\ Idle(o) /\ UNCHANGED <<row, boot, session, stack, connTask, linkVars, cancelled, histVars>>
        /\ UNCHANGED conn \/ \E y \in Statuses : conn' = [conn EXCEPT ![s] = y]
        /\ UNCHANGED cache \/ cache' = {}
    BY <1>4, <1>9 DEF FailureEnds, WaitEnds, WaitTimesOut, CallEnds
  <2>2. conn' \in [Servers -> Statuses]
    BY <1>1, <2>1 DEF TypeOK
  <2>3. OpTypesOK'
    BY <1>1, <2>1, IdleTypes
  <2>4. QED BY <1>1, <2>1, <2>2, <2>3 DEF TypeOK, OpTypesOK
<1>10. CASE CallRaises(o)
  BY <1>1, <1>2, <1>4, <1>10, DisconnectTypes DEF CallRaises
<1>11. CASE CloseCancelled(o)
  <2>1. /\ Idle(o) /\ cut' = cut \cup {s}
        /\ UNCHANGED <<row, boot, session, stack, conn, connTask, link, of, made, cancelled, cache, overlapped,
                       dropped>>
    BY <1>4, <1>11 DEF CloseCancelled
  <2>2. OpTypesOK'
    BY <1>1, <2>1, IdleTypes
  <2>3. QED BY <1>1, <2>1, <2>2 DEF TypeOK, OpTypesOK
<1>12. QED BY <1>6, <1>7, <1>8, <1>9, <1>10, <1>11 DEF Resume

LEMMA LinkStepTypes ==
  ASSUME Shape, NEW l \in Links, LinkStep(l)
  PROVE  TypeOK'
<1> USE DEF Statuses, regVars, linkVars, opVars, histVars
<1>1. TypeOK
  BY DEF Shape, Parts
<1>2. CASE HttpCancelled(l)
  BY <1>1, <1>2 DEF HttpCancelled, TypeOK
<1>3. CASE ~HttpCancelled(l)
  <2>1. PICK s \in Servers : s = of[l]
    <3>1. of[l] \in Http
      BY <1>3 DEF LinkStep, Redirect, Authorise, HttpConnects, HttpFails, AuthTimeout, Background
    <3>2. QED BY <3>1, ConstantsAssumption
  <2>2. \E x \in Busy \cup {"live", "closed", "abandoned"} : link' = [link EXCEPT ![l] = x]
    BY <1>3 DEF LinkStep, Redirect, Authorise, HttpConnects, HttpFails, AuthTimeout, Busy
  <2>3. /\ UNCHANGED conn \/ \E y \in Statuses : conn' = [conn EXCEPT ![s] = y]
        /\ UNCHANGED session \/ session' = [session EXCEPT ![s] = l]
        /\ UNCHANGED stack \/ stack' = [stack EXCEPT ![s] = l]
        /\ UNCHANGED cache \/ cache' = {}
        /\ UNCHANGED cut \/ cut' = cut \ {s}
        /\ UNCHANGED <<row, boot, connTask, of, made, cancelled, opVars, overlapped, dropped>>
    BY <1>3, <2>1 DEF LinkStep, Redirect, Authorise, HttpConnects, HttpFails, AuthTimeout
  <2>4. (link \in [Links -> Busy \cup {"unused", "live", "closed", "abandoned"}])'
    BY <1>1, <2>2, LinkTypes
  <2>5. (conn \in [Servers -> Statuses])'
    BY <1>1, <2>3 DEF TypeOK
  <2>6. (session \in [Servers -> Links \cup {NoLink}])' /\ (stack \in [Servers -> Links \cup {NoLink}])'
    BY <1>1, <2>3 DEF TypeOK
  <2>7. QED BY <1>1, <2>3, <2>4, <2>5, <2>6 DEF TypeOK
<1>4. QED BY <1>2, <1>3

LEMMA TypeStep ==
  ASSUME Shape, [Next]_vars
  PROVE  TypeOK'
<1>1. TypeOK
  BY DEF Shape, Parts
<1>2. CASE DescribeTools
  <2>1. Described \subseteq (Servers \X Links)
    BY <1>1 DEF Described, TypeOK
  <2>2. QED BY <1>1, <1>2, <2>1 DEF DescribeTools, TypeOK, regVars, linkVars, opVars, histVars
<1>3. CASE UNCHANGED vars
  BY <1>1, <1>3 DEF TypeOK, vars, regVars, linkVars, opVars, histVars
<1>4. QED BY <1>2, <1>3, RequestTypes, ResumeTypes, LinkStepTypes DEF Next

-----------------------------------------------------------------------------
(* The prompt. *)

\* The cached prompt lists the tools of the sessions registered now, whichever
\* operations, background connects and failed calls interleave: each step that
\* registers or removes a session drops it.
THEOREM PromptIsCurrentHolds == Spec => []PromptIsCurrent
<1> USE DEF regVars, linkVars, opVars, histVars
<1>1. Init => PromptIsCurrent
  BY DEF Init, PromptIsCurrent
<1>2. PromptIsCurrent /\ [Next]_vars => PromptIsCurrent'
  <2>1. SUFFICES ASSUME PromptIsCurrent, [Next]_vars PROVE PromptIsCurrent'
    OBVIOUS
  <2>2. ASSUME cache' = {} \/ UNCHANGED <<session, cache>> PROVE PromptIsCurrent'
    BY <2>1, <2>2 DEF PromptIsCurrent, Described
  <2>3. ASSUME NEW o \in Ops, NEW s, NEW k, NEW rows, DisconnectServer(o, k, s, rows)
        PROVE  cache' = {} \/ UNCHANGED <<session, cache>>
    BY <2>3 DEF DisconnectServer, Disconnected
  <2>4. ASSUME NEW o \in Ops, NEW s \in Servers, Request(o, s) PROVE cache' = {} \/ UNCHANGED <<session, cache>>
    BY <2>3, <2>4 DEF Request, StartupConnect, EnableServer, DisableServer, ReconnectOrDelete, DropServer, CallTool
  <2>5. ASSUME NEW o \in Ops, Resume(o) PROVE cache' = {} \/ UNCHANGED <<session, cache>>
    BY <2>3, <2>5 DEF Resume, CloseEnds, CloseCancelled, Disconnected, ConnectSucceeds, ConnectFails,
       StartupTimeout, FailureEnds, WaitEnds, WaitTimesOut, CallEnds, CallRaises
  <2>6. ASSUME NEW l \in Links, LinkStep(l) PROVE cache' = {} \/ UNCHANGED <<session, cache>>
    BY <2>6 DEF LinkStep, Redirect, Authorise, HttpConnects, HttpFails, AuthTimeout, HttpCancelled
  <2>7. CASE DescribeTools
    BY <2>7 DEF DescribeTools, PromptIsCurrent, Described
  <2>8. CASE UNCHANGED vars
    BY <2>2, <2>8 DEF vars
  <2>9. QED BY <2>1, <2>2, <2>4, <2>5, <2>6, <2>7, <2>8 DEF Next
<1>3. QED BY <1>1, <1>2, PTL DEF Spec

-----------------------------------------------------------------------------
(* The kinds of step.  Each concerns one server. *)

\* Of the operations only o goes on, and it was and is about s or idle.
Only(o, s) ==
  /\ \A p \in Ops : p # o => pc'[p] = pc[p] /\ srv'[p] = srv[p] /\ at'[p] = at[p]
  /\ pc[o] = "idle" \/ srv[o] = s
  /\ pc'[o] = "idle" \/ srv'[o] = s

\* The registries of the other servers stay.
About(s) ==
  /\ \A t \in Servers : t # s =>
       /\ session'[t] = session[t] /\ stack'[t] = stack[t]
       /\ conn'[t] = conn[t] /\ connTask'[t] = connTask[t]
       /\ t \in dropped' <=> t \in dropped
       /\ t \in cut' <=> t \in cut
  /\ overlapped \subseteq overlapped' /\ overlapped' \subseteq overlapped \cup {s}

\* The attempt l turns into x.
Turns(l, x) ==
  /\ \A m \in Links : link'[m] = IF m = l THEN x ELSE link[m]
  /\ UNCHANGED <<of, made>>

\* A cancellation is sent to background attempts of s at most.
Cancels(s) ==
  /\ cancelled \subseteq cancelled' /\ cancelled' \subseteq Links
  /\ \A m \in cancelled' : m \in cancelled \/ (Pending(m, s) /\ s \in Http)

\* The attempt l begins, with or without the end of a disconnect before it.
Begins(o, s, l) ==
  /\ Only(o, s) /\ About(s) /\ Cancels(s)
  /\ l = made + 1 /\ made' = l
  /\ \A m \in Links : link'[m] = IF m = l THEN "opening" ELSE link[m]
  /\ \A m \in Links : of'[m] = IF m = l THEN s ELSE of[m]
  /\ srv'[o] = s /\ at'[o] = l /\ pc'[o] = IF s \in Http THEN "waiting" ELSE "opening"
  /\ Taken(s) => s \in overlapped'
  /\ stack'[s] = stack[s] /\ s \notin dropped'
  /\ connTask'[s] = NoLink \/ connTask'[s] = (IF s \in Http THEN l ELSE connTask[s])
  /\ s \in Http => connTask'[s] = l
  /\ \/ session'[s] = NoLink /\ conn'[s] # "connected"
     \/ /\ pc[o] = "idle" /\ session'[s] = session[s] /\ UNCHANGED cut
        /\ conn'[s] = conn[s] \/ (conn'[s] = "connecting" /\ s \in Http)

\* A disconnect takes the stack, and awaits its close.
Closes(o, s) ==
  /\ Only(o, s) /\ About(s) /\ Cancels(s)
  /\ stack[s] # NoLink /\ Turns(stack[s], "closed") /\ stack'[s] = NoLink
  /\ pc[o] \in {"idle", "calling"} /\ pc'[o] = "closing" /\ srv'[o] = s
  /\ connTask'[s] = NoLink
  /\ UNCHANGED <<overlapped, cut>>

\* A disconnect ends.
Drops(o, s) ==
  /\ Only(o, s) /\ About(s) /\ Cancels(s)
  /\ UNCHANGED <<link, of, made, stack, overlapped>>
  /\ session'[s] = NoLink /\ conn'[s] = "none"
  /\ pc[o] \in {"idle", "calling", "closing"} /\ pc'[o] = "idle"
  /\ \/ connTask'[s] = connTask[s] /\ (s \in dropped' <=> s \in dropped)
     \/ connTask'[s] = NoLink /\ \A m \in Links : m = connTask[s] /\ Pending(m, s) => m \in cancelled'

\* A disconnect is cancelled half-way.
Cuts(o, s) ==
  /\ Only(o, s) /\ About(s)
  /\ pc[o] = "closing" /\ pc'[o] = "idle" /\ s \in cut'
  /\ UNCHANGED <<link, of, made, session, stack, conn, connTask, cancelled, overlapped, dropped>>

\* An attempt succeeds, the operation's own or a background one.
Registers(s, l) ==
  /\ About(s) /\ Pending(l, s) /\ Turns(l, "live")
  /\ session'[s] = l /\ stack'[s] = l /\ conn'[s] = "connected"
  /\ UNCHANGED <<connTask, cancelled, overlapped, dropped>>
  /\ \/ UNCHANGED <<pc, srv, at>> /\ s \in Http /\ l \notin cancelled
     \/ \E o \in Ops :
          /\ Only(o, s) /\ pc[o] = "opening" /\ at[o] = l
          /\ pc'[o] = "idle" \/ (pc'[o] = "retrying" /\ at'[o] = l)

\* The operation's attempt fails.
Breaks(o, s, l) ==
  /\ Only(o, s) /\ About(s) /\ Turns(l, "closed")
  /\ pc[o] = "opening" /\ at[o] = l /\ pc'[o] \in {"failing", "expiring"} /\ srv'[o] = s
  /\ UNCHANGED <<session, stack, conn, connTask, cancelled, overlapped, dropped, cut>>

\* An operation goes on without the registries, but for the status.
Passes(o, s) ==
  /\ Only(o, s) /\ About(s)
  /\ pc[o] # "closing" /\ (pc'[o] = "idle" \/ (pc'[o] = "calling" /\ at'[o] \in Links))
  /\ \/ conn'[s] = conn[s]
     \/ conn'[s] # "connected" /\ (Fails(o, s) \/ \E m \in Links : Pending(m, s))
  /\ UNCHANGED <<link, of, made, session, stack, connTask, cancelled, overlapped, dropped, cut>>

\* A background attempt goes on, fails, or is cancelled.
Proceeds(s, l, x) ==
  /\ About(s) /\ Pending(l, s) /\ s \in Http /\ Turns(l, x)
  /\ conn'[s] = conn[s] \/ conn'[s] # "connected"
  /\ \/ x \in Busy /\ UNCHANGED cancelled
     \/ x = "abandoned" /\ cancelled' = cancelled \ {l}
  /\ UNCHANGED <<pc, srv, at, session, stack, connTask, overlapped, dropped, cut>>

\* Nothing but the prompt changes.
Rests ==
  UNCHANGED <<link, of, made, session, stack, conn, connTask, cancelled, pc, srv, at, overlapped, dropped,
              cut>>

-----------------------------------------------------------------------------
(* Every step is of one of the kinds. *)

\* What idle and suspended operations look like.
LEMMA IdleOnly ==
  ASSUME TypeOK, NEW o \in Ops, NEW s, Idle(o), pc[o] = "idle" \/ srv[o] = s
  PROVE  Only(o, s) /\ pc'[o] = "idle"
BY DEF TypeOK, Idle, Only

LEMMA SuspendOnly ==
  ASSUME TypeOK, NEW o \in Ops, NEW s, NEW k, NEW p, NEW l, Suspend(o, k, s, p, l), pc[o] = "idle" \/ srv[o] = s
  PROVE  Only(o, s) /\ pc'[o] = p /\ srv'[o] = s /\ at'[o] = l
BY DEF TypeOK, Suspend, Only

\* A connect, after tasks, drops and a status that concern the server only.
LEMMA ConnectBegins ==
  ASSUME Shape, NEW o \in Ops, NEW s \in Servers, NEW k, NEW status, NEW tasks, NEW drops,
         ConnectServer(o, k, s, status, tasks, drops),
         tasks = connTask \/ tasks = [connTask EXCEPT ![s] = NoLink],
         drops = dropped \/ drops = dropped \cup {s},
         pc[o] = "idle" \/ srv[o] = s, Cancels(s), UNCHANGED stack,
         \/ session' = [session EXCEPT ![s] = NoLink] /\ status = "none" /\ cut' = cut \ {s}
         \/ UNCHANGED <<session, cut>> /\ status = conn[s] /\ pc[o] = "idle"
  PROVE  \E l \in Links : Begins(o, s, l)
<1>1. TypeOK
  BY DEF Shape, Parts
<1>2. PICK l \in Links : l = made + 1
  BY DEF ConnectServer
<1>3. /\ made' = l /\ link' = [link EXCEPT ![l] = "opening"] /\ of' = [of EXCEPT ![l] = s]
      /\ conn' = [conn EXCEPT ![s] = IF s \in Http THEN "connecting" ELSE status]
      /\ connTask' = IF s \in Http THEN [tasks EXCEPT ![s] = l] ELSE tasks
      /\ Suspend(o, k, s, IF s \in Http THEN "waiting" ELSE "opening", l)
      /\ overlapped' = IF Taken(s) THEN overlapped \cup {s} ELSE overlapped
      /\ dropped' = drops \ {s}
  BY <1>2 DEF ConnectServer
<1>4. /\ Only(o, s) /\ pc'[o] = (IF s \in Http THEN "waiting" ELSE "opening")
      /\ srv'[o] = s /\ at'[o] = l
  <2>1. PICK p : p = IF s \in Http THEN "waiting" ELSE "opening"
    OBVIOUS
  <2>2. Suspend(o, k, s, p, l)
    BY <1>3, <2>1
  <2>3. Only(o, s) /\ pc'[o] = p /\ srv'[o] = s /\ at'[o] = l
    BY <1>1, <2>2, SuspendOnly
  <2>4. QED BY <2>1, <2>3
<1>5. /\ \A m \in Links : link'[m] = IF m = l THEN "opening" ELSE link[m]
      /\ \A m \in Links : of'[m] = IF m = l THEN s ELSE of[m]
  BY <1>1, <1>3 DEF TypeOK
<1>6. \A t \in Servers : t # s =>
        /\ session'[t] = session[t] /\ stack'[t] = stack[t] /\ conn'[t] = conn[t]
        /\ t \in dropped' <=> t \in dropped
        /\ t \in cut' <=> t \in cut
  BY <1>1, <1>3 DEF TypeOK
<1>7. \A t \in Servers : t # s => connTask'[t] = connTask[t]
  BY <1>1, <1>3 DEF TypeOK
<1>8. /\ connTask'[s] = NoLink \/ connTask'[s] = (IF s \in Http THEN l ELSE connTask[s])
      /\ s \in Http => connTask'[s] = l
  BY <1>1, <1>3 DEF TypeOK
<1>9. About(s)
  BY <1>3, <1>6, <1>7 DEF About
<1>10. conn'[s] = IF s \in Http THEN "connecting" ELSE status
  BY <1>1, <1>3 DEF TypeOK
<1>11. \/ session'[s] = NoLink /\ conn'[s] # "connected"
       \/ /\ pc[o] = "idle" /\ session'[s] = session[s] /\ UNCHANGED cut
          /\ conn'[s] = conn[s] \/ (conn'[s] = "connecting" /\ s \in Http)
  BY <1>1, <1>10 DEF TypeOK
<1>12. (Taken(s) => s \in overlapped') /\ stack'[s] = stack[s] /\ s \notin dropped'
  BY <1>3
<1>13. Begins(o, s, l)
  BY <1>2, <1>3, <1>4, <1>5, <1>8, <1>9, <1>11, <1>12 DEF Begins
<1>14. QED BY <1>13


\* The end of a disconnect, after its await or without one.
LEMMA DisconnectedKinds ==
  ASSUME Shape, NEW o \in Ops, NEW s \in Servers, NEW k, NEW rows, NEW tasks, NEW drops,
         Disconnected(o, k, s, rows, tasks, drops),
         \/ tasks = connTask /\ drops = dropped
         \/ /\ tasks = [connTask EXCEPT ![s] = NoLink] /\ drops = dropped \cup {s}
            /\ \A m \in Links : m = connTask[s] /\ Pending(m, s) => m \in cancelled',
         pc[o] \in {"idle", "calling", "closing"}, pc[o] = "idle" \/ srv[o] = s,
         Cancels(s), UNCHANGED stack
  PROVE  Drops(o, s) \/ \E l \in Links : Begins(o, s, l)
<1>1. TypeOK
  BY DEF Shape, Parts
<1>2. session' = [session EXCEPT ![s] = NoLink] /\ cut' = cut \ {s}
  BY DEF Disconnected
<1>3. CASE ConnectServer(o, k, s, "none", tasks, drops)
  <2>1. tasks = connTask \/ tasks = [connTask EXCEPT ![s] = NoLink]
    OBVIOUS
  <2>2. drops = dropped \/ drops = dropped \cup {s}
    OBVIOUS
  <2>3. \/ session' = [session EXCEPT ![s] = NoLink] /\ "none" = "none" /\ cut' = cut \ {s}
        \/ UNCHANGED <<session, cut>> /\ "none" = conn[s] /\ pc[o] = "idle"
    BY <1>2
  <2>4. QED BY <1>3, <2>1, <2>2, <2>3, ConnectBegins
<1>4. CASE /\ conn' = [conn EXCEPT ![s] = "none"] /\ connTask' = tasks /\ dropped' = drops
           /\ Idle(o) /\ UNCHANGED <<linkVars, overlapped>>
  <2>1. Only(o, s) /\ pc'[o] = "idle"
    BY <1>1, <1>4, IdleOnly
  <2>2. \A t \in Servers : t # s =>
          /\ session'[t] = session[t] /\ stack'[t] = stack[t] /\ conn'[t] = conn[t]
          /\ t \in cut' <=> t \in cut
    BY <1>1, <1>2, <1>4 DEF TypeOK
  <2>3. \A t \in Servers : t # s => connTask'[t] = connTask[t] /\ (t \in dropped' <=> t \in dropped)
    BY <1>1, <1>4 DEF TypeOK
  <2>4. About(s)
    BY <1>4, <2>2, <2>3 DEF About
  <2>5. session'[s] = NoLink /\ conn'[s] = "none"
    BY <1>1, <1>2, <1>4 DEF TypeOK
  <2>6. \/ connTask'[s] = connTask[s] /\ (s \in dropped' <=> s \in dropped)
        \/ connTask'[s] = NoLink /\ \A m \in Links : m = connTask[s] /\ Pending(m, s) => m \in cancelled'
    BY <1>1, <1>4 DEF TypeOK
  <2>7. Drops(o, s)
    BY <1>4, <2>1, <2>4, <2>5, <2>6 DEF Drops, linkVars
  <2>8. QED BY <2>7
<1>5. QED BY <1>3, <1>4 DEF Disconnected

\* disconnect_server: it cancels what _connect_tasks holds, which is an attempt
\* at this server.
LEMMA DisconnectKinds ==
  ASSUME Shape, NEW o \in Ops, NEW s \in Servers, NEW k, NEW rows,
         DisconnectServer(o, k, s, rows), pc[o] \in {"idle", "calling"}, pc[o] = "idle" \/ srv[o] = s
  PROVE  Closes(o, s) \/ Drops(o, s) \/ \E l \in Links : Begins(o, s, l)
<1>1. TypeOK /\ StackInv(s)
  BY DEF Shape, Parts
<1>2. PICK tasks : tasks = [connTask EXCEPT ![s] = NoLink]
  OBVIOUS
<1>3. PICK running : running = {l \in Links : l = connTask[s] /\ link[l] \in Busy}
  OBVIOUS
<1>4. cancelled' = cancelled \cup running
  BY <1>3 DEF DisconnectServer
<1>5. \A m \in running : m \in Links /\ Pending(m, s) /\ s \in Http
  BY <1>1, <1>3, LinkNumbers DEF StackInv, Pending
<1>6. Cancels(s)
  BY <1>1, <1>4, <1>5 DEF Cancels, TypeOK
<1>7. \A m \in Links : m = connTask[s] /\ Pending(m, s) => m \in cancelled'
  BY <1>3, <1>4 DEF Pending
<1>8. stack' = [stack EXCEPT ![s] = NoLink]
  BY DEF DisconnectServer
<1>9. CASE stack[s] = NoLink /\ Disconnected(o, k, s, rows, tasks, dropped \cup {s})
  <2>1. UNCHANGED stack
    BY <1>1, <1>8, <1>9 DEF TypeOK
  <2>2. PICK drops : drops = dropped \cup {s}
    OBVIOUS
  <2>3. Disconnected(o, k, s, rows, tasks, drops)
    BY <1>9, <2>2
  <2>4. \/ tasks = connTask /\ drops = dropped
        \/ /\ tasks = [connTask EXCEPT ![s] = NoLink] /\ drops = dropped \cup {s}
           /\ \A m \in Links : m = connTask[s] /\ Pending(m, s) => m \in cancelled'
    BY <1>2, <1>7, <2>2
  <2>5. pc[o] \in {"idle", "calling", "closing"}
    OBVIOUS
  <2>6. QED BY <1>6, <2>1, <2>3, <2>4, <2>5, DisconnectedKinds
<1>10. CASE /\ stack[s] # NoLink /\ link' = [link EXCEPT ![stack[s]] = "closed"]
            /\ connTask' = tasks /\ dropped' = dropped \cup {s} /\ Suspend(o, k, s, "closing", NoLink)
            /\ UNCHANGED <<session, conn, of, made, cache, overlapped, cut>>
  <2>1. Only(o, s) /\ pc'[o] = "closing" /\ srv'[o] = s
    BY <1>1, <1>10, SuspendOnly
  <2>2. Turns(stack[s], "closed")
    BY <1>1, <1>10 DEF TypeOK, Turns
  <2>3. stack'[s] = NoLink /\ connTask'[s] = NoLink
    BY <1>1, <1>2, <1>8, <1>10 DEF TypeOK
  <2>4. \A t \in Servers : t # s => stack'[t] = stack[t] /\ connTask'[t] = connTask[t]
    BY <1>1, <1>2, <1>8, <1>10 DEF TypeOK
  <2>5. About(s)
    BY <1>10, <2>4 DEF About
  <2>6. Closes(o, s)
    BY <1>6, <1>10, <2>1, <2>2, <2>3, <2>5 DEF Closes
  <2>7. QED BY <2>6
<1>11. QED BY <1>2, <1>9, <1>10 DEF DisconnectServer

\* The kinds, over all operations, servers and attempts.
Kind(o, s) ==
  \/ Closes(o, s) \/ Drops(o, s) \/ Cuts(o, s) \/ Passes(o, s)
  \/ \E l \in Links : Begins(o, s, l) \/ Breaks(o, s, l)

LinkKind(s, l) == Registers(s, l) \/ \E x : Proceeds(s, l, x)

\* What a request does.
LEMMA RequestKinds ==
  ASSUME Shape, NEW o \in Ops, NEW s \in Servers, Request(o, s)
  PROVE  Kind(o, s)
<1>1. TypeOK
  BY DEF Shape, Parts
<1>2. UNCHANGED cancelled => Cancels(s)
  BY <1>1 DEF Cancels, TypeOK
<1>3. ASSUME NEW k, NEW rows, DisconnectServer(o, k, s, rows), Free(o) PROVE Kind(o, s)
  BY <1>3, DisconnectKinds DEF Free, Kind
<1>4. ASSUME NEW k, ConnectServer(o, k, s, conn[s], connTask, dropped), Free(o),
             UNCHANGED <<session, stack, cancelled, cut>>
      PROVE  Kind(o, s)
  <2>1. PICK status : status = conn[s]
    OBVIOUS
  <2>2. ConnectServer(o, k, s, status, connTask, dropped)
    BY <1>4, <2>1
  <2>3. \/ session' = [session EXCEPT ![s] = NoLink] /\ status = "none" /\ cut' = cut \ {s}
        \/ UNCHANGED <<session, cut>> /\ status = conn[s] /\ pc[o] = "idle"
    BY <1>4, <2>1 DEF Free
  <2>4. Cancels(s) /\ UNCHANGED stack /\ pc[o] = "idle"
    BY <1>2, <1>4 DEF Free
  <2>5. \E l \in Links : Begins(o, s, l)
    BY <2>2, <2>3, <2>4, ConnectBegins
  <2>6. QED BY <2>5 DEF Kind
<1>5. CASE StartupConnect(o, s)
  <2>1. PICK k : k = IF s \in Builtin THEN "connect" ELSE "startup"
    OBVIOUS
  <2>2. ConnectServer(o, k, s, conn[s], connTask, dropped)
    BY <1>5, <2>1 DEF StartupConnect
  <2>3. QED BY <1>4, <1>5, <2>2 DEF StartupConnect
<1>6. CASE EnableServer(o, s)
  BY <1>4, <1>6 DEF EnableServer
<1>7. CASE DisableServer(o, s)
  BY <1>3, <1>7 DEF DisableServer
<1>8. CASE \E k \in {"reconnect", "delete"} : ReconnectOrDelete(o, s, k)
  BY <1>3, <1>8 DEF ReconnectOrDelete
<1>9. CASE \E k \in {"tool", "drop"} : DropServer(o, s, k)
  BY <1>3, <1>9 DEF DropServer
<1>10. CASE CallTool(o, s)
  <2>1. PICK l : l = session[s]
    OBVIOUS
  <2>2. Suspend(o, "call", s, "calling", l) /\ pc[o] = "idle"
    BY <1>10, <2>1 DEF CallTool, Free
  <2>3. Only(o, s) /\ pc'[o] = "calling" /\ at'[o] = l
    BY <1>1, <2>2, SuspendOnly
  <2>4. l \in Links
    BY <1>1, <1>10, <2>1 DEF CallTool, TypeOK
  <2>5. UNCHANGED <<session, stack, conn, connTask, link, of, made, cancelled, overlapped, dropped, cut>>
    BY <1>10 DEF CallTool, regVars, linkVars, histVars
  <2>6. About(s)
    BY <2>5 DEF About
  <2>7. Passes(o, s)
    BY <2>2, <2>3, <2>4, <2>5, <2>6 DEF Passes
  <2>8. QED BY <2>7 DEF Kind
<1>11. QED BY <1>5, <1>6, <1>7, <1>8, <1>9, <1>10 DEF Request

\* What an operation does when it goes on.
LEMMA ResumeKinds ==
  ASSUME Shape, NEW o \in Ops, Resume(o)
  PROVE  \E s \in Servers : Kind(o, s) \/ \E l \in Links : LinkKind(s, l)
<1> USE DEF regVars, linkVars, histVars
<1>1. TypeOK /\ OpInv(o)
  BY DEF Shape, Parts
<1>2. PICK s : s = srv[o]
  OBVIOUS
<1>3. pc[o] # "idle"
  BY DEF Resume, CloseEnds, CloseCancelled, ConnectSucceeds, ConnectFails, StartupTimeout, FailureEnds,
     WaitEnds, WaitTimesOut, CallEnds, CallRaises
<1>4. s \in Servers
  BY <1>1, <1>2, <1>3 DEF OpInv
<1>5. SUFFICES Kind(o, s) \/ \E l \in Links : LinkKind(s, l)
  BY <1>4
<1>6. pc[o] = "opening" => /\ at[o] \in Links /\ link[at[o]] = "opening" /\ of[at[o]] = s
                           /\ Pending(at[o], s)
  BY <1>1, <1>2 DEF OpInv, Pending, Busy
<1>7. CASE CloseEnds(o)
  <2>1. PICK k : k = kind[o]
    OBVIOUS
  <2>2. Disconnected(o, k, s, row, connTask, dropped) /\ pc[o] = "closing"
    BY <1>2, <1>7, <2>1 DEF CloseEnds
  <2>3. UNCHANGED stack /\ Cancels(s)
    BY <1>1, <1>7 DEF CloseEnds, Cancels, TypeOK
  <2>4. Drops(o, s) \/ \E l \in Links : Begins(o, s, l)
    BY <1>2, <1>4, <2>2, <2>3, DisconnectedKinds
  <2>5. QED BY <2>4 DEF Kind
<1>8. CASE ConnectSucceeds(o)
  <2>1. PICK l \in Links : l = at[o] /\ Pending(l, s)
    BY <1>6, <1>8 DEF ConnectSucceeds
  <2>2. /\ link' = [link EXCEPT ![l] = "live"] /\ session' = [session EXCEPT ![s] = l]
        /\ stack' = [stack EXCEPT ![s] = l] /\ conn' = [conn EXCEPT ![s] = "connected"]
        /\ UNCHANGED <<connTask, of, made, cancelled, overlapped, dropped>> /\ cut' = cut \ {s}
    BY <1>2, <1>8, <2>1 DEF ConnectSucceeds
  <2>3. Suspend(o, "call", s, "retrying", l) \/ Idle(o)
    BY <1>2, <1>8, <2>1 DEF ConnectSucceeds
  <2>4. Only(o, s) /\ (pc'[o] = "idle" \/ (pc'[o] = "retrying" /\ at'[o] = l))
    BY <1>1, <1>2, <2>3, IdleOnly, SuspendOnly
  <2>5. Turns(l, "live")
    BY <1>1, <2>2 DEF TypeOK, Turns
  <2>6. About(s)
    BY <1>1, <2>2 DEF TypeOK, About
  <2>7. session'[s] = l /\ stack'[s] = l /\ conn'[s] = "connected"
    BY <1>1, <1>4, <2>2 DEF TypeOK
  <2>8. pc[o] = "opening" /\ at[o] = l
    BY <1>8, <2>1 DEF ConnectSucceeds
  <2>9. Registers(s, l)
    BY <2>1, <2>2, <2>4, <2>5, <2>6, <2>7, <2>8 DEF Registers
  <2>10. QED BY <2>9 DEF LinkKind
<1>9. CASE ConnectFails(o) \/ StartupTimeout(o)
  <2>1. PICK l \in Links : l = at[o] /\ Pending(l, s)
    BY <1>6, <1>9 DEF ConnectFails, StartupTimeout
  <2>2. PICK p \in {"failing", "expiring"} : pc' = [pc EXCEPT ![o] = p]
    BY <1>9 DEF ConnectFails, StartupTimeout
  <2>3. pc[o] = "opening" /\ link' = [link EXCEPT ![l] = "closed"]
    BY <1>9, <2>1 DEF ConnectFails, StartupTimeout
  <2>4. UNCHANGED <<session, stack, conn, connTask, of, made, cancelled, srv, at, overlapped, dropped, cut>>
    BY <1>9 DEF ConnectFails, StartupTimeout
  <2>5. Only(o, s) /\ pc'[o] = p /\ srv'[o] = s
    BY <1>1, <1>2, <2>2, <2>4 DEF TypeOK, Only
  <2>6. About(s)
    BY <2>4 DEF About
  <2>7. Turns(l, "closed")
    BY <1>1, <2>3, <2>4 DEF TypeOK, Turns
  <2>8. Breaks(o, s, l)
    BY <2>1, <2>2, <2>3, <2>4, <2>5, <2>6, <2>7 DEF Breaks
  <2>9. QED BY <2>8 DEF Kind
<1>10. ASSUME Idle(o), pc[o] # "closing",
              UNCHANGED <<link, of, made, session, stack, connTask, cancelled, overlapped, dropped, cut>>,
              \/ conn' = conn
              \/ \E x \in {"needs_auth", "error", "timeout"} :
                   conn' = [conn EXCEPT ![s] = x] /\ (Fails(o, s) \/ \E m \in Links : Pending(m, s))
       PROVE  Kind(o, s)
  <2>1. Only(o, s) /\ pc'[o] = "idle"
    BY <1>1, <1>2, <1>10, IdleOnly
  <2>2. About(s)
    BY <1>1, <1>10 DEF About, TypeOK
  <2>3. \/ conn'[s] = conn[s]
        \/ conn'[s] # "connected" /\ (Fails(o, s) \/ \E m \in Links : Pending(m, s))
    BY <1>1, <1>4, <1>10 DEF TypeOK
  <2>4. Passes(o, s)
    BY <1>10, <2>1, <2>2, <2>3 DEF Passes
  <2>5. QED BY <2>4 DEF Kind
<1>11. CASE FailureEnds(o)
  <2>1. PICK x \in {"error", "timeout"} : conn' = [conn EXCEPT ![s] = x]
    BY <1>2, <1>11 DEF FailureEnds
  <2>2. Fails(o, s)
    BY <1>2, <1>11 DEF FailureEnds, Fails
  <2>3. Idle(o) /\ UNCHANGED <<link, of, made, session, stack, connTask, cancelled, overlapped, dropped, cut>>
    BY <1>11 DEF FailureEnds
  <2>4. pc[o] # "closing"
    BY <1>11 DEF FailureEnds
  <2>5. QED BY <1>10, <2>1, <2>2, <2>3, <2>4
<1>12. CASE WaitEnds(o) \/ CallEnds(o)
  <2>1. /\ Idle(o) /\ conn' = conn
        /\ UNCHANGED <<link, of, made, session, stack, connTask, cancelled, overlapped, dropped, cut>>
    BY <1>12 DEF WaitEnds, CallEnds
  <2>2. pc[o] # "closing"
    BY <1>12 DEF WaitEnds, CallEnds
  <2>3. QED BY <1>10, <2>1, <2>2
<1>13. CASE WaitTimesOut(o)
  <2>1. conn' = [conn EXCEPT ![s] = "needs_auth"] /\ pc[o] = "waiting"
    BY <1>2, <1>13 DEF WaitTimesOut
  <2>2. at[o] \in Links /\ Pending(at[o], s)
    BY <1>1, <1>2, <1>13, <2>1 DEF WaitTimesOut, OpInv, Pending
  <2>3. Idle(o) /\ UNCHANGED <<link, of, made, session, stack, connTask, cancelled, overlapped, dropped, cut>>
    BY <1>13 DEF WaitTimesOut
  <2>4. QED BY <1>10, <2>1, <2>2, <2>3
<1>14. CASE CallRaises(o)
  <2>1. DisconnectServer(o, "call", s, row) /\ pc[o] = "calling"
    BY <1>2, <1>14 DEF CallRaises
  <2>2. QED BY <1>2, <1>4, <2>1, DisconnectKinds DEF Kind
<1>15. CASE CloseCancelled(o)
  <2>1. /\ Idle(o) /\ cut' = cut \cup {s} /\ pc[o] = "closing"
        /\ UNCHANGED <<link, of, made, session, stack, conn, connTask, cancelled, overlapped, dropped>>
    BY <1>2, <1>15 DEF CloseCancelled
  <2>2. Only(o, s) /\ pc'[o] = "idle"
    BY <1>1, <1>2, <2>1, IdleOnly
  <2>3. About(s) /\ s \in cut'
    BY <2>1 DEF About
  <2>4. Cuts(o, s)
    BY <2>1, <2>2, <2>3 DEF Cuts
  <2>5. QED BY <2>4 DEF Kind
<1>16. QED BY <1>7, <1>8, <1>9, <1>11, <1>12, <1>13, <1>14, <1>15 DEF Resume

\* What a background connect does.
LEMMA LinkStepKinds ==
  ASSUME Shape, NEW l \in Links, LinkStep(l)
  PROVE  \E s \in Servers : LinkKind(s, l)
<1>1. TypeOK /\ LinkInv(l)
  BY DEF Shape, Parts
<1>2. PICK s : s = of[l]
  OBVIOUS
<1>3. Background(l) \/ l \in cancelled
  BY DEF LinkStep, Redirect, Authorise, HttpConnects, HttpFails, AuthTimeout, HttpCancelled
<1>4. Pending(l, s) /\ s \in Http
  BY <1>1, <1>2, <1>3 DEF LinkInv, Background, Pending
<1>5. s \in Servers
  BY <1>4, ConstantsAssumption
<1>6. SUFFICES LinkKind(s, l)
  BY <1>5
<1>7. CASE HttpConnects(l)
  <2>1. /\ link' = [link EXCEPT ![l] = "live"] /\ session' = [session EXCEPT ![s] = l]
        /\ stack' = [stack EXCEPT ![s] = l] /\ conn' = [conn EXCEPT ![s] = "connected"]
        /\ UNCHANGED <<connTask, of, made, cancelled, pc, srv, at, overlapped, dropped>> /\ cut' = cut \ {s}
    BY <1>2, <1>7 DEF HttpConnects, opVars, histVars
  <2>2. Turns(l, "live")
    BY <1>1, <2>1 DEF TypeOK, Turns
  <2>3. About(s)
    BY <1>1, <2>1 DEF TypeOK, About
  <2>4. session'[s] = l /\ stack'[s] = l /\ conn'[s] = "connected"
    BY <1>1, <1>5, <2>1 DEF TypeOK
  <2>5. l \notin cancelled
    BY <1>7 DEF HttpConnects, Background
  <2>6. Registers(s, l)
    BY <1>4, <2>1, <2>2, <2>3, <2>4, <2>5 DEF Registers
  <2>7. QED BY <2>6 DEF LinkKind
<1>8. ASSUME NEW x, link' = [link EXCEPT ![l] = x],
             UNCHANGED <<session, stack, connTask, of, made, pc, srv, at, overlapped, dropped, cut>>,
             conn' = conn \/ \E y \in {"needs_auth", "error"} : conn' = [conn EXCEPT ![s] = y],
             \/ x \in Busy /\ UNCHANGED cancelled
             \/ x = "abandoned" /\ cancelled' = cancelled \ {l}
      PROVE  LinkKind(s, l)
  <2>1. Turns(l, x)
    BY <1>1, <1>8 DEF TypeOK, Turns
  <2>2. \A t \in Servers : t # s => conn'[t] = conn[t]
    BY <1>1, <1>8 DEF TypeOK
  <2>3. About(s)
    BY <1>8, <2>2 DEF About
  <2>4. conn'[s] = conn[s] \/ conn'[s] # "connected"
    BY <1>1, <1>5, <1>8 DEF TypeOK
  <2>5. Proceeds(s, l, x)
    BY <1>4, <1>8, <2>1, <2>3, <2>4 DEF Proceeds
  <2>6. QED BY <2>5 DEF LinkKind
<1>9. l \notin cancelled => cancelled \ {l} = cancelled
  OBVIOUS
<1>10. CASE Redirect(l)
  BY <1>2, <1>8, <1>10 DEF Redirect, opVars, histVars, Busy
<1>11. CASE Authorise(l)
  BY <1>8, <1>11 DEF Authorise, regVars, opVars, histVars, Busy
<1>12. CASE HttpFails(l)
  <2>1. link' = [link EXCEPT ![l] = "abandoned"] /\ conn' = [conn EXCEPT ![s] = "error"]
    BY <1>2, <1>12 DEF HttpFails
  <2>2. UNCHANGED <<session, stack, connTask, of, made, pc, srv, at, overlapped, dropped, cut>>
    BY <1>12 DEF HttpFails, opVars, histVars
  <2>3. cancelled' = cancelled \ {l}
    BY <1>9, <1>12 DEF HttpFails, Background
  <2>4. QED BY <1>8, <2>1, <2>2, <2>3
<1>13. CASE AuthTimeout(l)
  <2>1. link' = [link EXCEPT ![l] = "abandoned"] /\ conn' = [conn EXCEPT ![s] = "error"]
    BY <1>2, <1>13 DEF AuthTimeout
  <2>2. UNCHANGED <<session, stack, connTask, of, made, pc, srv, at, overlapped, dropped, cut>>
    BY <1>13 DEF AuthTimeout, opVars, histVars
  <2>3. cancelled' = cancelled \ {l}
    BY <1>9, <1>13 DEF AuthTimeout, Background
  <2>4. QED BY <1>8, <2>1, <2>2, <2>3
<1>14. CASE HttpCancelled(l)
  <2>1. link' = [link EXCEPT ![l] = "abandoned"] /\ cancelled' = cancelled \ {l}
    BY <1>14 DEF HttpCancelled
  <2>2. UNCHANGED <<session, stack, conn, connTask, of, made, pc, srv, at, overlapped, dropped, cut>>
    BY <1>14 DEF HttpCancelled, regVars, opVars, histVars
  <2>3. QED BY <1>8, <2>1, <2>2
<1>15. QED BY <1>7, <1>10, <1>11, <1>12, <1>13, <1>14 DEF LinkStep

\* Every step is of one of the kinds.
LEMMA Kinds ==
  ASSUME Shape, [Next]_vars
  PROVE  \/ Rests
         \/ \E o \in Ops : \E s \in Servers : Kind(o, s)
         \/ \E s \in Servers : \E l \in Links : LinkKind(s, l)
<1>1. CASE \E o \in Ops : \E s \in Servers : Request(o, s)
  BY <1>1, RequestKinds
<1>2. CASE \E o \in Ops : Resume(o)
  BY <1>2, ResumeKinds
<1>3. CASE \E l \in Links : LinkStep(l)
  BY <1>3, LinkStepKinds
<1>4. CASE DescribeTools
  BY <1>4 DEF DescribeTools, Rests, regVars, linkVars, opVars, histVars
<1>5. CASE UNCHANGED vars
  BY <1>5 DEF vars, Rests, regVars, linkVars, opVars, histVars
<1>6. QED BY <1>1, <1>2, <1>3, <1>4, <1>5 DEF Next

-----------------------------------------------------------------------------
(* What each kind of step leaves of the invariant. *)

\* Nothing is different for the server t.
Same(t) ==
  /\ \A l \in Links : Pending(l, t)' <=> Pending(l, t)
  /\ \A l \in Links : Pending(l, t) /\ l \in cancelled => l \in cancelled'
  /\ \A p \in Ops : Fails(p, t)' => Fails(p, t)
  /\ Closing(t) => Closing(t)'
  /\ t \in cut' <=> t \in cut
  /\ session'[t] = session[t] /\ stack'[t] = stack[t] /\ conn'[t] = conn[t]
  /\ connTask'[t] = connTask[t] /\ (t \in dropped' <=> t \in dropped)
  /\ t \in overlapped => t \in overlapped'

LEMMA SameKeeps ==
  ASSUME NEW t, Own(t), Same(t)
  PROVE  Own(t)'
<1>1. CASE t \in overlapped
  BY <1>1 DEF Own, Same
<1>2. CASE AttemptInv(t) /\ SessionInv(t)
  <2>1. AttemptInv(t)'
    BY <1>2 DEF AttemptInv, Same
  <2>2. SessionInv(t)'
    BY <1>2 DEF SessionInv, HalfWay, Same
  <2>3. QED BY <2>1, <2>2 DEF Own
<1>3. QED BY <1>1, <1>2 DEF Own

\* What a step about s leaves of the other servers, given what becomes of the
\* operations, of the attempts and of the cancellations.
LEMMA SameOthers ==
  ASSUME NEW s \in Servers, About(s),
         UNCHANGED <<pc, srv>> \/ \E o \in Ops : Only(o, s),
         \A l \in Links : \A t : t # s => (Pending(l, t)' <=> Pending(l, t)),
         \A l \in Links : l \in cancelled => l \in cancelled' \/ of[l] = s
  PROVE  \A t \in Servers : t # s => Same(t)
<1> SUFFICES ASSUME NEW t \in Servers, t # s PROVE Same(t)
  OBVIOUS
<1>1. \A l \in Links : Pending(l, t) /\ l \in cancelled => l \in cancelled'
  BY DEF Pending
<1>2. \A p \in Ops : (Fails(p, t)' => Fails(p, t)) /\ (srv[p] = t /\ pc[p] = "closing" => srv'[p] = t /\ pc'[p] = "closing")
  <2>1. CASE UNCHANGED <<pc, srv>>
    BY <2>1 DEF Fails
  <2>2. CASE \E o \in Ops : Only(o, s)
    <3>1. PICK o \in Ops : Only(o, s)
      BY <2>2
    <3>2. TAKE p \in Ops
    <3>3. CASE p = o
      BY <3>1, <3>3 DEF Only, Fails
    <3>4. CASE p # o
      BY <3>1, <3>4 DEF Only, Fails
    <3>5. QED BY <3>3, <3>4
  <2>3. QED BY <2>1, <2>2
<1>3. Closing(t) => Closing(t)'
  BY <1>2 DEF Closing
<1>4. QED BY <1>1, <1>2, <1>3 DEF Same, About

\* An attempt at s turns into something else: nobody else's changes.
LEMMA TurnsOthers ==
  ASSUME NEW l \in Links, NEW x, NEW s, Turns(l, x), of[l] = s
  PROVE  \A m \in Links : \A t : t # s => (Pending(m, t)' <=> Pending(m, t))
BY DEF Turns, Pending

\* A connect begins.
LEMMA BeginsKeeps ==
  ASSUME Shape, NEW o \in Ops, NEW s \in Servers, NEW l \in Links, Own(s), Begins(o, s, l)
  PROVE  Parts' /\ Own(s)' /\ \A t \in Servers : t # s => Same(t)
<1> USE LinkNumbers
<1>1. TypeOK /\ Parts
  BY DEF Shape, Parts
<1>2. /\ \A p \in Ops : p # o => pc'[p] = pc[p] /\ srv'[p] = srv[p] /\ at'[p] = at[p]
      /\ srv'[o] = s /\ at'[o] = l /\ pc'[o] = IF s \in Http THEN "waiting" ELSE "opening"
      /\ \A m \in Links : link'[m] = IF m = l THEN "opening" ELSE link[m]
      /\ \A m \in Links : of'[m] = IF m = l THEN s ELSE of[m]
  BY DEF Begins, Only
<1>3. link[l] = "unused" /\ l \notin cancelled
  BY <1>1 DEF Parts, LinkInv, Begins, TypeOK, Busy
<1>4. \A p \in Ops : OpInv(p)'
  <2>1. TAKE p \in Ops
  <2>2. CASE p = o
    BY <1>2, <2>2 DEF OpInv
  <2>3. CASE p # o
    <3>1. OpInv(p) /\ pc'[p] = pc[p] /\ srv'[p] = srv[p] /\ at'[p] = at[p]
      BY <1>1, <1>2, <2>3 DEF Parts
    <3>2. at[p] \in Links /\ link[at[p]] # "unused" =>
            link'[at[p]] = link[at[p]] /\ of'[at[p]] = of[at[p]]
      BY <1>2, <1>3
    <3>3. QED BY <3>1, <3>2 DEF OpInv
  <2>4. QED BY <2>2, <2>3
<1>5. \A p, q \in Ops : Alone(p, q)'
  <2>1. \A p \in Ops : p # o /\ pc'[p] = "opening" => at'[p] # l
    BY <1>1, <1>2, <1>3 DEF Parts, OpInv
  <2>2. QED BY <1>1, <1>2, <2>1 DEF Parts, Alone
<1>6. \A m \in Links : LinkInv(m)'
  <2>1. TAKE m \in Links
  <2>2. (link[m] = "unused" <=> m > made)'
    BY <1>1, <1>2 DEF Parts, LinkInv, Begins, TypeOK
  <2>3. (link[m] # "unused" => of[m] \in Servers)'
    BY <1>1, <1>2 DEF Parts, LinkInv
  <2>4. (m \in cancelled => link[m] \in Busy /\ of[m] \in Http)'
    BY <1>1, <1>2, <1>3 DEF Parts, LinkInv, Begins, Cancels, Pending, Busy
  <2>5. (link[m] = "live" => stack[of[m]] = m \/ of[m] \in overlapped)'
    BY <1>1, <1>2 DEF Parts, LinkInv, Begins, About
  <2>6. QED BY <2>2, <2>3, <2>4, <2>5 DEF LinkInv
<1>7. \A t \in Servers : StackInv(t)'
  <2>1. TAKE t \in Servers
  <2>2. (stack[t] # NoLink => link[stack[t]] = "live" /\ of[stack[t]] = t)'
    <3>1. StackInv(t) /\ stack[t] \in Links \cup {NoLink} /\ stack'[t] = stack[t]
      BY <1>1 DEF Parts, TypeOK, Begins, About
    <3>2. stack[t] # NoLink => link'[stack[t]] = link[stack[t]] /\ of'[stack[t]] = of[stack[t]]
      BY <1>2, <1>3, <3>1 DEF StackInv
    <3>3. QED BY <3>1, <3>2 DEF StackInv
  <2>3. (connTask[t] # NoLink => link[connTask[t]] # "unused" /\ of[connTask[t]] = t /\ t \in Http)'
    <3>1. StackInv(t) /\ connTask[t] \in Links \cup {NoLink}
      BY <1>1 DEF Parts, TypeOK
    <3>2. CASE t = s
      BY <1>2, <3>1, <3>2 DEF StackInv, Begins
    <3>3. CASE t # s
      <4>1. connTask'[t] = connTask[t]
        BY <3>3 DEF Begins, About
      <4>2. connTask[t] # NoLink => link'[connTask[t]] = link[connTask[t]] /\ of'[connTask[t]] = of[connTask[t]]
        BY <1>2, <1>3, <3>1 DEF StackInv
      <4>3. QED BY <3>1, <4>1, <4>2 DEF StackInv
    <3>4. QED BY <3>2, <3>3
  <2>4. QED BY <2>2, <2>3 DEF StackInv
<1>8. Own(s)'
  <2>1. CASE Taken(s)
    BY <2>1 DEF Begins, Own
  <2>2. CASE ~Taken(s)
    <3>1. stack[s] = NoLink /\ stack'[s] = NoLink /\ \A m \in Links : ~Pending(m, s)
      BY <2>2 DEF Taken, Pending, Begins
    <3>2. \A p \in Ops : ~Fails(p, s)'
      BY <1>2, <2>2 DEF Taken, Fails
    <3>3. \A m \in Links : Pending(m, s)' => m = l
      BY <1>2, <3>1 DEF Pending
    <3>4. s \in Http => l = connTask'[s] /\ s \notin dropped'
      BY DEF Begins
    <3>5. AttemptInv(s)'
      BY <3>1, <3>2, <3>3, <3>4 DEF AttemptInv
    <3>6. CASE session'[s] = NoLink /\ conn'[s] # "connected"
      BY <3>5, <3>6 DEF Own, SessionInv
    <3>7. CASE /\ pc[o] = "idle" /\ session'[s] = session[s] /\ UNCHANGED cut
               /\ conn'[s] = conn[s] \/ (conn'[s] = "connecting" /\ s \in Http)
      <4>1. CASE s \in overlapped
        BY <4>1 DEF Own, Begins, About
      <4>2. CASE HalfWay(s)
        <5>1. HalfWay(s)'
          BY <1>2, <3>7, <4>2 DEF HalfWay, Closing
        <5>2. QED BY <3>5, <5>1 DEF Own, SessionInv
      <4>3. CASE session[s] \in {NoLink, stack[s]} /\ (conn[s] = "connected" <=> session[s] # NoLink)
        BY <3>1, <3>5, <3>7, <4>3 DEF Own, SessionInv
      <4>4. QED BY <4>1, <4>2, <4>3 DEF Own, SessionInv
    <3>8. QED BY <3>6, <3>7 DEF Begins
  <2>3. QED BY <2>1, <2>2
<1>9. \A t \in Servers : t # s => Same(t)
  <2>1. \A m \in Links : \A t : t # s => (Pending(m, t)' <=> Pending(m, t))
    BY <1>2, <1>3 DEF Pending, Busy
  <2>2. QED BY <2>1, SameOthers DEF Begins, Cancels
<1>10. QED BY <1>4, <1>5, <1>6, <1>7, <1>8, <1>9 DEF Parts

\* A disconnect takes the stack.
LEMMA ClosesKeeps ==
  ASSUME Shape, NEW o \in Ops, NEW s \in Servers, Own(s), Closes(o, s)
  PROVE  Parts' /\ Own(s)' /\ \A t \in Servers : t # s => Same(t)
<1> USE LinkNumbers
<1>1. TypeOK /\ Parts
  BY DEF Shape, Parts
<1>2. PICK l \in Links : l = stack[s] /\ link[l] = "live" /\ of[l] = s
  <2>1. stack[s] \in Links \cup {NoLink} /\ stack[s] # NoLink /\ StackInv(s)
    BY <1>1 DEF Closes, TypeOK, Parts
  <2>2. QED BY <2>1 DEF StackInv
<1>3. /\ \A p \in Ops : p # o => pc'[p] = pc[p] /\ srv'[p] = srv[p] /\ at'[p] = at[p]
      /\ pc'[o] = "closing" /\ srv'[o] = s
      /\ \A m \in Links : link'[m] = IF m = l THEN "closed" ELSE link[m]
      /\ of' = of /\ made' = made
  BY <1>2 DEF Closes, Only, Turns
<1>4. \A p \in Ops : OpInv(p)'
  <2>1. TAKE p \in Ops
  <2>2. CASE p = o
    BY <1>3, <2>2 DEF OpInv
  <2>3. CASE p # o
    <3>1. OpInv(p) /\ pc'[p] = pc[p] /\ srv'[p] = srv[p] /\ at'[p] = at[p]
      BY <1>1, <1>3, <2>3 DEF Parts
    <3>2. at[p] \in Links /\ link[at[p]] # "unused" => link'[at[p]] # "unused"
      BY <1>3
    <3>3. at[p] \in Links /\ link[at[p]] = "opening" => link'[at[p]] = "opening"
      BY <1>2, <1>3
    <3>4. QED BY <1>3, <3>1, <3>2, <3>3 DEF OpInv
  <2>4. QED BY <2>2, <2>3
<1>5. \A p, q \in Ops : Alone(p, q)'
  BY <1>1, <1>3 DEF Parts, Alone
<1>6. \A m \in Links : LinkInv(m)'
  <2>1. TAKE m \in Links
  <2>2. (link[m] = "unused" <=> m > made)' /\ (link[m] # "unused" => of[m] \in Servers)'
    BY <1>1, <1>2, <1>3 DEF Parts, LinkInv
  <2>3. (m \in cancelled => link[m] \in Busy /\ of[m] \in Http)'
    BY <1>1, <1>2, <1>3 DEF Parts, LinkInv, Closes, Cancels, Pending, Busy
  <2>4. (link[m] = "live" => stack[of[m]] = m \/ of[m] \in overlapped)'
    BY <1>1, <1>2, <1>3 DEF Parts, LinkInv, Closes, About
  <2>5. QED BY <2>2, <2>3, <2>4 DEF LinkInv
<1>7. \A t \in Servers : StackInv(t)'
  <2>1. TAKE t \in Servers
  <2>2. StackInv(t) /\ stack[t] \in Links \cup {NoLink} /\ connTask[t] \in Links \cup {NoLink}
    BY <1>1 DEF Parts, TypeOK
  <2>3. CASE t = s
    BY <2>3 DEF StackInv, Closes
  <2>4. CASE t # s
    <3>1. stack'[t] = stack[t] /\ connTask'[t] = connTask[t]
      BY <2>4 DEF Closes, About
    <3>2. stack[t] # NoLink => link'[stack[t]] = "live"
      BY <1>2, <1>3, <2>2, <2>4 DEF StackInv
    <3>3. connTask[t] # NoLink => link'[connTask[t]] # "unused"
      BY <1>3, <2>2 DEF StackInv
    <3>4. QED BY <1>3, <2>2, <3>1, <3>2, <3>3 DEF StackInv
  <2>5. QED BY <2>3, <2>4
<1>8. Own(s)'
  <2>1. CASE s \in overlapped
    BY <2>1 DEF Own, Closes
  <2>2. CASE AttemptInv(s)
    <3>1. \A m \in Links : ~Pending(m, s)'
      BY <1>2, <1>3, <2>2 DEF AttemptInv, Pending, Busy
    <3>2. \A p \in Ops : Fails(p, s)' => stack'[s] = NoLink
      BY DEF Closes
    <3>3. AttemptInv(s)'
      BY <3>1, <3>2 DEF AttemptInv
    <3>4. Closing(s)'
      BY <1>3 DEF Closing
    <3>5. QED BY <3>3, <3>4 DEF Own, SessionInv, HalfWay
  <2>3. QED BY <2>1, <2>2 DEF Own
<1>9. \A t \in Servers : t # s => Same(t)
  <2>1. \A m \in Links : \A t : t # s => (Pending(m, t)' <=> Pending(m, t))
    BY <1>2, <1>3 DEF Pending
  <2>2. QED BY <2>1, SameOthers DEF Closes, Cancels
<1>10. QED BY <1>4, <1>5, <1>6, <1>7, <1>8, <1>9 DEF Parts

\* An operation goes on, or ends, and no attempt changes.
LEMMA StillParts ==
  ASSUME Shape, NEW o \in Ops, NEW s \in Servers, Only(o, s), About(s), Cancels(s),
         UNCHANGED <<link, of, made, stack, overlapped>>,
         pc'[o] = "idle" \/ (pc'[o] = "calling" /\ at'[o] \in Links),
         connTask'[s] \in {NoLink, connTask[s]}
  PROVE  Parts' /\ \A t \in Servers : t # s => Same(t)
<1> USE LinkNumbers
<1>1. TypeOK /\ Parts
  BY DEF Shape, Parts
<1>2. \A p \in Ops : p # o => pc'[p] = pc[p] /\ srv'[p] = srv[p] /\ at'[p] = at[p]
  BY DEF Only
<1>3. \A p \in Ops : OpInv(p)'
  <2>1. TAKE p \in Ops
  <2>2. CASE p = o
    BY <1>2, <2>2 DEF OpInv, Only
  <2>3. CASE p # o
    BY <1>1, <1>2, <2>3 DEF OpInv, Parts
  <2>4. QED BY <2>2, <2>3
<1>4. \A p, q \in Ops : Alone(p, q)'
  BY <1>1, <1>2 DEF Parts, Alone
<1>5. \A m \in Links : LinkInv(m)'
  BY <1>1 DEF Parts, LinkInv, Cancels, Pending
<1>6. \A t \in Servers : StackInv(t)'
  BY <1>1 DEF Parts, StackInv, About
<1>7. \A t \in Servers : t # s => Same(t)
  <2>1. \A m \in Links : \A t : t # s => (Pending(m, t)' <=> Pending(m, t))
    BY DEF Pending
  <2>2. QED BY <2>1, SameOthers DEF Cancels
<1>8. QED BY <1>3, <1>4, <1>5, <1>6, <1>7 DEF Parts

\* A disconnect ends.
LEMMA DropsKeeps ==
  ASSUME Shape, NEW o \in Ops, NEW s \in Servers, Own(s), Drops(o, s)
  PROVE  Parts' /\ Own(s)' /\ \A t \in Servers : t # s => Same(t)
<1>1. Parts' /\ \A t \in Servers : t # s => Same(t)
  BY StillParts DEF Drops
<1>2. Own(s)'
  <2>1. CASE s \in overlapped
    BY <2>1 DEF Own, Drops
  <2>2. CASE AttemptInv(s)
    <3>1. \A m \in Links : Pending(m, s)' <=> Pending(m, s)
      BY DEF Pending, Drops
    <3>2. \A p \in Ops : Fails(p, s)' => Fails(p, s)
      BY DEF Fails, Drops, Only
    <3>3. ASSUME NEW m \in Links, Pending(m, s), s \in Http
          PROVE  m \in cancelled' \/ (m = connTask'[s] /\ s \notin dropped')
      <4>1. m \in cancelled \/ (m = connTask[s] /\ s \notin dropped)
        BY <2>2, <3>3 DEF AttemptInv
      <4>2. QED BY <3>3, <4>1 DEF Drops, Cancels
    <3>4. AttemptInv(s)'
      BY <2>2, <3>1, <3>2, <3>3 DEF AttemptInv, Drops
    <3>5. SessionInv(s)'
      BY DEF SessionInv, Drops
    <3>6. QED BY <3>4, <3>5 DEF Own
  <2>3. QED BY <2>1, <2>2 DEF Own
<1>3. QED BY <1>1, <1>2

\* A disconnect is cancelled half-way.
LEMMA CutsKeeps ==
  ASSUME Shape, NEW o \in Ops, NEW s \in Servers, Own(s), Cuts(o, s)
  PROVE  Parts' /\ Own(s)' /\ \A t \in Servers : t # s => Same(t)
<1>1. Cancels(s)
  BY DEF Cuts, Cancels, Shape, TypeOK
<1>2. Parts' /\ \A t \in Servers : t # s => Same(t)
  BY <1>1, StillParts DEF Cuts
<1>3. Own(s)'
  <2>1. CASE s \in overlapped
    BY <2>1 DEF Own, Cuts
  <2>2. CASE AttemptInv(s)
    <3>1. \A m \in Links : Pending(m, s)' <=> Pending(m, s)
      BY DEF Pending, Cuts
    <3>2. \A p \in Ops : Fails(p, s)' => Fails(p, s)
      BY DEF Fails, Cuts, Only
    <3>3. AttemptInv(s)'
      BY <2>2, <3>1, <3>2 DEF AttemptInv, Cuts
    <3>4. QED BY <3>3 DEF Own, SessionInv, HalfWay, Cuts
  <2>3. QED BY <2>1, <2>2 DEF Own
<1>4. QED BY <1>2, <1>3

\* An operation goes on: a status is published by a connect that failed, or
\* while an attempt is under way, and then there is no session.
LEMMA PassesKeeps ==
  ASSUME Shape, NEW o \in Ops, NEW s \in Servers, Own(s), Passes(o, s)
  PROVE  Parts' /\ Own(s)' /\ \A t \in Servers : t # s => Same(t)
<1>1. Cancels(s)
  BY DEF Passes, Cancels, Shape, TypeOK
<1>2. Parts' /\ \A t \in Servers : t # s => Same(t)
  BY <1>1, StillParts DEF Passes
<1>3. Own(s)'
  <2>1. CASE s \in overlapped
    BY <2>1 DEF Own, Passes
  <2>2. CASE AttemptInv(s) /\ SessionInv(s)
    <3>1. \A m \in Links : Pending(m, s)' <=> Pending(m, s)
      BY DEF Pending, Passes
    <3>2. \A p \in Ops : Fails(p, s)' => Fails(p, s)
      BY DEF Fails, Passes, Only
    <3>3. AttemptInv(s)'
      BY <2>2, <3>1, <3>2 DEF AttemptInv, Passes
    <3>4. HalfWay(s) => HalfWay(s)'
      BY DEF HalfWay, Closing, Passes, Only
    <3>5. ASSUME conn'[s] = conn[s] PROVE SessionInv(s)'
      BY <2>2, <3>4, <3>5 DEF SessionInv, Passes
    <3>6. ASSUME conn'[s] # "connected", Fails(o, s) \/ \E m \in Links : Pending(m, s)
          PROVE  SessionInv(s)'
      <4>1. stack[s] = NoLink
        BY <2>2, <3>6 DEF AttemptInv
      <4>2. QED BY <2>2, <3>4, <3>6, <4>1 DEF SessionInv, Passes
    <3>7. SessionInv(s)'
      BY <3>5, <3>6 DEF Passes
    <3>8. QED BY <3>3, <3>7 DEF Own
  <2>3. QED BY <2>1, <2>2 DEF Own
<1>4. QED BY <1>2, <1>3

\* An attempt that is under way goes on or ends, its operation with it.
LEMMA TurnsParts ==
  ASSUME Shape, NEW s \in Servers, NEW l \in Links, NEW x, x # "unused",
         Pending(l, s), Turns(l, x), About(s), UNCHANGED connTask,
         cancelled' \subseteq cancelled, cancelled \subseteq cancelled' \cup {l}, l \in cancelled' => x \in Busy,
         stack'[s] \in {stack[s], l}, (stack'[s] = l) => x = "live", x = "live" => stack'[s] = l,
         s \in overlapped' \/ stack'[s] = stack[s] \/ stack[s] = NoLink,
         \/ UNCHANGED <<pc, srv, at>> /\ s \in Http
         \/ \E o \in Ops :
              /\ Only(o, s) /\ pc[o] = "opening" /\ at[o] = l
              /\ \/ pc'[o] = "idle" \/ (pc'[o] = "retrying" /\ at'[o] = l)
                 \/ pc'[o] \in {"failing", "expiring"}
  PROVE  Parts' /\ \A t \in Servers : t # s => Same(t)
<1> USE LinkNumbers
<1>1. TypeOK /\ Parts
  BY DEF Shape, Parts
<1>2. /\ \A m \in Links : link'[m] = IF m = l THEN x ELSE link[m]
      /\ of' = of /\ made' = made /\ link[l] \in Busy /\ of[l] = s
  BY DEF Turns, Pending
<1>3. \A p \in Ops : OpInv(p)' \/ (OpInv(p) /\ pc'[p] = pc[p] /\ srv'[p] = srv[p] /\ at'[p] = at[p]
                                   /\ ~(pc[p] = "opening" /\ at[p] = l))
  <2>1. CASE UNCHANGED <<pc, srv, at>> /\ s \in Http
    BY <1>1, <1>2, <2>1 DEF Parts, OpInv
  <2>2. ASSUME NEW o \in Ops, Only(o, s), pc[o] = "opening", at[o] = l,
               \/ pc'[o] = "idle" \/ (pc'[o] = "retrying" /\ at'[o] = l)
               \/ pc'[o] \in {"failing", "expiring"}
        PROVE  \A p \in Ops : OpInv(p)' \/ (OpInv(p) /\ pc'[p] = pc[p] /\ srv'[p] = srv[p] /\ at'[p] = at[p]
                                   /\ ~(pc[p] = "opening" /\ at[p] = l))
    <3>1. OpInv(o)'
      BY <2>2 DEF OpInv, Only
    <3>2. ASSUME NEW p \in Ops, p # o
          PROVE  /\ OpInv(p) /\ pc'[p] = pc[p] /\ srv'[p] = srv[p] /\ at'[p] = at[p]
                 /\ ~(pc[p] = "opening" /\ at[p] = l)
      BY <1>1, <2>2, <3>2 DEF Parts, Alone, Only
    <3>3. QED BY <3>1, <3>2
  <2>3. QED BY <2>1, <2>2
<1>4. \A p \in Ops : OpInv(p)'
  <2>1. SUFFICES ASSUME NEW p \in Ops, OpInv(p), pc'[p] = pc[p], srv'[p] = srv[p], at'[p] = at[p],
                        ~(pc[p] = "opening" /\ at[p] = l)
                 PROVE  OpInv(p)'
    BY <1>3
  <2>2. at[p] \in Links /\ link[at[p]] # "unused" => link'[at[p]] # "unused"
    BY <1>2
  <2>3. at[p] \in Links /\ at[p] # l => link'[at[p]] = link[at[p]]
    BY <1>2
  <2>4. QED BY <1>2, <2>1, <2>2, <2>3 DEF OpInv
<1>5. \A p, q \in Ops : Alone(p, q)'
  <2>1. CASE UNCHANGED <<pc, srv, at>>
    BY <1>1, <2>1 DEF Parts, Alone
  <2>2. CASE \E o \in Ops : Only(o, s) /\ pc'[o] # "opening"
    BY <1>1, <2>2 DEF Parts, Alone, Only
  <2>3. QED BY <2>1, <2>2
<1>6. \A m \in Links : LinkInv(m)'
  <2>1. TAKE m \in Links
  <2>2. LinkInv(m) /\ LinkInv(l)
    BY <1>1 DEF Parts
  <2>3. (link[m] = "unused" <=> m > made)' /\ (link[m] # "unused" => of[m] \in Servers)'
    BY <1>2, <2>2 DEF LinkInv, Busy
  <2>4. (m \in cancelled => link[m] \in Busy /\ of[m] \in Http)'
    BY <1>2, <2>2 DEF LinkInv
  <2>5. (link[m] = "live" => stack[of[m]] = m \/ of[m] \in overlapped)'
    <3>1. CASE m = l
      BY <1>2, <3>1
    <3>2. CASE m # l
      <4>1. link'[m] = link[m] /\ of'[m] = of[m]
        BY <1>2, <3>2
      <4>2. CASE of[m] = s
        BY <2>2, <4>1, <4>2 DEF LinkInv, About
      <4>3. CASE of[m] # s
        BY <2>2, <4>1, <4>3 DEF LinkInv, About
      <4>4. QED BY <4>2, <4>3
    <3>3. QED BY <3>1, <3>2
  <2>6. QED BY <2>3, <2>4, <2>5 DEF LinkInv
<1>7. \A t \in Servers : StackInv(t)'
  <2>1. TAKE t \in Servers
  <2>2. StackInv(t) /\ stack[t] \in Links \cup {NoLink} /\ connTask[t] \in Links \cup {NoLink}
    BY <1>1 DEF Parts, TypeOK
  <2>3. connTask[t] # NoLink => link'[connTask[t]] # "unused"
    BY <1>2, <2>2 DEF StackInv
  <2>4. stack[t] # NoLink => link'[stack[t]] = "live"
    BY <1>2, <2>2 DEF StackInv, Busy
  <2>5. (stack[t] # NoLink => link[stack[t]] = "live" /\ of[stack[t]] = t)'
    <3>1. CASE stack'[t] = stack[t]
      BY <1>2, <2>2, <2>4, <3>1 DEF StackInv
    <3>2. CASE t = s /\ stack'[t] = l
      BY <1>2, <3>2
    <3>3. QED BY <3>1, <3>2 DEF About
  <2>6. QED BY <1>2, <2>2, <2>3, <2>5 DEF StackInv
<1>8. \A t \in Servers : t # s => Same(t)
  <2>1. \A m \in Links : \A t : t # s => (Pending(m, t)' <=> Pending(m, t))
    BY <1>2, TurnsOthers
  <2>2. \A m \in Links : m \in cancelled => m \in cancelled' \/ of[m] = s
    BY <1>2
  <2>3. QED BY <2>1, <2>2, SameOthers
<1>9. QED BY <1>4, <1>5, <1>6, <1>7, <1>8 DEF Parts

\* An attempt succeeds: it was the only one, and no disconnect has come since.
LEMMA RegistersKeeps ==
  ASSUME Shape, NEW s \in Servers, NEW l \in Links, Own(s), Registers(s, l)
  PROVE  Parts' /\ Own(s)' /\ \A t \in Servers : t # s => Same(t)
<1> USE LinkNumbers
<1>1. Parts /\ Pending(l, s) /\ Turns(l, "live")
  BY DEF Shape, Parts, Registers
<1>2. CASE s \in Http /\ UNCHANGED <<pc, srv, at>> /\ l \notin cancelled
  <2>1. s \in overlapped \/ (stack[s] = NoLink /\ s \notin dropped)
    BY <1>1, <1>2 DEF Own, AttemptInv
  <2>2. Parts' /\ \A t \in Servers : t # s => Same(t)
    BY <1>1, <1>2, <2>1, TurnsParts DEF Registers
  <2>3. Own(s)'
    <3>1. CASE s \in overlapped
      BY <3>1 DEF Own, Registers
    <3>2. CASE AttemptInv(s) /\ s \notin dropped
      <4>1. \A m \in Links : ~Pending(m, s)'
        BY <1>1, <3>2 DEF AttemptInv, Pending, Turns, Busy
      <4>2. \A p \in Ops : ~Fails(p, s)'
        BY <1>1, <1>2, <3>2 DEF AttemptInv, Fails
      <4>3. AttemptInv(s)' /\ SessionInv(s)'
        BY <3>2, <4>1, <4>2 DEF AttemptInv, SessionInv, Registers
      <4>4. QED BY <4>3 DEF Own
    <3>3. QED BY <2>1, <3>1, <3>2 DEF Own
  <2>4. QED BY <2>2, <2>3
<1>3. ASSUME NEW o \in Ops, Only(o, s), pc[o] = "opening", at[o] = l,
             pc'[o] = "idle" \/ (pc'[o] = "retrying" /\ at'[o] = l)
      PROVE  Parts' /\ Own(s)' /\ \A t \in Servers : t # s => Same(t)
  <2>1. s \notin Http /\ l \notin cancelled
    BY <1>1, <1>3 DEF Parts, OpInv, Pending, LinkInv
  <2>2. s \in overlapped \/ stack[s] = NoLink
    BY <1>1 DEF Own, AttemptInv
  <2>3. Parts' /\ \A t \in Servers : t # s => Same(t)
    BY <1>1, <1>3, <2>1, <2>2, TurnsParts DEF Registers
  <2>4. Own(s)'
    <3>1. CASE s \in overlapped
      BY <3>1 DEF Own, Registers
    <3>2. CASE AttemptInv(s)
      <4>1. \A m \in Links : ~Pending(m, s)'
        BY <1>1, <3>2 DEF AttemptInv, Pending, Turns, Busy
      <4>2. \A p \in Ops : ~Fails(p, s)'
        BY <1>1, <1>3, <3>2 DEF AttemptInv, Fails, Only
      <4>3. AttemptInv(s)' /\ SessionInv(s)'
        BY <2>1, <4>1, <4>2 DEF AttemptInv, SessionInv, Registers
      <4>4. QED BY <4>3 DEF Own
    <3>3. QED BY <3>1, <3>2 DEF Own
  <2>5. QED BY <2>3, <2>4
<1>4. QED BY <1>2, <1>3 DEF Registers

\* The attempt of an operation fails.
LEMMA BreaksKeeps ==
  ASSUME Shape, NEW o \in Ops, NEW s \in Servers, NEW l \in Links, Own(s), Breaks(o, s, l)
  PROVE  Parts' /\ Own(s)' /\ \A t \in Servers : t # s => Same(t)
<1> USE LinkNumbers
<1>1. Parts
  BY DEF Shape, Parts
<1>2. Pending(l, s) /\ l \notin cancelled
  BY <1>1 DEF Parts, OpInv, LinkInv, Pending, Busy, Breaks, Only
<1>3. Parts' /\ \A t \in Servers : t # s => Same(t)
  <2>1. stack'[s] = stack[s] /\ stack[s] # l
    BY <1>1, <1>2 DEF Parts, StackInv, Pending, Busy, Breaks
  <2>2. QED BY <1>2, <2>1, TurnsParts DEF Breaks
<1>4. Own(s)'
  <2>1. CASE s \in overlapped
    BY <2>1 DEF Own, Breaks
  <2>2. CASE AttemptInv(s) /\ SessionInv(s)
    <3>1. \A m \in Links : ~Pending(m, s)'
      BY <1>2, <2>2 DEF AttemptInv, Pending, Turns, Busy, Breaks
    <3>2. stack'[s] = NoLink
      BY <1>2, <2>2 DEF AttemptInv, Breaks
    <3>3. HalfWay(s) => HalfWay(s)'
      BY DEF HalfWay, Closing, Breaks, Only
    <3>4. AttemptInv(s)'
      BY <3>1, <3>2 DEF AttemptInv
    <3>5. SessionInv(s)'
      BY <2>2, <3>3 DEF SessionInv, Breaks
    <3>6. QED BY <3>4, <3>5 DEF Own
  <2>3. QED BY <2>1, <2>2 DEF Own
<1>5. QED BY <1>3, <1>4

\* A background attempt goes on, fails or is cancelled.
LEMMA ProceedsKeeps ==
  ASSUME Shape, NEW s \in Servers, NEW l \in Links, NEW x, Own(s), Proceeds(s, l, x)
  PROVE  Parts' /\ Own(s)' /\ \A t \in Servers : t # s => Same(t)
<1> USE LinkNumbers
<1>1. Parts
  BY DEF Shape, Parts
<1>2. Pending(l, s) /\ Turns(l, x) /\ x # "unused" /\ x # "live"
  BY DEF Proceeds, Busy
<1>3. Parts' /\ \A t \in Servers : t # s => Same(t)
  <2>1. stack'[s] = stack[s] /\ stack[s] # l
    BY <1>1, <1>2 DEF Parts, StackInv, Pending, Busy, Proceeds
  <2>2. /\ cancelled' \subseteq cancelled /\ cancelled \subseteq cancelled' \cup {l}
        /\ l \in cancelled' => x \in Busy
    BY DEF Proceeds
  <2>3. QED BY <1>2, <2>1, <2>2, TurnsParts DEF Proceeds
<1>4. Own(s)'
  <2>1. CASE s \in overlapped
    BY <2>1 DEF Own, Proceeds
  <2>2. CASE AttemptInv(s) /\ SessionInv(s)
    <3>1. \A m \in Links : Pending(m, s)' => m = l /\ x \in Busy /\ UNCHANGED cancelled
      BY <1>2, <2>2 DEF AttemptInv, Pending, Turns, Busy, Proceeds
    <3>2. stack[s] = NoLink /\ \A p \in Ops : ~Fails(p, s)
      BY <1>2, <2>2 DEF AttemptInv
    <3>3. l \in cancelled \/ (l = connTask[s] /\ s \notin dropped)
      BY <1>2, <2>2 DEF AttemptInv, Proceeds
    <3>4. \A p \in Ops : ~Fails(p, s)'
      BY <3>2 DEF Fails, Proceeds
    <3>5. AttemptInv(s)'
      BY <3>1, <3>2, <3>3, <3>4 DEF AttemptInv, Proceeds
    <3>6. HalfWay(s) => HalfWay(s)'
      BY DEF HalfWay, Closing, Proceeds
    <3>7. SessionInv(s)'
      BY <2>2, <3>2, <3>6 DEF SessionInv, Proceeds
    <3>8. QED BY <3>5, <3>7 DEF Own
  <2>3. QED BY <2>1, <2>2 DEF Own
<1>5. QED BY <1>3, <1>4

-----------------------------------------------------------------------------
(* The theorems. *)

LEMMA InvInit == Init => Inv
<1> SUFFICES ASSUME Init PROVE Inv
  OBVIOUS
<1> USE LinkNumbers
<1>1. TypeOK
  BY TypeInit
<1>2. /\ session = [s \in Servers |-> NoLink] /\ stack = [s \in Servers |-> NoLink]
      /\ conn = [s \in Servers |-> "none"] /\ connTask = [s \in Servers |-> NoLink]
      /\ link = [l \in Links |-> "unused"] /\ made = 0 /\ cancelled = {}
      /\ pc = [o \in Ops |-> "idle"] /\ dropped = {}
  BY DEF Init
<1>3. \A o \in Ops : OpInv(o)
  BY <1>2 DEF OpInv
<1>4. \A o, p \in Ops : Alone(o, p)
  BY <1>2 DEF Alone
<1>5. \A l \in Links : LinkInv(l)
  BY <1>2, ConstantsAssumption DEF LinkInv, Links
<1>6. \A s \in Servers : StackInv(s)
  BY <1>2 DEF StackInv
<1>7. \A l \in Links : \A s : ~Pending(l, s)
  BY <1>2 DEF Pending, Busy
<1>8. \A o \in Ops : \A s : ~Fails(o, s)
  BY <1>2 DEF Fails
<1>9. \A s \in Servers : Own(s)
  BY <1>2, <1>7, <1>8 DEF Own, AttemptInv, SessionInv
<1>10. QED BY <1>1, <1>3, <1>4, <1>5, <1>6, <1>9 DEF Inv, Shape, Parts

\* What the kinds leave of the invariant, one server taken with the others.
LEMMA InvStep == Inv /\ [Next]_vars => Inv'
<1> SUFFICES ASSUME Inv, [Next]_vars PROVE Inv'
  OBVIOUS
<1>1. Shape /\ TypeOK' /\ \A s \in Servers : Own(s)
  BY TypeStep DEF Inv
<1>2. SUFFICES Parts' /\ \A s \in Servers : Own(s)'
  BY <1>1 DEF Inv, Shape
<1>3. ASSUME NEW s \in Servers, Parts', Own(s)', \A t \in Servers : t # s => Same(t)
      PROVE  Parts' /\ \A t \in Servers : Own(t)'
  <2>1. ASSUME NEW t \in Servers, t # s PROVE Own(t)'
    BY <1>1, <1>3, <2>1, SameKeeps
  <2>2. QED BY <1>3, <2>1
<1>4. CASE Rests
  <2>1. Parts'
    BY <1>1, <1>4 DEF Rests, Shape, Parts, OpInv, Alone, LinkInv, StackInv
  <2>2. \A s \in Servers : Same(s)
    BY <1>4 DEF Rests, Same, Pending, Fails, Closing
  <2>3. \A s \in Servers : Own(s)'
    BY <1>1, <2>2, SameKeeps
  <2>4. QED BY <2>1, <2>3
<1>5. ASSUME NEW o \in Ops, NEW s \in Servers, Kind(o, s)
      PROVE  Parts' /\ \A t \in Servers : Own(t)'
  <2>1. CASE Closes(o, s)
    BY <1>1, <1>3, <2>1, ClosesKeeps
  <2>2. CASE Drops(o, s)
    BY <1>1, <1>3, <2>2, DropsKeeps
  <2>3. CASE Passes(o, s)
    BY <1>1, <1>3, <2>3, PassesKeeps
  <2>4. CASE \E l \in Links : Begins(o, s, l)
    BY <1>1, <1>3, <2>4, BeginsKeeps
  <2>5. CASE \E l \in Links : Breaks(o, s, l)
    BY <1>1, <1>3, <2>5, BreaksKeeps
  <2>6. CASE Cuts(o, s)
    BY <1>1, <1>3, <2>6, CutsKeeps
  <2>7. QED BY <1>5, <2>1, <2>2, <2>3, <2>4, <2>5, <2>6 DEF Kind
<1>6. ASSUME NEW s \in Servers, NEW l \in Links, LinkKind(s, l)
      PROVE  Parts' /\ \A t \in Servers : Own(t)'
  <2>1. CASE Registers(s, l)
    BY <1>1, <1>3, <2>1, RegistersKeeps
  <2>2. CASE \E x : Proceeds(s, l, x)
    BY <1>1, <1>3, <2>2, ProceedsKeeps
  <2>3. QED BY <1>6, <2>1, <2>2 DEF LinkKind
<1>7. QED BY <1>1, <1>4, <1>5, <1>6, Kinds

\* The inductive invariant holds in every reachable state.
THEOREM Invariance == Spec => []Inv
BY InvInit, InvStep, PTL DEF Spec

\* The registries, the attempts and the operations keep their types, for any
\* number of servers, operations and attempts.
THEOREM TypeCorrect == Spec => []TypeOK
<1>1. Inv => TypeOK
  BY DEF Inv, Shape
<1>2. QED BY <1>1, Invariance, PTL

\* No connection leaks: an open link is in _stacks, where a disconnect closes
\* it, and no session outlives its link's place there, except of a server on
\* which a connect began too early.
THEOREM LinksAreOwnedHolds == Spec => []LinksAreOwned
<1>1. Inv => LinksAreOwned
  BY DEF Inv, Shape, Parts, LinkInv, Own, SessionInv, LinksAreOwned
<1>2. QED BY <1>1, Invariance, PTL

\* The status shows "connected" exactly for the servers whose tools can be
\* called, whatever order connects, disconnects, failures and time-outs end in.
THEOREM StatusIsTrueHolds == Spec => []StatusIsTrue
<1>1. Inv => StatusIsTrue
  BY DEF Inv, Own, SessionInv, StatusIsTrue
<1>2. QED BY <1>1, Invariance, PTL

\* A background connect under way when its server is disconnected never brings
\* the server back: its cancellation comes before anything it publishes.
THEOREM DisconnectIsFinalHolds == Spec => []DisconnectIsFinal
<1>1. Inv => DisconnectIsFinal
  BY ConstantsAssumption DEF Inv, Own, SessionInv, DisconnectIsFinal
<1>2. QED BY <1>1, Invariance, PTL
==============================================================================
