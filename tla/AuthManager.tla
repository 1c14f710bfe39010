----------------------------- MODULE AuthManager -----------------------------
(***************************************************************************)
(* The accounts and the browser sessions: the manager (src/core/auth.py)   *)
(* and the routes that call it (src/routes/auth_routes.py).                *)
(*                                                                         *)
(* The event loop runs most calls itself; setup, signup, the password      *)
(* checks, the issue of a session and the two halves of a password change  *)
(* run on worker threads.  A step is a critical section, or the code       *)
(* between two of them.  _save_sessions copies the table under the lock    *)
(* and writes the copy after it was released.                              *)
(*                                                                         *)
(* An account is the person behind a name; the accounts are numbered as    *)
(* they are created, and the code knows only the names.  Whether a         *)
(* password or a code is right is nondeterministic, and so is whether a    *)
(* session has expired.  Reserved names, the rate limits and the switch    *)
(* for open signup decide only whether a request is let through, and are   *)
(* left out.  A map of privileges is that of an admin or the account's     *)
(* own.                                                                    *)
(***************************************************************************)
EXTENDS Naturals, Sequences, FiniteSets

CONSTANTS
  Names, Tokens,
  Workers,      \* requests that are on a worker thread: at most this many
  MaxAccounts,  \* accounts ever created
  Loop, NoName

ASSUME ConstantsAssumption ==
  /\ NoName \notin Names
  /\ Loop \notin Workers
  /\ MaxAccounts \in Nat

Threads == Workers \cup {Loop}
Accounts == 1 .. MaxAccounts
NoAccount == 0

VARIABLES
  auth,         \* _config: who has a name, the admins, the stored privileges
  authFile,     \* auth.json
  made,         \* the number of the last account
  live,         \* the keys of _sessions
  user,         \* the "username" of the session object of each token
  file,         \* sessions.json: NoName for a token that is not in it
  job,          \* what each thread is doing
  writes,       \* copies of the table not yet written, oldest first
  owner,        \* history: the account whose password opened the session
  founders,     \* history: accounts that setup created
  crossed,      \* history: sessions whose name may have changed hands
  settled,      \* history: tokens whose revocation was answered
  stale,        \* history: logins that verified a password changed since
  outdated,     \* history: sessions whose password was changed since, by another
  spared,       \* history: those of them that the change does not end
  clobbered     \* history: the file was overwritten by an older copy

tableVars == <<live, user>>
histVars == <<owner, founders, crossed, settled, stale, outdated, spared, clobbered>>
vars == <<auth, authFile, made, tableVars, file, job, writes, histVars>>

Rest == [step |-> "idle", name |-> NoName, to |-> NoName, acct |-> NoAccount, toks |-> {}]

Init ==
  /\ auth = [row |-> [n \in Names |-> NoAccount], admins |-> {},
             privileges |-> [a \in Accounts |-> "own"]]
  /\ authFile = auth
  /\ made = 0
  /\ live = {} /\ user = [t \in Tokens |-> NoName]
  /\ file = [t \in Tokens |-> NoName]
  /\ job = [p \in Threads |-> Rest]
  /\ writes = <<>>
  /\ owner = [t \in Tokens |-> NoAccount]
  /\ founders = {} /\ crossed = {} /\ settled = {} /\ stale = {} /\ outdated = {}
  /\ spared = {}
  /\ clobbered = FALSE

-----------------------------------------------------------------------------
(* The pieces of a request. *)

Account(n) == auth.row[n]
Exists(n) == Account(n) # NoAccount
IsConfigured == \E n \in Names : Exists(n)
IsAdmin(n) == Account(n) \in auth.admins

At(p, s) == job[p].step = s
Goes(p, s) == job' = [job EXCEPT ![p].step = s]
Ends(p) == job' = [job EXCEPT ![p] = Rest]
Begins(p, s, n, to, a, toks) ==
  job' = [job EXCEPT ![p] = [step |-> s, name |-> n, to |-> to, acct |-> a, toks |-> toks]]

\* set_admin holds _config_lock between its two writes.
ConfigFree == ~At(Loop, "promoting") /\ ~At(Loop, "demoting")

\* get_username_for_token: the token of a request to a route for admins.
ActsFor(t, n) == t \in live /\ user[t] = n /\ Exists(n)
AdminRequest(t, n) == At(Loop, "idle") /\ ActsFor(t, n) /\ IsAdmin(n)

\* _config and auth.json, at the end of a critical section.
Save(config) == auth' = config /\ authFile' = config

\* create_user once the name was found free.
CreateUser(n, admin) ==
  LET a == made + 1
  IN /\ a \in Accounts
     /\ made' = a
     /\ Save([auth EXCEPT !.row[n] = a,
                          !.admins = IF admin THEN @ \cup {a} ELSE @,
                          !.privileges[a] = IF admin THEN "all" ELSE "own"])

\* The sessions of a name, dropped by a revocation or by a deletion.
SessionsOf(n) == {t \in live : user[t] = n}

-----------------------------------------------------------------------------
(* Accounts. *)

\* POST /setup, before the worker thread.
SetupRequest(w, n) ==
  /\ At(Loop, "idle") /\ At(w, "idle")
  /\ ~IsConfigured
  /\ Begins(w, "setup", n, NoName, NoAccount, {})
  /\ UNCHANGED <<auth, authFile, made, tableVars, file, writes, histVars>>

\* Mutant: the lock is taken after the check.
SetupChecksUnlocked(w) ==
  /\ At(w, "setup")
  /\ IF IsConfigured THEN Ends(w) ELSE Goes(w, "founding")
  /\ UNCHANGED <<auth, authFile, made, tableVars, file, writes, histVars>>

\* setup takes _setup_lock and finds out whether there are users.
SetupChecks(w) ==
  /\ At(w, "setup")
  /\ \A v \in Workers : ~At(v, "founding")
  /\ IF IsConfigured THEN Ends(w) ELSE Goes(w, "founding")
  /\ UNCHANGED <<auth, authFile, made, tableVars, file, writes, histVars>>

SetupCreates(w) ==
  /\ At(w, "founding") /\ ConfigFree
  /\ \/ /\ ~Exists(job[w].name)
        /\ CreateUser(job[w].name, TRUE)
        /\ founders' = founders \cup {made'}
     \/ /\ Exists(job[w].name)
        /\ UNCHANGED <<auth, authFile, made, founders>>
  /\ Ends(w)
  /\ UNCHANGED <<tableVars, file, writes, owner, crossed, settled, stale, outdated, spared, clobbered>>

\* POST /signup: create_user on a worker thread.  There are users, and there
\* always will be, so it does not matter when the request came in.
Signup(n) ==
  /\ IsConfigured /\ ConfigFree
  /\ ~Exists(n)
  /\ CreateUser(n, FALSE)
  /\ UNCHANGED <<tableVars, file, job, writes, histVars>>

\* POST /users: create_user on the loop.
AdminCreateUser(n, admin) ==
  /\ \E t \in Tokens, r \in Names : AdminRequest(t, r)
  /\ ~Exists(n)
  /\ CreateUser(n, admin)
  /\ UNCHANGED <<tableVars, file, job, writes, histVars>>

\* delete_user, its first critical section: the row goes, auth.json is saved.
\* When the API tokens cannot be deleted nothing happens.
DeleteUser(t, r, n) ==
  /\ AdminRequest(t, r)
  /\ Exists(n) /\ n # r
  /\ LET a == Account(n)
     IN Save([auth EXCEPT !.row[n] = NoAccount, !.admins = @ \ {a}, !.privileges[a] = "own"])
  /\ Begins(Loop, "purge", n, NoName, NoAccount, {})
  /\ UNCHANGED <<made, tableVars, file, writes, histVars>>

\* Its second one: the sessions of the name go.
PurgeSessions ==
  /\ At(Loop, "purge")
  /\ LET gone == SessionsOf(job[Loop].name)
     IN /\ live' = live \ gone
        /\ IF gone = {} THEN Ends(Loop) ELSE Begins(Loop, "save", NoName, NoName, NoAccount, gone)
  /\ UNCHANGED <<auth, authFile, made, user, file, writes, histVars>>

\* rename_user, its first critical section.
RenameUser(t, r, n, m) ==
  /\ AdminRequest(t, r)
  /\ Exists(n) /\ ~Exists(m)
  /\ Save([auth EXCEPT !.row[m] = Account(n), !.row[n] = NoAccount])
  /\ Begins(Loop, "move", n, m, NoAccount, {})
  /\ UNCHANGED <<made, tableVars, file, writes, histVars>>

\* Its second one: the session objects of the old name get the new one, out of
\* the reach of a revocation by the old one.
MoveSessions ==
  /\ At(Loop, "move")
  /\ LET moved == SessionsOf(job[Loop].name)
     IN /\ user' = [t \in Tokens |-> IF t \in moved THEN job[Loop].to ELSE user[t]]
        /\ spared' = spared \cup (outdated \cap moved)
        /\ IF moved = {} THEN Ends(Loop) ELSE Begins(Loop, "save", NoName, NoName, NoAccount, {})
  /\ UNCHANGED <<auth, authFile, made, live, file, writes,
                 owner, founders, crossed, settled, stale, outdated, clobbered>>

\* Mutant: the admins are not counted.
SetAdminUncounted(t, r, n) ==
  /\ AdminRequest(t, r)
  /\ Exists(n)
  /\ LET a == Account(n)
     IN \/ /\ a \notin auth.admins
           /\ auth' = [auth EXCEPT !.admins = @ \cup {a}]
           /\ Begins(Loop, "promoting", NoName, NoName, a, {})
        \/ /\ a \in auth.admins
           /\ auth' = [auth EXCEPT !.privileges[a] = "own"]
           /\ Begins(Loop, "demoting", NoName, NoName, a, {})
  /\ UNCHANGED <<authFile, made, tableVars, file, writes, histVars>>

\* Mutant: a demotion leaves the map alone.
SetAdminUnrestored(t, r, n) ==
  /\ AdminRequest(t, r)
  /\ Exists(n)
  /\ LET a == Account(n)
     IN \/ /\ a \notin auth.admins
           /\ auth' = [auth EXCEPT !.admins = @ \cup {a}]
           /\ Begins(Loop, "promoting", NoName, NoName, a, {})
        \/ /\ a \in auth.admins /\ Cardinality(auth.admins) > 1
           /\ UNCHANGED auth
           /\ Begins(Loop, "demoting", NoName, NoName, a, {})
  /\ UNCHANGED <<authFile, made, tableVars, file, writes, histVars>>

\* set_admin up to its first write.  Readers take no lock, so the flag is
\* raised before the map is widened, and lowered after it was restored.  Which
\* map of its own an account gets back is left out, and so is set_privileges,
\* which changes nothing else.
SetAdmin(t, r, n) ==
  /\ AdminRequest(t, r)
  /\ Exists(n)
  /\ LET a == Account(n)
     IN \/ /\ a \notin auth.admins
           /\ auth' = [auth EXCEPT !.admins = @ \cup {a}]
           /\ Begins(Loop, "promoting", NoName, NoName, a, {})
        \/ /\ a \in auth.admins /\ Cardinality(auth.admins) > 1
           /\ auth' = [auth EXCEPT !.privileges[a] = "own"]
           /\ Begins(Loop, "demoting", NoName, NoName, a, {})
  /\ UNCHANGED <<authFile, made, tableVars, file, writes, histVars>>

SetAdminSaves ==
  LET a == job[Loop].acct
  IN /\ \/ /\ At(Loop, "promoting")
           /\ Save([auth EXCEPT !.privileges[a] = "all"])
        \/ /\ At(Loop, "demoting")
           /\ Save([auth EXCEPT !.admins = @ \ {a}])
     /\ Ends(Loop)
     /\ UNCHANGED <<made, tableVars, file, writes, histVars>>

-----------------------------------------------------------------------------
(* Sessions. *)

\* POST /login: a worker thread finds the password right.
VerifyPassword(w, n) ==
  /\ At(w, "idle")
  /\ Exists(n)
  /\ Begins(w, "verified", n, NoName, Account(n), {})
  /\ UNCHANGED <<auth, authFile, made, tableVars, file, writes, histVars>>

\* Back on the loop: the second factor, and on to a thread again.
AdmitLogin(w) ==
  /\ At(w, "verified") /\ At(Loop, "idle")
  /\ \/ Goes(w, "admitted") /\ UNCHANGED stale
     \/ Ends(w) /\ stale' = stale \ {w}
  /\ UNCHANGED <<auth, authFile, made, tableVars, file, writes,
                 owner, founders, crossed, settled, outdated, spared, clobbered>>

\* A change of the password of n on request v that is still to drop t.
WillRevoke(v, n, t) ==
  job[v].step \in {"changed", "revoke"} /\ job[v].name = n /\ t \notin job[v].toks

\* A session opened with a password that was changed goes with the others if
\* their revocation is still to come, and is spared if it is not.
OpensStale(w, t) ==
  LET goes == \E v \in Workers : WillRevoke(v, job[w].name, t)
  IN /\ stale' = stale \ {w}
     /\ outdated' = IF w \in stale THEN outdated \cup {t} ELSE outdated
     /\ spared' = IF w \in stale /\ ~goes THEN spared \cup {t} ELSE spared

\* Mutant: the row is not looked up again.
CreateSessionUnchecked(w, t) ==
  /\ At(w, "admitted") /\ ConfigFree
  /\ owner[t] = NoAccount
  /\ live' = live \cup {t}
  /\ user' = [user EXCEPT ![t] = job[w].name]
  /\ owner' = [owner EXCEPT ![t] = job[w].acct]
  /\ crossed' = IF Account(job[w].name) \in {NoAccount, job[w].acct} THEN crossed ELSE crossed \cup {t}
  /\ OpensStale(w, t)
  /\ Begins(w, "save", NoName, NoName, NoAccount, {})
  /\ UNCHANGED <<auth, authFile, made, file, writes, founders, settled, clobbered>>

\* create_session_trusted: the row is there and the session is added, under
\* both locks.
CreateSession(w, t) ==
  /\ At(w, "admitted") /\ ConfigFree
  /\ Exists(job[w].name)
  /\ owner[t] = NoAccount
  /\ live' = live \cup {t}
  /\ user' = [user EXCEPT ![t] = job[w].name]
  /\ owner' = [owner EXCEPT ![t] = job[w].acct]
  /\ crossed' = IF Account(job[w].name) \in {NoAccount, job[w].acct} THEN crossed ELSE crossed \cup {t}
  /\ OpensStale(w, t)
  /\ Begins(w, "save", NoName, NoName, NoAccount, {})
  /\ UNCHANGED <<auth, authFile, made, file, writes, founders, settled, clobbered>>

RefuseSession(w) ==
  /\ At(w, "admitted") /\ ConfigFree
  /\ ~Exists(job[w].name) \/ \A t \in Tokens : owner[t] # NoAccount
  /\ Ends(w) /\ stale' = stale \ {w}
  /\ UNCHANGED <<auth, authFile, made, tableVars, file, writes,
                 owner, founders, crossed, settled, outdated, spared, clobbered>>

\* _save_sessions: the copy.  It is shallow, so the file gets the names the
\* session objects have when it is written.
Snapshot(p) ==
  /\ At(p, "save")
  /\ writes' = Append(writes, [by |-> p, toks |-> live, late |-> FALSE])
  /\ Goes(p, "write")
  /\ UNCHANGED <<auth, authFile, made, tableVars, file, histVars>>

\* _save_sessions: the write, and the answer of the request.
WriteFile(i) ==
  LET w == writes[i]
      older(k) == IF k < i THEN [writes[k] EXCEPT !.late = TRUE] ELSE writes[k + 1]
  IN /\ file' = [t \in Tokens |-> IF t \in w.toks THEN user[t] ELSE NoName]
     /\ writes' = [k \in 1 .. Len(writes) - 1 |-> older(k)]
     /\ clobbered' = w.late
     /\ settled' = settled \cup job[w.by].toks
     /\ Ends(w.by)
     /\ UNCHANGED <<auth, authFile, made, tableVars, owner, founders, crossed, stale, outdated, spared>>

\* Mutant: the table is not saved.
RevokeTokenUnsaved(t) ==
  /\ At(Loop, "idle")
  /\ t \in live
  /\ live' = live \ {t}
  /\ settled' = settled \cup {t}
  /\ UNCHANGED <<auth, authFile, made, user, file, job, writes, owner, founders, crossed,
                 stale, outdated, spared, clobbered>>

\* revoke_token, for POST /logout.  With a token that is not in the table it
\* only saves the table once more, which is left out.
RevokeToken(t) ==
  /\ At(Loop, "idle")
  /\ t \in live
  /\ live' = live \ {t}
  /\ Begins(Loop, "save", NoName, NoName, NoAccount, {t})
  /\ UNCHANGED <<auth, authFile, made, user, file, writes, histVars>>

\* validate_token and get_username_for_token drop a session whose name is gone,
\* or that has expired, which any session may have.
ValidateToken(t) ==
  /\ At(Loop, "idle")
  /\ t \in live
  /\ live' = live \ {t}
  /\ Begins(Loop, "save", NoName, NoName, NoAccount, {t})
  /\ UNCHANGED <<auth, authFile, made, user, file, writes, histVars>>

-----------------------------------------------------------------------------
(* The change of a password. *)

\* POST /change-password: the current password is right, which is found out
\* without the lock.
VerifyCurrent(w, t, n) ==
  /\ At(Loop, "idle") /\ At(w, "idle")
  /\ ActsFor(t, n)
  /\ Begins(w, "checked", n, NoName, NoAccount, {t})
  /\ UNCHANGED <<auth, authFile, made, tableVars, file, writes, histVars>>

\* The new hash is stored; without the row this raises.  The sessions of the
\* name but the caller's are outdated now, and so is a login in between.
ChangePassword(w) ==
  /\ At(w, "checked") /\ ConfigFree
  /\ LET n == job[w].name
         others == SessionsOf(n) \ job[w].toks
     IN \/ /\ Exists(n)
           /\ Goes(w, "changed")
           /\ outdated' = outdated \cup others /\ spared' = spared \ others
           /\ stale' = stale \cup {v \in Workers : /\ job[v].step \in {"verified", "admitted"}
                                                 /\ job[v].name = n}
        \/ /\ ~Exists(n)
           /\ Ends(w) /\ UNCHANGED <<stale, outdated, spared>>
  /\ UNCHANGED <<auth, authFile, made, tableVars, file, writes,
                 owner, founders, crossed, settled, clobbered>>

\* Mutant: the other sessions are left alone.
ContinueChangeEnds(w) ==
  /\ At(w, "changed") /\ At(Loop, "idle")
  /\ Ends(w)
  /\ UNCHANGED <<auth, authFile, made, tableVars, file, writes, histVars>>

\* Back on the loop, and on to a thread again.
ContinueChange(w) ==
  /\ At(w, "changed") /\ At(Loop, "idle")
  /\ Goes(w, "revoke")
  /\ UNCHANGED <<auth, authFile, made, tableVars, file, writes, histVars>>

\* revoke_user_sessions: the one save that is written under the lock.
RevokeUserSessions(w) ==
  /\ At(w, "revoke")
  /\ LET gone == SessionsOf(job[w].name) \ job[w].toks
     IN /\ live' = live \ gone
        /\ settled' = settled \cup gone
        /\ IF gone = {} THEN UNCHANGED <<file, writes, clobbered>>
           ELSE /\ file' = [t \in Tokens |-> IF t \in live' THEN user[t] ELSE NoName]
                /\ writes' = [i \in DOMAIN writes |-> [writes[i] EXCEPT !.late = TRUE]]
                /\ clobbered' = FALSE
  /\ Ends(w)
  /\ UNCHANGED <<auth, authFile, made, user, owner, founders, crossed, stale, outdated, spared>>

-----------------------------------------------------------------------------
(* A crash, and __init__: _load and _load_sessions. *)

\* The table, the accounts and the files agree but for what clobbered says.
Quiet == writes = <<>> /\ \A p \in Threads : job[p].step \notin {"purge", "move", "save"}

\* Sessions in the file that have expired are not loaded.  A revocation that
\* was not answered is forgotten: it spares the sessions it was to drop.
Restart(loaded) ==
  LET torn == ~Quiet \/ clobbered
  IN /\ \A t \in loaded : file[t] # NoName
     /\ auth' = authFile
     /\ live' = loaded
     /\ user' = [t \in Tokens |-> IF t \in loaded THEN file[t] ELSE NoName]
     /\ file' = user'
     /\ job' = [p \in Threads |-> Rest] /\ writes' = <<>>
     /\ crossed' = IF torn THEN crossed \cup loaded ELSE crossed
     /\ settled' = IF clobbered THEN settled \ loaded ELSE settled
     /\ stale' = {} /\ spared' = spared \cup (outdated \ settled')
     /\ clobbered' = FALSE
     /\ UNCHANGED <<authFile, made, owner, founders, outdated>>

-----------------------------------------------------------------------------

LoopStep ==
  \/ \E n \in Names, admin \in BOOLEAN : AdminCreateUser(n, admin)
  \/ \E t \in Tokens, r, n \in Names : DeleteUser(t, r, n)
  \/ PurgeSessions
  \/ \E t \in Tokens, r, n, m \in Names : RenameUser(t, r, n, m)
  \/ MoveSessions
  \/ \E t \in Tokens, r, n \in Names : SetAdmin(t, r, n)
  \/ SetAdminSaves
  \/ \E t \in Tokens : RevokeToken(t)
  \/ \E t \in Tokens : ValidateToken(t)

WorkerStep(w) ==
  \/ \E n \in Names : SetupRequest(w, n)
  \/ SetupChecks(w)
  \/ SetupCreates(w)
  \/ \E n \in Names : VerifyPassword(w, n)
  \/ AdmitLogin(w)
  \/ \E t \in Tokens : CreateSession(w, t)
  \/ RefuseSession(w)
  \/ \E t \in Tokens, n \in Names : VerifyCurrent(w, t, n)
  \/ ChangePassword(w)
  \/ ContinueChange(w)
  \/ RevokeUserSessions(w)

Serves ==
  \/ LoopStep
  \/ \E w \in Workers : WorkerStep(w)
  \/ \E n \in Names : Signup(n)
  \/ \E p \in Threads : Snapshot(p)
  \/ \E i \in DOMAIN writes : WriteFile(i)

Next ==
  \/ Serves
  \/ \E loaded \in SUBSET Tokens : Restart(loaded)

Spec == Init /\ [][Next]_vars

-----------------------------------------------------------------------------
(* Properties. *)

Configs == [row : [Names -> Accounts \cup {NoAccount}],
            admins : SUBSET Accounts,
            privileges : [Accounts -> {"own", "all"}]]

Job(steps, names, tos, accts) ==
  [step : steps, name : names, to : tos, acct : accts, toks : SUBSET Tokens]

Jobs ==
  Job({"idle", "promoting", "demoting", "save", "write"}, {NoName}, {NoName}, Accounts \cup {NoAccount})
  \cup Job({"setup", "founding", "checked", "changed", "revoke", "purge"}, Names, {NoName}, {NoAccount})
  \cup Job({"verified", "admitted"}, Names, {NoName}, Accounts)
  \cup Job({"move"}, Names, Names, {NoAccount})

\* The type invariant: the values each variable can hold.
TypeOK ==
  /\ auth \in Configs /\ authFile \in Configs
  /\ made \in 0 .. MaxAccounts
  /\ live \subseteq Tokens
  /\ user \in [Tokens -> Names \cup {NoName}] /\ file \in [Tokens -> Names \cup {NoName}]
  /\ job \in [Threads -> Jobs]
  /\ writes \in Seq([by : Threads, toks : SUBSET Tokens, late : BOOLEAN])
  /\ owner \in [Tokens -> Accounts \cup {NoAccount}]
  /\ founders \subseteq Accounts /\ clobbered \in BOOLEAN
  /\ crossed \subseteq Tokens /\ settled \subseteq Tokens
  /\ stale \subseteq Workers /\ outdated \subseteq Tokens /\ spared \subseteq Tokens

\* An instance with users always has an admin who can administer it, whatever
\* deletes, renames and demotes and in which order (delete_user, set_admin).
AdminRemains == IsConfigured => \E n \in Names : IsAdmin(n)

\* Only one account is ever created by the first-run setup, however many
\* requests found the instance unconfigured (setup and its lock).
OneFounder == Cardinality(founders) <= 1

\* A reader that takes no lock never finds the privileges of an admin with
\* somebody who is none, not even in the middle of a promotion or a demotion
\* (set_admin, get_privileges).
PrivilegesStayOwn ==
  \A n \in Names : Exists(n) /\ ~IsAdmin(n) => auth.privileges[Account(n)] = "own"

\* Once a deletion or a rename has reached the sessions, every session names
\* the account it was opened for.  It may not where the name was given to
\* another account while the login was between its two threads, or where the
\* process died before the table was on disk (delete_user, rename_user,
\* create_session_trusted).
SessionsFollowAccounts ==
  ~At(Loop, "purge") /\ ~At(Loop, "move") =>
    \A t \in live \ crossed : Account(user[t]) = owner[t]

\* A session whose revocation was answered (logout, deletion, change of the
\* password, orphan) is never back, not even after a restart, unless the file
\* it was loaded from had been overwritten by an older copy.
RevokedForGood == settled \cap live = {}

\* The sessions that a change of the password has ended or is to end.
Overdue == outdated \ spared

\* Of the sessions of an account none but the caller's outlives a change of
\* the password: a request is under way that will drop it (change_password,
\* revoke_user_sessions).  The code spares a session in three cases: a rename
\* moves it before the revocation, the process dies before the revocation was
\* answered, or a login that verified the old password before the change gets
\* its session after the revocation.
ChangeRevokes ==
  \A t \in Overdue \cap live : \E w \in Workers :
    job[w].step \in {"changed", "revoke"} /\ t \notin job[w].toks

=============================================================================
