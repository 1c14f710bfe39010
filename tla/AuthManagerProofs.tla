-------------------------- MODULE AuthManagerProofs --------------------------
(***************************************************************************)
(* The safety of accounts and sessions for any number of names, tokens,    *)
(* requests and accounts.  The inductive invariant has three layers, shown *)
(* one after the other: the two configurations and the first-run setup;    *)
(* the table, its file and the copies on their way to it; and the accounts *)
(* that sessions speak for.  In each layer most actions are a step that    *)
(* leaves the layer alone.                                                 *)
(***************************************************************************)
EXTENDS AuthManager, FiniteSetTheorems, SequenceTheorems, TLAPS

-----------------------------------------------------------------------------
(* Configurations. *)

\* A configuration when m accounts were made: every account has one name, the
\* admins are among them, somebody is one, and only they may have their map.
Good(c, m) ==
  /\ \A n \in Names : c.row[n] <= m
  /\ \A n1, n2 \in Names : c.row[n1] # NoAccount /\ c.row[n1] = c.row[n2] => n1 = n2
  /\ \A a \in c.admins : \E n \in Names : c.row[n] = a
  /\ (\E n \in Names : c.row[n] # NoAccount) => c.admins # {}
  /\ \A a \in Accounts \ c.admins : c.privileges[a] = "own"

\* create_user: by setup or an admin, or for somebody else once there are users.
LEMMA CreateGood ==
  ASSUME NEW c \in Configs, NEW m \in Nat, Good(c, m), m + 1 \in Accounts,
         NEW n \in Names, c.row[n] = NoAccount, NEW admin \in BOOLEAN,
         admin \/ \E k \in Names : c.row[k] # NoAccount,
         NEW d, d.row = [c.row EXCEPT ![n] = m + 1],
         d.admins = IF admin THEN c.admins \cup {m + 1} ELSE c.admins,
         d.privileges = [c.privileges EXCEPT ![m + 1] = IF admin THEN "all" ELSE "own"]
  PROVE  Good(d, m + 1)
<1> USE DEF Configs, NoAccount
<1>1. /\ d.row = [c.row EXCEPT ![n] = m + 1]
      /\ d.admins = IF admin THEN c.admins \cup {m + 1} ELSE c.admins
      /\ d.privileges = [c.privileges EXCEPT ![m + 1] = IF admin THEN "all" ELSE "own"]
  OBVIOUS
<1>3. \A k \in Names : c.row[k] \in Nat /\ c.row[k] <= m /\ d.row[k] = IF k = n THEN m + 1 ELSE c.row[k]
  BY <1>1 DEF Good, Accounts
<1>4. \A a \in c.admins : a <= m /\ \E k \in Names : c.row[k] = a /\ k # n
  BY <1>3 DEF Good, Accounts
<1>5. Good(d, m + 1)
  <2>1. \A n1, n2 \in Names : d.row[n1] # NoAccount /\ d.row[n1] = d.row[n2] => n1 = n2
    BY <1>3 DEF Good
  <2>2. \A a \in d.admins : \E k \in Names : d.row[k] = a
    BY <1>1, <1>3, <1>4
  <2>3. d.admins # {}
    BY <1>1 DEF Good
  <2>4. \A a \in Accounts \ d.admins : d.privileges[a] = "own"
    BY <1>1 DEF Good
  <2>5. QED BY <1>3, <2>1, <2>2, <2>3, <2>4 DEF Good
<1>6. QED BY <1>5

\* delete_user: an admin is left, the one who asked.
LEMMA DeleteGood ==
  ASSUME NEW c \in Configs, NEW m \in Nat, Good(c, m),
         NEW n \in Names, NEW r \in Names, c.row[n] # NoAccount, c.row[r] \in c.admins, n # r,
         NEW d, d.row = [c.row EXCEPT ![n] = NoAccount], d.admins = c.admins \ {c.row[n]},
         d.privileges = [c.privileges EXCEPT ![c.row[n]] = "own"]
  PROVE  Good(d, m)
<1> USE DEF Configs, NoAccount
<1>1. /\ d.row = [c.row EXCEPT ![n] = NoAccount]
      /\ d.admins = c.admins \ {c.row[n]}
      /\ d.privileges = [c.privileges EXCEPT ![c.row[n]] = "own"]
  OBVIOUS
<1>3. \A k \in Names : c.row[k] \in Nat /\ c.row[k] <= m /\ d.row[k] = IF k = n THEN 0 ELSE c.row[k]
  BY <1>1 DEF Good, Accounts
<1>4. c.row[r] # c.row[n] /\ d.row[r] # 0 /\ c.row[r] \in d.admins
  BY <1>1, <1>3 DEF Good, Accounts
<1>5. Good(d, m)
  <2>1. \A n1, n2 \in Names : d.row[n1] # NoAccount /\ d.row[n1] = d.row[n2] => n1 = n2
    BY <1>3 DEF Good
  <2>2. \A a \in d.admins : \E k \in Names : d.row[k] = a
    BY <1>1, <1>3 DEF Good
  <2>3. \A a \in Accounts \ d.admins : d.privileges[a] = "own"
    BY <1>1 DEF Good
  <2>4. QED BY <1>3, <1>4, <2>1, <2>2, <2>3 DEF Good
<1>6. QED BY <1>5

\* rename_user: the account gets the other name.
LEMMA RenameGood ==
  ASSUME NEW c \in Configs, NEW m \in Nat, Good(c, m),
         NEW n \in Names, NEW to \in Names, c.row[n] # NoAccount, c.row[to] = NoAccount,
         NEW d, d.row = [c.row EXCEPT ![to] = c.row[n], ![n] = NoAccount],
         d.admins = c.admins, d.privileges = c.privileges
  PROVE  Good(d, m)
<1> USE DEF Configs, NoAccount
<1>1. /\ d.row = [c.row EXCEPT ![to] = c.row[n], ![n] = NoAccount]
      /\ d.admins = c.admins /\ d.privileges = c.privileges
  OBVIOUS
<1>3. \A k \in Names : /\ c.row[k] \in Nat /\ c.row[k] <= m
                       /\ d.row[k] = IF k = n THEN 0 ELSE IF k = to THEN c.row[n] ELSE c.row[k]
  BY <1>1 DEF Good, Accounts
<1>4. Good(d, m)
  <2>1. \A n1, n2 \in Names : d.row[n1] # NoAccount /\ d.row[n1] = d.row[n2] => n1 = n2
    BY <1>3 DEF Good
  <2>2. \A a \in d.admins : \E k \in Names : d.row[k] = a
    <3>1. ASSUME NEW a \in d.admins PROVE \E k \in Names : d.row[k] = a
      <4>1. a # 0 /\ \E k \in Names : c.row[k] = a
        BY <1>1 DEF Good, Accounts
      <4>2. PICK k \in Names : c.row[k] = a
        BY <4>1
      <4>3. CASE k = n
        BY <4>2, <4>3, <1>3
      <4>4. CASE k # n
        BY <4>1, <4>2, <4>4, <1>3
      <4>5. QED BY <4>3, <4>4
    <3>2. QED BY <3>1
  <2>3. QED BY <1>1, <1>3, <2>1, <2>2 DEF Good
<1>5. QED BY <1>4

\* set_admin: the flag is raised, the map is widened, restored, the flag lowered.
LEMMA SetAdminGood ==
  ASSUME NEW c \in Configs, NEW m \in Nat, Good(c, m), NEW a \in Accounts, NEW d,
         \/ d = [c EXCEPT !.admins = @ \cup {a}] /\ (\E n \in Names : c.row[n] = a)
         \/ d = [c EXCEPT !.privileges[a] = "all"] /\ a \in c.admins
         \/ d = [c EXCEPT !.privileges[a] = "own"]
         \/ d = [c EXCEPT !.admins = @ \ {a}] /\ c.admins \ {a} # {} /\ c.privileges[a] = "own"
  PROVE  d \in Configs /\ Good(d, m) /\ d.row = c.row
<1> USE DEF Configs, NoAccount, Good
<1>1. CASE d = [c EXCEPT !.admins = @ \cup {a}] /\ (\E n \in Names : c.row[n] = a)
  <2>1. d.row = c.row /\ d.admins = c.admins \cup {a} /\ d.privileges = c.privileges
    BY <1>1
  <2>2. d \in Configs BY <1>1
  <2>3. QED BY <1>1, <2>1, <2>2
<1>2. CASE d = [c EXCEPT !.privileges[a] = "all"] /\ a \in c.admins
  <2>1. d.row = c.row /\ d.admins = c.admins /\ d.privileges = [c.privileges EXCEPT ![a] = "all"]
    BY <1>2
  <2>2. d \in Configs BY <1>2
  <2>3. \A x \in Accounts \ d.admins : d.privileges[x] = c.privileges[x]
    BY <1>2, <2>1
  <2>4. QED BY <1>2, <2>1, <2>2, <2>3
<1>3. CASE d = [c EXCEPT !.privileges[a] = "own"]
  <2>1. d.row = c.row /\ d.admins = c.admins /\ d.privileges = [c.privileges EXCEPT ![a] = "own"]
    BY <1>3
  <2>2. d \in Configs BY <1>3
  <2>3. QED BY <1>3, <2>1, <2>2
<1>4. CASE d = [c EXCEPT !.admins = @ \ {a}] /\ c.admins \ {a} # {} /\ c.privileges[a] = "own"
  <2>1. d.row = c.row /\ d.admins = c.admins \ {a} /\ d.privileges = c.privileges
    BY <1>4
  <2>2. d \in Configs BY <1>4
  <2>3. QED BY <1>4, <2>1, <2>2
<1>5. QED BY <1>1, <1>2, <1>3, <1>4

-----------------------------------------------------------------------------
(* The types. *)

Copies == [by : Threads, toks : SUBSET Tokens, late : BOOLEAN]

\* A function on 1 .. n is a sequence of length n.
LEMMA FunctionIsSeq ==
  ASSUME NEW S, NEW n \in Nat, NEW f \in [1 .. n -> S]
  PROVE  f \in Seq(S) /\ Len(f) = n
<1>1. f \in Seq(S)
  BY SeqDef
<1>2. QED BY <1>1

\* Copy i is written: the older ones are late, the newer ones move up.
LEMMA WrittenCopies ==
  ASSUME NEW q \in Seq(Copies), NEW i \in DOMAIN q, NEW r,
         r = [k \in 1 .. Len(q) - 1 |-> IF k < i THEN [q[k] EXCEPT !.late = TRUE] ELSE q[k + 1]]
  PROVE  /\ r \in Seq(Copies) /\ Len(r) = Len(q) - 1
         /\ \A k \in 1 .. Len(q) - 1 :
              /\ k < i => r[k].by = q[k].by /\ r[k].toks = q[k].toks /\ r[k].late
              /\ ~(k < i) => r[k] = q[k + 1]
<1>1. Len(q) \in Nat /\ i \in 1 .. Len(q) /\ Len(q) - 1 \in Nat
  OBVIOUS
<1>2. \A k \in 1 .. Len(q) : q[k] \in Copies
  OBVIOUS
<1>3. \A c \in Copies : /\ [c EXCEPT !.late = TRUE] \in Copies
                         /\ [c EXCEPT !.late = TRUE].by = c.by
                         /\ [c EXCEPT !.late = TRUE].toks = c.toks
                         /\ [c EXCEPT !.late = TRUE].late
  BY DEF Copies
<1>4. \A k \in 1 .. Len(q) - 1 : k \in 1 .. Len(q) /\ k + 1 \in 1 .. Len(q)
  BY <1>1
<1>5. r \in [1 .. Len(q) - 1 -> Copies]
  BY <1>2, <1>3, <1>4
<1>6. r \in Seq(Copies) /\ Len(r) = Len(q) - 1
  BY <1>1, <1>5, FunctionIsSeq
<1>7. QED BY <1>2, <1>3, <1>4, <1>6

\* All copies are late.
LEMMA LateCopies ==
  ASSUME NEW q \in Seq(Copies), NEW r, r = [i \in DOMAIN q |-> [q[i] EXCEPT !.late = TRUE]]
  PROVE  /\ r \in Seq(Copies) /\ Len(r) = Len(q)
         /\ \A k \in 1 .. Len(q) : r[k].by = q[k].by /\ r[k].toks = q[k].toks /\ r[k].late
<1>1. Len(q) \in Nat /\ DOMAIN q = 1 .. Len(q) /\ \A k \in 1 .. Len(q) : q[k] \in Copies
  OBVIOUS
<1>2. \A c \in Copies : /\ [c EXCEPT !.late = TRUE] \in Copies
                         /\ [c EXCEPT !.late = TRUE].by = c.by
                         /\ [c EXCEPT !.late = TRUE].toks = c.toks
                         /\ [c EXCEPT !.late = TRUE].late
  BY DEF Copies
<1>3. r \in [1 .. Len(q) -> Copies]
  BY <1>1, <1>2
<1>4. r \in Seq(Copies) /\ Len(r) = Len(q)
  BY <1>1, <1>3, FunctionIsSeq
<1>5. QED BY <1>1, <1>2, <1>4

\* A request goes on: its job has another step.
LEMMA GoesTypes ==
  ASSUME NEW r \in Jobs, NEW s,
         \/ r.step = "setup" /\ s = "founding"
         \/ r.step = "verified" /\ s = "admitted"
         \/ r.step = "checked" /\ s = "changed"
         \/ r.step = "changed" /\ s = "revoke"
         \/ r.step = "save" /\ s = "write"
  PROVE  [r EXCEPT !.step = s] \in Jobs
BY DEF Jobs, Job

\* Most jobs are about a name.
Named == {"setup", "founding", "verified", "admitted", "checked", "changed", "revoke", "purge", "move"}

LEMMA JobNames == ASSUME NEW r \in Jobs, r.step \in Named PROVE r.name \in Names
BY DEF Jobs, Job, Named

\* The types hold at the start.
LEMMA InitTypes == Init => TypeOK
<1> SUFFICES ASSUME Init PROVE TypeOK
  OBVIOUS
<1> USE ConstantsAssumption DEF Init
<1>1. auth \in Configs /\ authFile \in Configs
  BY DEF Configs
<1>2. job \in [Threads -> Jobs]
  BY DEF Jobs, Job, Rest
<1>3. made \in 0 .. MaxAccounts /\ owner \in [Tokens -> Accounts \cup {NoAccount}]
  BY DEF NoAccount
<1>4. writes \in Seq(Copies)
  BY EmptySeq
<1>5. QED BY <1>1, <1>2, <1>3, <1>4 DEF TypeOK, Copies

\* The accounts and their files keep their types.
LEMMA CreateTypes ==
  ASSUME TypeOK, NEW n \in Names \cup {NoName}, NEW admin \in BOOLEAN, CreateUser(n, admin)
  PROVE  auth' \in Configs /\ authFile' \in Configs /\ made' \in 0 .. MaxAccounts /\ made' \in Accounts
<1> USE DEF TypeOK
<1>1. made' = made + 1 /\ made' \in Accounts /\ made' \in 0 .. MaxAccounts
  BY ConstantsAssumption DEF CreateUser, Accounts
<1>2. auth' \in Configs /\ authFile' = auth'
  BY <1>1 DEF CreateUser, Save, Configs
<1>3. QED BY <1>1, <1>2

\* A step of the loop or of a signup keeps the types.
LEMMA LoopTypes ==
  ASSUME TypeOK, LoopStep \/ \E n \in Names : Signup(n) PROVE TypeOK'
<1> USE ConstantsAssumption DEF TypeOK, tableVars, histVars
<1>1. ASSUME NEW n \in Names, Signup(n) PROVE TypeOK'
  <2>1. CreateUser(n, FALSE)
    BY <1>1 DEF Signup
  <2>2. QED BY <1>1, <2>1, CreateTypes DEF Signup
<1>2. ASSUME NEW n \in Names, NEW admin \in BOOLEAN, AdminCreateUser(n, admin) PROVE TypeOK'
  <2>1. CreateUser(n, admin)
    BY <1>2 DEF AdminCreateUser
  <2>2. QED BY <1>2, <2>1, CreateTypes DEF AdminCreateUser
<1>3. ASSUME NEW t \in Tokens, NEW r \in Names, NEW n \in Names, DeleteUser(t, r, n) PROVE TypeOK'
  <2>1. auth' \in Configs /\ authFile' = auth'
    BY <1>3 DEF DeleteUser, Save, Configs, Account
  <2>2. job' \in [Threads -> Jobs]
    BY <1>3 DEF DeleteUser, Begins, Jobs, Job, Threads
  <2>3. QED BY <1>3, <2>1, <2>2 DEF DeleteUser
<1>4. CASE PurgeSessions
  <2>1. SessionsOf(job[Loop].name) \subseteq Tokens
    BY DEF SessionsOf
  <2>2. job' \in [Threads -> Jobs]
    BY <1>4, <2>1 DEF PurgeSessions, Begins, Ends, Rest, Jobs, Job, Threads
  <2>3. QED BY <1>4, <2>2 DEF PurgeSessions
<1>5. ASSUME NEW t \in Tokens, NEW r \in Names, NEW n \in Names, NEW m \in Names,
             RenameUser(t, r, n, m)
      PROVE  TypeOK'
  <2>1. auth' \in Configs /\ authFile' = auth'
    BY <1>5 DEF RenameUser, Save, Configs, Account
  <2>2. job' \in [Threads -> Jobs]
    BY <1>5 DEF RenameUser, Begins, Jobs, Job, Threads
  <2>3. QED BY <1>5, <2>1, <2>2 DEF RenameUser
<1>6. CASE MoveSessions
  <2>1. job[Loop].to \in Names \cup {NoName}
    BY DEF Threads, Jobs, Job
  <2>2. user' \in [Tokens -> Names \cup {NoName}]
    BY <1>6, <2>1 DEF MoveSessions
  <2>3. job' \in [Threads -> Jobs]
    BY <1>6 DEF MoveSessions, Begins, Ends, Rest, Jobs, Job, Threads
  <2>4. QED BY <1>6, <2>2, <2>3 DEF MoveSessions
<1>7. ASSUME NEW t \in Tokens, NEW r \in Names, NEW n \in Names, SetAdmin(t, r, n) PROVE TypeOK'
  <2>1. Account(n) \in Accounts
    BY <1>7 DEF SetAdmin, Exists, Account, Configs
  <2>2. auth' \in Configs
    <3>1. PICK a \in Accounts : a = Account(n)
      BY <2>1
    <3>2. auth' = [auth EXCEPT !.admins = @ \cup {a}] \/ auth' = [auth EXCEPT !.privileges[a] = "own"]
      BY <1>7, <3>1 DEF SetAdmin
    <3>3. QED BY SMTT(30), <3>2 DEF Configs
  <2>3. job' \in [Threads -> Jobs]
    BY <1>7, <2>1 DEF SetAdmin, Begins, Jobs, Job, Threads
  <2>4. QED BY <1>7, <2>2, <2>3 DEF SetAdmin
<1>8. CASE SetAdminSaves
  <2>1. auth' \in Configs /\ authFile' = auth'
    <3>1. PICK a : a = job[Loop].acct
      OBVIOUS
    <3>2. \/ auth' = [auth EXCEPT !.admins = @ \ {a}] /\ authFile' = [auth EXCEPT !.admins = @ \ {a}]
          \/ /\ auth' = [auth EXCEPT !.privileges[a] = "all"]
             /\ authFile' = [auth EXCEPT !.privileges[a] = "all"]
      BY <1>8, <3>1 DEF SetAdminSaves, Save
    <3>3. authFile' = auth'
      BY ONLY <3>2
    <3>4. QED BY <3>2, <3>3 DEF Configs
  <2>2. job' \in [Threads -> Jobs]
    BY <1>8 DEF SetAdminSaves, Ends, Rest, Jobs, Job, Threads
  <2>3. QED BY <1>8, <2>1, <2>2 DEF SetAdminSaves
<1>9. ASSUME NEW t \in Tokens, RevokeToken(t) \/ ValidateToken(t) PROVE TypeOK'
  <2>1. job' \in [Threads -> Jobs]
    BY <1>9 DEF RevokeToken, ValidateToken, Begins, Jobs, Job, Threads
  <2>2. QED BY <1>9, <2>1 DEF RevokeToken, ValidateToken
<1>10. QED BY <1>1, <1>2, <1>3, <1>4, <1>5, <1>6, <1>7, <1>8, <1>9 DEF LoopStep

\* A step of a worker thread keeps the types.
LEMMA WorkerTypes ==
  ASSUME TypeOK, NEW w \in Workers, WorkerStep(w) PROVE TypeOK'
<1> USE ConstantsAssumption DEF TypeOK, tableVars, histVars
<1>1. w \in Threads /\ job[w] \in Jobs /\ job[w].toks \subseteq Tokens /\ job[w].name \in Names \cup {NoName}
      /\ job[w].acct \in Accounts \cup {NoAccount}
  BY DEF Threads, Jobs, Job
<1>2. ASSUME NEW n \in Names, SetupRequest(w, n) \/ VerifyPassword(w, n) PROVE TypeOK'
  <2>1. VerifyPassword(w, n) => Account(n) \in Accounts
    BY DEF VerifyPassword, Exists, Account, Configs
  <2>2. job' \in [Threads -> Jobs]
    BY <1>1, <1>2, <2>1 DEF SetupRequest, VerifyPassword, Begins, Jobs, Job
  <2>3. QED BY <1>2, <2>2 DEF SetupRequest, VerifyPassword
<1>3. CASE \/ SetupChecks(w) \/ AdmitLogin(w) \/ RefuseSession(w)
           \/ ChangePassword(w) \/ ContinueChange(w)
  <2>1. job' \in [Threads -> Jobs]
    <3>1. Rest \in Jobs
      BY DEF Rest, Jobs, Job
    <3>2. CASE Ends(w)
      BY <3>1, <3>2 DEF Ends
    <3>3. CASE ~Ends(w)
      <4>1. PICK s : /\ Goes(w, s)
                     /\ \/ job[w].step = "setup" /\ s = "founding"
                        \/ job[w].step = "verified" /\ s = "admitted"
                        \/ job[w].step = "checked" /\ s = "changed"
                        \/ job[w].step = "changed" /\ s = "revoke"
        BY <1>3, <3>3 DEF SetupChecks, AdmitLogin, RefuseSession, ChangePassword, ContinueChange, At
      <4>2. [job[w] EXCEPT !.step = s] \in Jobs
        BY <1>1, <4>1, GoesTypes
      <4>3. job' = [job EXCEPT ![w] = [job[w] EXCEPT !.step = s]]
        BY <4>1 DEF Goes
      <4>4. QED BY <4>2, <4>3
    <3>4. QED BY <3>2, <3>3
  <2>2. stale' \subseteq Workers
    BY <1>3 DEF SetupChecks, AdmitLogin, RefuseSession, ChangePassword, ContinueChange
  <2>3. outdated' \subseteq Tokens
    BY <1>3 DEF SetupChecks, AdmitLogin, RefuseSession, ChangePassword, ContinueChange, SessionsOf
  <2>4. QED
    BY <1>3, <2>1, <2>2, <2>3
    DEF SetupChecks, AdmitLogin, RefuseSession, ChangePassword, ContinueChange
<1>4. CASE SetupCreates(w)
  <2>1. job' \in [Threads -> Jobs]
    BY <1>1, <1>4 DEF SetupCreates, Ends, Rest, Jobs, Job
  <2>2. CASE Exists(job[w].name)
    BY <1>4, <2>1, <2>2 DEF SetupCreates
  <2>3. CASE ~Exists(job[w].name)
    <3>1. CreateUser(job[w].name, TRUE) /\ founders' = founders \cup {made'}
      BY <1>4, <2>3 DEF SetupCreates
    <3>2. QED BY <1>1, <1>4, <2>1, <3>1, CreateTypes DEF SetupCreates
  <2>4. QED BY <2>2, <2>3
<1>5. ASSUME NEW t \in Tokens, CreateSession(w, t) PROVE TypeOK'
  <2>1. job' \in [Threads -> Jobs]
    BY <1>1, <1>5 DEF CreateSession, Begins, Jobs, Job
  <2>2. crossed' \subseteq Tokens
    BY <1>5 DEF CreateSession
  <2>3. user' \in [Tokens -> Names \cup {NoName}] /\ owner' \in [Tokens -> Accounts \cup {NoAccount}]
    BY <1>1, <1>5 DEF CreateSession
  <2>4. stale' \subseteq Workers /\ outdated' \subseteq Tokens /\ spared' \subseteq Tokens
    BY <1>5 DEF CreateSession, OpensStale
  <2>5. QED BY <1>5, <2>1, <2>2, <2>3, <2>4 DEF CreateSession
<1>6. ASSUME NEW t \in Tokens, NEW n \in Names, VerifyCurrent(w, t, n) PROVE TypeOK'
  <2>1. job' \in [Threads -> Jobs]
    BY <1>1, <1>6 DEF VerifyCurrent, Begins, Jobs, Job
  <2>2. QED BY <1>6, <2>1 DEF VerifyCurrent
<1>8. CASE RevokeUserSessions(w)
  <2>1. job' \in [Threads -> Jobs]
    BY <1>1, <1>8 DEF RevokeUserSessions, Ends, Rest, Jobs, Job
  <2>2. file' \in [Tokens -> Names \cup {NoName}]
    BY <1>8 DEF RevokeUserSessions
  <2>3. writes' \in Seq(Copies)
    BY <1>8, LateCopies DEF RevokeUserSessions, Copies
  <2>4. live' \subseteq Tokens /\ settled' \subseteq Tokens
    BY <1>8 DEF RevokeUserSessions, SessionsOf
  <2>5. clobbered' \in BOOLEAN
    BY <1>8 DEF RevokeUserSessions
  <2>6. QED BY <1>8, <2>1, <2>2, <2>3, <2>4, <2>5 DEF RevokeUserSessions, Copies
<1>9. QED BY <1>2, <1>3, <1>4, <1>5, <1>6, <1>8 DEF WorkerStep

\* The copies and the restart keep the types.
LEMMA CopyTypes ==
  ASSUME TypeOK, \/ \E p \in Threads : Snapshot(p)
                 \/ \E i \in DOMAIN writes : WriteFile(i)
                 \/ \E loaded \in SUBSET Tokens : Restart(loaded)
  PROVE  TypeOK'
<1> USE ConstantsAssumption DEF TypeOK, tableVars, histVars
<1>1. ASSUME NEW p \in Threads, Snapshot(p) PROVE TypeOK'
  <2>1. job' \in [Threads -> Jobs]
    <3>1. job[p] \in Jobs /\ job[p].step = "save"
      BY <1>1 DEF Snapshot, At
    <3>2. [job[p] EXCEPT !.step = "write"] \in Jobs
      BY <3>1, GoesTypes
    <3>3. job' = [job EXCEPT ![p] = [job[p] EXCEPT !.step = "write"]]
      BY <1>1 DEF Snapshot, Goes
    <3>4. QED BY <3>2, <3>3
  <2>2. writes' \in Seq(Copies)
    BY <1>1 DEF Snapshot, Copies
  <2>3. QED BY <1>1, <2>1, <2>2 DEF Snapshot, Copies
<1>2. ASSUME NEW i \in DOMAIN writes, WriteFile(i) PROVE TypeOK'
  <2>1. i \in 1 .. Len(writes) /\ writes[i] \in Copies
    <3>1. writes \in Seq(Copies)
      BY DEF Copies
    <3>2. QED BY <3>1
  <2>2. job' \in [Threads -> Jobs]
    BY <1>2 DEF WriteFile, Ends, Rest, Jobs, Job
  <2>3. file' \in [Tokens -> Names \cup {NoName}]
    BY <1>2 DEF WriteFile
  <2>4. writes' \in Seq(Copies)
    BY <1>2, WrittenCopies DEF WriteFile, Copies
  <2>5. settled' \subseteq Tokens
    BY <1>2, <2>1 DEF WriteFile, Copies, Jobs, Job
  <2>6. clobbered' \in BOOLEAN
    BY <1>2, <2>1 DEF WriteFile, Copies
  <2>7. QED BY <1>2, <2>2, <2>3, <2>4, <2>5, <2>6 DEF WriteFile, Copies
<1>3. ASSUME NEW loaded \in SUBSET Tokens, Restart(loaded) PROVE TypeOK'
  <2>1. job' \in [Threads -> Jobs]
    BY <1>3 DEF Restart, Rest, Jobs, Job
  <2>2. user' \in [Tokens -> Names \cup {NoName}] /\ file' = user'
    BY <1>3 DEF Restart
  <2>3. writes' \in Seq([by : Threads, toks : SUBSET Tokens, late : BOOLEAN])
    BY <1>3 DEF Restart
  <2>4. crossed' \subseteq Tokens /\ settled' \subseteq Tokens
        /\ stale' \subseteq Workers /\ outdated' \subseteq Tokens /\ spared' \subseteq Tokens
    BY <1>3 DEF Restart
  <2>5. QED BY <1>3, <2>1, <2>2, <2>3, <2>4 DEF Restart
<1>4. QED BY <1>1, <1>2, <1>3

\* Every step keeps the types.
LEMMA TypeStep == TypeOK /\ [Next]_vars => TypeOK'
<1>1. TypeOK /\ UNCHANGED vars => TypeOK'
  BY DEF TypeOK, vars, tableVars, histVars
<1>2. QED BY <1>1, LoopTypes, WorkerTypes, CopyTypes DEF Next, Serves

\* Accounts, sessions and the requests under way keep their types.
THEOREM TypeCorrect == Spec => []TypeOK
BY InitTypes, TypeStep, PTL DEF Spec

-----------------------------------------------------------------------------
(* The first layer: the configurations and the first-run setup. *)

\* In memory and on disk they are good and name the same accounts.  A promotion
\* under way has raised the flag; a demotion has restored the map and will leave
\* an admin.
ConfigInv ==
  /\ Good(auth, made) /\ Good(authFile, made) /\ auth.row = authFile.row
  /\ At(Loop, "promoting") => job[Loop].acct \in auth.admins
  /\ At(Loop, "demoting") =>
       LET a == job[Loop].acct
       IN  a \in Accounts /\ auth.admins \ {a} # {} /\ auth.privileges[a] = "own"

\* One request at most is in setup's critical section, and then the instance is
\* empty; one account at most was founded, and the instance is not empty since.
FounderInv ==
  /\ \A v, w \in Workers : At(v, "founding") /\ At(w, "founding") => v = w
  /\ \A w \in Workers : At(w, "founding") => ~IsConfigured
  /\ founders # {} => IsConfigured
  /\ \A a, b \in founders : a = b

First == ConfigInv /\ FounderInv

\* A step that leaves the configurations alone.
FirstFrame ==
  /\ UNCHANGED <<auth, authFile, made, founders>>
  /\ \A w \in Workers : job'[w].step = "founding" => job[w].step = "founding"
  /\ job'[Loop].step \in {"promoting", "demoting"} => job'[Loop] = job[Loop]

\* Such a step keeps the layer.
LEMMA FirstFrameStep == ASSUME First, FirstFrame PROVE First'
<1>1. ConfigInv'
  BY DEF First, FirstFrame, ConfigInv, Good, At
<1>2. FounderInv'
  BY DEF First, FirstFrame, FounderInv, At, IsConfigured, Exists, Account
<1>3. QED BY <1>1, <1>2 DEF First

\* The loop's steps that are of this kind.
LEMMA LoopFirstFrame ==
  ASSUME TypeOK, \/ PurgeSessions \/ MoveSessions
                 \/ \E t \in Tokens : RevokeToken(t) \/ ValidateToken(t)
  PROVE  FirstFrame
<1> USE ConstantsAssumption DEF FirstFrame, Begins, Ends, Rest, Threads, histVars
<1>1. job \in [Threads -> Jobs]
  BY DEF TypeOK
<1>2. CASE PurgeSessions BY <1>1, <1>2 DEF PurgeSessions
<1>3. CASE MoveSessions BY <1>1, <1>3 DEF MoveSessions
<1>4. ASSUME NEW t \in Tokens, RevokeToken(t) \/ ValidateToken(t) PROVE FirstFrame
  BY <1>1, <1>4 DEF RevokeToken, ValidateToken
<1>5. QED BY <1>2, <1>3, <1>4

\* The workers' steps that are of this kind.
LEMMA WorkerFirstFrame ==
  ASSUME TypeOK, NEW w \in Workers, WorkerStep(w), ~SetupChecks(w), ~SetupCreates(w)
  PROVE  FirstFrame
<1> USE ConstantsAssumption DEF FirstFrame, Begins, Goes, Ends, Rest, Threads, histVars
<1>1. job \in [Threads -> Jobs] /\ w # Loop
  BY DEF TypeOK
<1>2. ASSUME NEW n \in Names, SetupRequest(w, n) \/ VerifyPassword(w, n) PROVE FirstFrame
  BY <1>1, <1>2 DEF SetupRequest, VerifyPassword
<1>3. CASE AdmitLogin(w) \/ RefuseSession(w) \/ ContinueChange(w)
  <2>1. /\ UNCHANGED <<auth, authFile, made, founders>>
        /\ Goes(w, "admitted") \/ Goes(w, "revoke") \/ Ends(w)
    BY <1>3 DEF AdmitLogin, RefuseSession, ContinueChange
  <2>2. CASE Goes(w, "admitted") \/ Goes(w, "revoke")
    <3>1. PICK s \in {"admitted", "revoke"} : job' = [job EXCEPT ![w].step = s]
      BY <2>2
    <3>2. job'[w].step = s /\ job'[Loop] = job[Loop]
          /\ \A v \in Workers : v # w => job'[v] = job[v]
      BY <1>1, <3>1
    <3>3. QED BY <2>1, <3>2
  <2>3. CASE Ends(w)
    BY <1>1, <2>1, <2>3
  <2>4. QED BY <2>1, <2>2, <2>3
<1>4. ASSUME NEW t \in Tokens, CreateSession(w, t) PROVE FirstFrame
  BY <1>1, <1>4 DEF CreateSession
<1>5. ASSUME NEW t \in Tokens, NEW n \in Names, VerifyCurrent(w, t, n) PROVE FirstFrame
  BY <1>1, <1>5 DEF VerifyCurrent
<1>6. CASE ChangePassword(w)
  <2>1. UNCHANGED <<auth, authFile, made, founders>>
    BY <1>6 DEF ChangePassword
  <2>2. CASE Ends(w)
    BY <1>1, <2>1, <2>2
  <2>3. CASE ~Ends(w)
    <3>1. job' = [job EXCEPT ![w].step = "changed"]
      BY <1>6, <2>3 DEF ChangePassword
    <3>2. job'[w].step = "changed" /\ job'[Loop] = job[Loop]
          /\ \A v \in Workers : v # w => job'[v] = job[v]
      BY <1>1, <3>1
    <3>3. QED BY <2>1, <3>2
  <2>4. QED BY <2>2, <2>3
<1>7. CASE RevokeUserSessions(w)
  BY <1>1, <1>7 DEF RevokeUserSessions
<1>8. QED BY <1>2, <1>3, <1>4, <1>5, <1>6, <1>7 DEF WorkerStep

\* The copies are of this kind.
LEMMA CopyFirstFrame ==
  ASSUME TypeOK, \/ \E p \in Threads : Snapshot(p)
                 \/ \E i \in DOMAIN writes : WriteFile(i)
  PROVE  FirstFrame
<1> USE ConstantsAssumption DEF FirstFrame, Goes, Ends, Rest, histVars
<1>1. job \in [Threads -> Jobs] /\ Loop \in Threads /\ Workers \subseteq Threads
  BY DEF TypeOK, Threads
<1>2. ASSUME NEW p \in Threads, Snapshot(p) PROVE FirstFrame
  BY <1>1, <1>2 DEF Snapshot
<1>3. ASSUME NEW i \in DOMAIN writes, WriteFile(i) PROVE FirstFrame
  BY <1>1, <1>3 DEF WriteFile
<1>4. QED BY <1>2, <1>3

\* A step that changes the configurations of an instance that has users: nobody
\* is in setup's critical section, and the instance is not empty afterwards.
LEMMA ConfiguredStep ==
  ASSUME FounderInv, IsConfigured, IsConfigured', founders' = founders,
         \A w \in Workers : job'[w].step = "founding" => job[w].step = "founding"
  PROVE  FounderInv'
BY DEF FounderInv, At

\* create_user keeps the configurations good.
LEMMA CreatedStep ==
  ASSUME TypeOK, ConfigInv, NEW n \in Names, ~Exists(n), NEW admin \in BOOLEAN,
         admin \/ IsConfigured, CreateUser(n, admin)
  PROVE  /\ Good(auth, made)' /\ Good(authFile, made)' /\ auth'.row = authFile'.row
         /\ auth'.row = [auth.row EXCEPT ![n] = made + 1] /\ made' = made + 1
         /\ made \in Nat /\ auth.row \in [Names -> Accounts \cup {NoAccount}]
         /\ made + 1 \in Accounts
<1>1. auth \in Configs /\ made \in Nat /\ auth.row \in [Names -> Accounts \cup {NoAccount}]
  BY ConstantsAssumption DEF TypeOK, Configs
<1>2. PICK d : d = [auth EXCEPT !.row[n] = made + 1,
                                !.admins = IF admin THEN @ \cup {made + 1} ELSE @,
                                !.privileges[made + 1] = IF admin THEN "all" ELSE "own"]
  OBVIOUS
<1>3. auth' = d /\ authFile' = d /\ made' = made + 1 /\ made + 1 \in Accounts
  BY <1>2 DEF CreateUser, Save
<1>4. Good(d, made + 1) /\ d.row = [auth.row EXCEPT ![n] = made + 1]
  <2>1. Good(auth, made) /\ auth.row[n] = NoAccount
        /\ (admin \/ \E k \in Names : auth.row[k] # NoAccount)
    BY DEF ConfigInv, Exists, Account, IsConfigured
  <2>2. PICK c \in Configs, m \in Nat : c = auth /\ m = made
    BY <1>1
  <2>3. /\ Good(c, m) /\ c.row[n] = NoAccount /\ m + 1 \in Accounts
        /\ admin \/ \E k \in Names : c.row[k] # NoAccount
    BY <1>3, <2>1, <2>2
  <2>4. /\ d.row = [c.row EXCEPT ![n] = m + 1]
        /\ d.admins = IF admin THEN c.admins \cup {m + 1} ELSE c.admins
        /\ d.privileges = [c.privileges EXCEPT ![m + 1] = IF admin THEN "all" ELSE "own"]
    BY <1>2, <2>2 DEF Configs
  <2>5. Good(d, m + 1)
    BY <2>3, <2>4, CreateGood
  <2>6. QED BY <2>2, <2>4, <2>5
<1>5. Good(auth, made)' /\ Good(authFile, made)'
  BY <1>3, <1>4 DEF Good
<1>6. QED BY <1>1, <1>3, <1>4, <1>5

\* Signup and an admin's create_user.
LEMMA FirstCreate ==
  ASSUME TypeOK, First, NEW n \in Names, NEW admin \in BOOLEAN,
         Signup(n) \/ AdminCreateUser(n, admin)
  PROVE  First'
<1>1. IsConfigured /\ ConfigFree
  BY ConstantsAssumption
  DEF Signup, AdminCreateUser, AdminRequest, ActsFor, IsConfigured, ConfigFree, At
<1>2. PICK b \in BOOLEAN : CreateUser(n, b)
  BY DEF Signup, AdminCreateUser
<1>3. ~Exists(n) /\ job' = job /\ founders' = founders
  BY DEF Signup, AdminCreateUser, histVars
<1>4. /\ Good(auth, made)' /\ Good(authFile, made)' /\ auth'.row = authFile'.row
      /\ auth'.row = [auth.row EXCEPT ![n] = made + 1] /\ made \in Nat
      /\ auth.row \in [Names -> Accounts \cup {NoAccount}]
  BY <1>1, <1>2, <1>3, CreatedStep DEF First
<1>5. ConfigInv'
  BY <1>1, <1>3, <1>4 DEF ConfigInv, ConfigFree, At
<1>6. IsConfigured'
  BY <1>4 DEF IsConfigured, Exists, Account, NoAccount
<1>7. FounderInv'
  BY <1>1, <1>3, <1>6, ConfiguredStep DEF First
<1>8. QED BY <1>5, <1>7 DEF First

\* setup takes its lock and finds out whether there are users.
LEMMA FirstSetupChecks ==
  ASSUME TypeOK, First, NEW w \in Workers, SetupChecks(w) PROVE First'
<1> USE ConstantsAssumption DEF Goes, Ends, Rest, Threads, histVars
<1>1. job \in [Threads -> Jobs] /\ w # Loop
  BY DEF TypeOK
<1>2. /\ UNCHANGED <<auth, authFile, made, founders>>
      /\ job'[Loop] = job[Loop]
      /\ \A v \in Workers : job'[v].step = "founding" => v = w \/ job[v].step = "founding"
      /\ (job'[w].step = "founding" => ~IsConfigured)
      /\ \A v \in Workers : job[v].step # "founding"
  BY <1>1 DEF SetupChecks, At
<1>3. ConfigInv'
  BY <1>2 DEF First, ConfigInv, Good, At
<1>4. FounderInv'
  BY <1>2 DEF First, FounderInv, At, IsConfigured, Exists, Account
<1>5. QED BY <1>3, <1>4 DEF First

\* setup creates the founder.
LEMMA FirstSetupCreates ==
  ASSUME TypeOK, First, NEW w \in Workers, SetupCreates(w) PROVE First'
<1>1. job \in [Threads -> Jobs] /\ w # Loop /\ w \in Threads /\ Workers \subseteq Threads
  BY ConstantsAssumption DEF TypeOK, Threads
<1>2. At(w, "founding") /\ ConfigFree /\ Ends(w)
  BY DEF SetupCreates
<1>3. PICK n \in Names : n = job[w].name
  BY <1>1, <1>2, JobNames DEF At, Named
<1>4. ~IsConfigured /\ ~Exists(n) /\ founders = {}
  BY <1>2 DEF First, FounderInv, IsConfigured
<1>5. CreateUser(n, TRUE) /\ founders' = founders \cup {made'}
  BY <1>3, <1>4 DEF SetupCreates
<1>6. /\ Good(auth, made)' /\ Good(authFile, made)' /\ auth'.row = authFile'.row
      /\ auth'.row = [auth.row EXCEPT ![n] = made + 1] /\ made \in Nat
      /\ auth.row \in [Names -> Accounts \cup {NoAccount}]
  BY <1>4, <1>5, CreatedStep DEF First
<1>7. job'[Loop] = job[Loop] /\ \A v \in Workers : job'[v].step # "founding"
  BY <1>1, <1>2, ConstantsAssumption DEF Ends, Rest, Threads, First, FounderInv, At
<1>8. ConfigInv'
  BY <1>2, <1>6, <1>7 DEF ConfigInv, ConfigFree, At
<1>9. FounderInv'
  <2>1. IsConfigured'
    BY <1>6 DEF IsConfigured, Exists, Account, NoAccount
  <2>2. QED BY <1>4, <1>5, <1>7, <2>1 DEF FounderInv, At
<1>10. QED BY <1>8, <1>9 DEF First

\* delete_user: the admin who asked stays.
LEMMA FirstDelete ==
  ASSUME TypeOK, First, NEW t \in Tokens, NEW r \in Names, NEW n \in Names, DeleteUser(t, r, n)
  PROVE  First'
<1>1. auth \in Configs /\ made \in Nat /\ job \in [Threads -> Jobs]
  BY ConstantsAssumption DEF TypeOK
<1>2. PICK d : d = [auth EXCEPT !.row[n] = NoAccount, !.admins = @ \ {auth.row[n]},
                                !.privileges[auth.row[n]] = "own"]
  OBVIOUS
<1>3. auth' = d /\ authFile' = d /\ made' = made /\ founders' = founders
  BY <1>2 DEF DeleteUser, Save, Account, histVars
<1>4. auth.row[n] # NoAccount /\ auth.row[r] \in auth.admins /\ n # r /\ IsConfigured
  BY DEF DeleteUser, AdminRequest, IsAdmin, Exists, Account, IsConfigured
<1>5. Good(d, made) /\ d.row[r] # NoAccount
  <2>1. PICK c \in Configs, m \in Nat : c = auth /\ m = made
    BY <1>1
  <2>2. /\ Good(c, m) /\ c.row[n] # NoAccount /\ c.row[r] \in c.admins /\ n # r
    BY <1>4, <2>1 DEF First, ConfigInv
  <2>3. /\ d.row = [c.row EXCEPT ![n] = NoAccount] /\ d.admins = c.admins \ {c.row[n]}
        /\ d.privileges = [c.privileges EXCEPT ![c.row[n]] = "own"]
    BY <1>2, <2>1 DEF Configs
  <2>4. Good(d, m)
    BY <2>2, <2>3, DeleteGood
  <2>5. d.row[r] # NoAccount
    BY <2>2, <2>3 DEF Configs, Accounts, NoAccount
  <2>6. QED BY <2>1, <2>4, <2>5
<1>6. job'[Loop].step = "purge" /\ \A v \in Workers : job'[v] = job[v]
  BY <1>1, ConstantsAssumption DEF DeleteUser, Begins, Threads
<1>7. ConfigInv'
  BY <1>3, <1>5, <1>6 DEF ConfigInv, Good, At
<1>8. IsConfigured'
  BY <1>3, <1>5 DEF IsConfigured, Exists, Account
<1>9. FounderInv'
  BY <1>3, <1>4, <1>6, <1>8, ConfiguredStep DEF First
<1>10. QED BY <1>7, <1>9 DEF First

\* rename_user: the new name takes over the account of the old one.
LEMMA FirstRename ==
  ASSUME TypeOK, First, NEW t \in Tokens, NEW r \in Names, NEW n \in Names, NEW m \in Names,
         RenameUser(t, r, n, m)
  PROVE  First'
<1>1. auth \in Configs /\ made \in Nat /\ job \in [Threads -> Jobs]
  BY ConstantsAssumption DEF TypeOK
<1>2. PICK d : d = [auth EXCEPT !.row[m] = auth.row[n], !.row[n] = NoAccount]
  OBVIOUS
<1>3. auth' = d /\ authFile' = d /\ made' = made /\ founders' = founders
  BY <1>2 DEF RenameUser, Save, Account, histVars
<1>4. auth.row[n] # NoAccount /\ auth.row[m] = NoAccount /\ IsConfigured
  BY DEF RenameUser, AdminRequest, Exists, Account, IsConfigured
<1>5. /\ Good(d, made)
      /\ \A k \in Names : d.row[k] = IF k = n THEN NoAccount ELSE IF k = m THEN auth.row[n] ELSE auth.row[k]
  <2>1. PICK c \in Configs, k \in Nat : c = auth /\ k = made
    BY <1>1
  <2>2. /\ Good(c, k) /\ c.row[n] # NoAccount /\ c.row[m] = NoAccount
    BY <1>4, <2>1 DEF First, ConfigInv
  <2>3. /\ d.row = [c.row EXCEPT ![m] = c.row[n], ![n] = NoAccount]
        /\ d.admins = c.admins /\ d.privileges = c.privileges
    BY <1>2, <2>1 DEF Configs
  <2>4. Good(d, k)
    BY <2>2, <2>3, RenameGood
  <2>5. \A x \in Names : d.row[x] = IF x = n THEN NoAccount ELSE IF x = m THEN c.row[n] ELSE c.row[x]
    BY <2>2, <2>3 DEF Configs
  <2>6. QED BY <2>1, <2>4, <2>5
<1>6. job'[Loop].step = "move" /\ \A v \in Workers : job'[v] = job[v]
  BY <1>1, ConstantsAssumption DEF RenameUser, Begins, Threads
<1>7. ConfigInv'
  BY <1>3, <1>5, <1>6 DEF ConfigInv, Good, At
<1>8. IsConfigured'
  BY <1>3, <1>4, <1>5 DEF IsConfigured, Exists, Account
<1>9. FounderInv'
  BY <1>3, <1>4, <1>6, <1>8, ConfiguredStep DEF First
<1>10. QED BY <1>7, <1>9 DEF First

\* set_admin up to its first write: a demotion is begun only of one admin of two.
LEMMA FirstSetAdmin ==
  ASSUME TypeOK, First, NEW t \in Tokens, NEW r \in Names, NEW n \in Names, SetAdmin(t, r, n)
  PROVE  First'
<1>1. auth \in Configs /\ made \in Nat /\ job \in [Threads -> Jobs]
  BY ConstantsAssumption DEF TypeOK
<1>2. PICK a \in Accounts : a = auth.row[n]
  BY <1>1 DEF SetAdmin, Exists, Account, Configs
<1>3. IsConfigured /\ Good(auth, made) /\ Good(authFile, made) /\ auth.row = authFile.row
  BY DEF SetAdmin, Exists, IsConfigured, First, ConfigInv
<1>4. /\ UNCHANGED <<authFile, made, founders>>
      /\ \/ /\ auth' = [auth EXCEPT !.admins = @ \cup {a}]
            /\ Begins(Loop, "promoting", NoName, NoName, a, {})
         \/ /\ auth' = [auth EXCEPT !.privileges[a] = "own"]
            /\ Begins(Loop, "demoting", NoName, NoName, a, {})
            /\ auth.admins \ {a} # {}
  <2>1. Cardinality({a}) = 1
    BY FS_Singleton
  <2>2. a \in auth.admins /\ Cardinality(auth.admins) > 1 => auth.admins \ {a} # {}
    <3>1. SUFFICES ASSUME a \in auth.admins, auth.admins \ {a} = {} PROVE Cardinality(auth.admins) = 1
      OBVIOUS
    <3>2. auth.admins = {a}
      BY <3>1
    <3>3. QED BY <2>1, <3>2
  <2>3. QED BY <1>2, <2>2 DEF SetAdmin, Account, histVars
<1>5. Good(auth', made) /\ auth'.row = auth.row
  <2>1. PICK d : d = auth'
    OBVIOUS
  <2>2. \E k \in Names : auth.row[k] = a
    BY <1>2
  <2>3. Good(d, made) /\ d.row = auth.row
    BY <1>1, <1>3, <1>4, <2>1, <2>2, SetAdminGood
  <2>4. QED BY <2>1, <2>3
<1>6. /\ \A v \in Workers : job'[v] = job[v]
      /\ job'[Loop].step = "promoting" => job'[Loop].acct \in auth'.admins
      /\ job'[Loop].step = "demoting" =>
           job'[Loop].acct = a /\ auth'.admins \ {a} # {} /\ auth'.privileges[a] = "own"
  <2>1. Loop \in Threads /\ Workers \subseteq Threads \ {Loop}
    BY ConstantsAssumption DEF Threads
  <2>2. auth.privileges \in [Accounts -> {"own", "all"}]
    BY <1>1 DEF Configs
  <2>3. CASE auth' = [auth EXCEPT !.admins = @ \cup {a}] /\ Begins(Loop, "promoting", NoName, NoName, a, {})
    BY <1>1, <2>1, <2>3 DEF Begins, Configs
  <2>4. CASE /\ auth' = [auth EXCEPT !.privileges[a] = "own"]
             /\ Begins(Loop, "demoting", NoName, NoName, a, {}) /\ auth.admins \ {a} # {}
    BY <1>1, <2>1, <2>2, <2>4 DEF Begins, Configs
  <2>5. QED BY <1>4, <2>3, <2>4
<1>7. ConfigInv'
  <2>1. Good(auth, made)' /\ Good(authFile, made)'
    BY <1>3, <1>4, <1>5 DEF Good
  <2>2. QED BY <1>3, <1>4, <1>5, <1>6, <2>1 DEF ConfigInv, At
<1>8. IsConfigured'
  BY <1>3, <1>5 DEF IsConfigured, Exists, Account
<1>9. FounderInv'
  BY <1>3, <1>4, <1>6, <1>8, ConfiguredStep DEF First
<1>10. QED BY <1>7, <1>9 DEF First

\* set_admin's second write.
LEMMA FirstSetAdminSaves ==
  ASSUME TypeOK, First, SetAdminSaves PROVE First'
<1>1. auth \in Configs /\ made \in Nat /\ job \in [Threads -> Jobs]
  BY ConstantsAssumption DEF TypeOK
<1>2. PICK a : a = job[Loop].acct
  OBVIOUS
<1>3. PICK d : /\ auth' = d /\ authFile' = d
               /\ \/ d = [auth EXCEPT !.privileges[a] = "all"] /\ At(Loop, "promoting")
                  \/ d = [auth EXCEPT !.admins = @ \ {a}] /\ At(Loop, "demoting")
  BY <1>2 DEF SetAdminSaves, Save
<1>4. a \in Accounts /\ Good(auth, made)
      /\ (At(Loop, "promoting") => a \in auth.admins)
      /\ (At(Loop, "demoting") => auth.admins \ {a} # {} /\ auth.privileges[a] = "own")
  BY <1>1, <1>2, <1>3 DEF First, ConfigInv, Configs
<1>5. Good(d, made) /\ d.row = auth.row
  BY <1>1, <1>3, <1>4, SetAdminGood
<1>6. job'[Loop] = Rest /\ \A v \in Workers : job'[v] = job[v]
  BY <1>1, ConstantsAssumption DEF SetAdminSaves, Ends, Threads
<1>7. made' = made /\ founders' = founders
  BY DEF SetAdminSaves, histVars
<1>8. ConfigInv'
  BY <1>3, <1>5, <1>6, <1>7 DEF ConfigInv, Good, At, Rest
<1>9. IsConfigured' = IsConfigured
  BY <1>3, <1>5 DEF IsConfigured, Exists, Account
<1>10. FounderInv'
  BY <1>6, <1>7, <1>9 DEF First, FounderInv, At
<1>11. QED BY <1>8, <1>10 DEF First

\* A restart loads the configuration that was saved.
LEMMA FirstRestart ==
  ASSUME First, NEW loaded \in SUBSET Tokens, Restart(loaded) PROVE First'
<1>1. auth' = authFile /\ authFile' = authFile /\ made' = made /\ founders' = founders
      /\ \A p \in Threads : job'[p].step = "idle"
  BY DEF Restart, Rest
<1>2. Loop \in Threads /\ Workers \subseteq Threads
  BY DEF Threads
<1>3. ConfigInv'
  BY <1>1, <1>2 DEF First, ConfigInv, Good, At
<1>4. IsConfigured' = IsConfigured
  BY <1>1 DEF First, ConfigInv, IsConfigured, Exists, Account
<1>5. FounderInv'
  BY <1>1, <1>2, <1>4 DEF First, FounderInv, At
<1>6. QED BY <1>3, <1>5 DEF First

\* Every step keeps the layer.
LEMMA FirstStep == ASSUME TypeOK, First, [Next]_vars PROVE First'
<1>1. ASSUME LoopStep PROVE First'
  BY <1>1, LoopFirstFrame, FirstFrameStep, FirstCreate, FirstDelete, FirstRename, FirstSetAdmin,
     FirstSetAdminSaves
  DEF LoopStep
<1>2. ASSUME NEW w \in Workers, WorkerStep(w) PROVE First'
  BY <1>2, WorkerFirstFrame, FirstFrameStep, FirstSetupChecks, FirstSetupCreates
<1>3. ASSUME NEW n \in Names, Signup(n) PROVE First'
  BY <1>3, FirstCreate
<1>4. ASSUME \/ \E p \in Threads : Snapshot(p)
             \/ \E i \in DOMAIN writes : WriteFile(i)
      PROVE  First'
  BY <1>4, CopyFirstFrame, FirstFrameStep
<1>5. ASSUME NEW loaded \in SUBSET Tokens, Restart(loaded) PROVE First'
  BY <1>5, FirstRestart
<1>6. ASSUME UNCHANGED vars PROVE First'
  BY <1>6, FirstFrameStep DEF FirstFrame, vars, histVars
<1>7. QED BY <1>1, <1>2, <1>3, <1>4, <1>5, <1>6 DEF Next, Serves

\* The layer holds at the start.
LEMMA InitFirst == Init => First
BY ConstantsAssumption DEF Init, First, ConfigInv, FounderInv, Good, At, Rest, IsConfigured, Exists, Account,
   NoAccount, Threads

\* The layer holds always.
LEMMA FirstAlways == Spec => [](TypeOK /\ First)
<1>1. TypeOK /\ First /\ [Next]_vars => First'
  BY FirstStep
<1>2. QED BY <1>1, InitTypes, InitFirst, TypeStep, PTL DEF Spec

\* An instance with users always has an admin who can administer it.
THEOREM AdminRemainsHolds == Spec => []AdminRemains
<1>1. First => AdminRemains
  BY DEF First, ConfigInv, Good, AdminRemains, IsConfigured, IsAdmin, Exists, Account
<1>2. QED BY <1>1, FirstAlways, PTL

\* One account at most is ever created by the first-run setup.
THEOREM OneFounderHolds == Spec => []OneFounder
<1>1. First => OneFounder
  <2>1. SUFFICES ASSUME First PROVE Cardinality(founders) <= 1
    BY DEF OneFounder
  <2>2. CASE founders = {}
    BY <2>2, FS_EmptySet
  <2>3. CASE founders # {}
    <3>1. PICK a : founders = {a}
      BY <2>1, <2>3 DEF First, FounderInv
    <3>2. QED BY <3>1, FS_Singleton
  <2>4. QED BY <2>2, <2>3
<1>2. QED BY <1>1, FirstAlways, PTL

\* Nobody but an admin is ever seen with the privileges of one.
THEOREM PrivilegesStayOwnHolds == Spec => []PrivilegesStayOwn
<1>1. TypeOK /\ First => PrivilegesStayOwn
  BY DEF TypeOK, Configs, First, ConfigInv, Good, PrivilegesStayOwn, IsAdmin, Exists, Account
<1>2. QED BY <1>1, FirstAlways, PTL

-----------------------------------------------------------------------------
(* The second layer: the table, its file, and the copies between them. *)

Opened(t) == owner[t] # NoAccount

\* A session that is anywhere was opened, once; one that a request revoked is
\* not in the table.
OpenedInv ==
  /\ \A t \in live \cup settled : Opened(t)
  /\ \A t \in Tokens : file[t] # NoName => Opened(t)
  /\ \A t \in live : user[t] # NoName
  /\ \A i \in DOMAIN writes : \A t \in writes[i].toks : Opened(t) /\ user[t] # NoName
  /\ \A p \in Threads : job[p].step \in {"save", "write"} =>
       \A t \in job[p].toks : Opened(t) /\ t \notin live

\* Each copy has a thread of its own that will write it.  What that thread
\* revoked is neither in its copy nor in a later one, and what was answered is
\* only in copies that are too late.
WriteInv ==
  /\ \A i \in DOMAIN writes : At(writes[i].by, "write")
  /\ \A i, k \in DOMAIN writes : writes[i].by = writes[k].by => i = k
  /\ \A i, k \in DOMAIN writes : i <= k =>
       \A t \in job[writes[i].by].toks : t \notin writes[k].toks
  /\ \A i \in DOMAIN writes : ~writes[i].late => \A t \in settled : t \notin writes[i].toks

Saving == \E p \in Threads : At(p, "save")

\* The last copy is of the table as it is, unless it is too late or another one
\* is about to be taken; with no copy on its way the file is the table, unless
\* it was clobbered.
FileInv ==
  /\ writes # <<>> /\ ~Saving => writes[Len(writes)].late \/ writes[Len(writes)].toks = live
  /\ writes = <<>> /\ ~Saving /\ ~clobbered =>
       \A t \in Tokens : file[t] = IF t \in live THEN user[t] ELSE NoName
  /\ ~clobbered => \A t \in settled : file[t] = NoName

SettledInv == \A t \in settled : t \notin live

Second == OpenedInv /\ WriteInv /\ FileInv /\ SettledInv

\* A step that leaves the table, the file and the copies alone.
SecondFrame ==
  /\ UNCHANGED <<live, user, file, writes, owner, settled, clobbered>>
  /\ \A p \in Threads : job[p].step \in {"save", "write"} => job'[p] = job[p]
  /\ \A p \in Threads : job'[p].step \in {"save", "write"} => job'[p] = job[p]

\* The loop drops sessions from the table and goes on to save it.
Dropped(gone) ==
  /\ gone \subseteq live /\ live' = live \ gone
  /\ job[Loop].step \notin {"save", "write"}
  /\ job'[Loop].step = "save" /\ job'[Loop].toks = gone
  /\ \A p \in Workers : job'[p] = job[p]
  /\ UNCHANGED <<user, file, writes, owner, settled, clobbered>>

\* What the types say of a copy.
LEMMA CopyFacts ==
  ASSUME TypeOK
  PROVE  /\ writes \in Seq(Copies) /\ Len(writes) \in Nat /\ DOMAIN writes = 1 .. Len(writes)
         /\ \A i \in DOMAIN writes :
              /\ writes[i] \in Copies /\ writes[i].by \in Threads /\ writes[i].toks \subseteq Tokens
              /\ writes[i].late \in BOOLEAN
         /\ (writes = <<>> <=> Len(writes) = 0)
<1>1. writes \in Seq(Copies)
  BY DEF TypeOK, Copies
<1>2. \A i \in 1 .. Len(writes) : writes[i] \in Copies
  BY <1>1
<1>3. QED BY <1>1, <1>2, EmptySeq, LenProperties DEF Copies

\* A step that leaves the layer alone keeps it.
LEMMA SecondFrameStep == ASSUME TypeOK, Second, SecondFrame PROVE Second'
<1> USE DEF Second, SecondFrame
<1>1. OpenedInv'
  BY CopyFacts DEF OpenedInv, Opened
<1>2. WriteInv'
  BY CopyFacts DEF WriteInv, At
<1>3. Saving' <=> Saving
  BY DEF Saving, At
<1>4. FileInv'
  BY <1>3 DEF FileInv
<1>5. SettledInv'
  BY DEF SettledInv
<1>6. QED BY <1>1, <1>2, <1>4, <1>5

\* Sessions are dropped.
LEMMA DroppedStep ==
  ASSUME TypeOK, Second, NEW gone, Dropped(gone) PROVE Second'
<1> USE ConstantsAssumption DEF Second, Dropped
<1>1. Loop \in Threads /\ \A p \in Threads : p # Loop => job'[p] = job[p]
  BY DEF Threads
<1>2. OpenedInv'
  BY <1>1 DEF OpenedInv, Opened
<1>3. \A i \in DOMAIN writes : writes[i].by # Loop /\ job'[writes[i].by] = job[writes[i].by]
  BY <1>1, CopyFacts DEF WriteInv, At
<1>4. WriteInv'
  BY <1>3 DEF WriteInv, At
<1>5. Saving'
  BY <1>1 DEF Saving, At
<1>6. FileInv'
  BY <1>5 DEF FileInv
<1>7. SettledInv'
  BY DEF SettledInv
<1>8. QED BY <1>2, <1>4, <1>6, <1>7

\* The loop drops sessions when an account is deleted, at a logout, and when it
\* finds one orphaned or expired.
LEMMA DroppingActions ==
  ASSUME TypeOK, Second, PurgeSessions \/ \E t \in Tokens : RevokeToken(t) \/ ValidateToken(t)
  PROVE  SecondFrame \/ \E gone : Dropped(gone)
<1> USE ConstantsAssumption DEF At, Begins, Ends, Rest, Threads, histVars
<1>1. job \in [Threads -> Jobs] /\ Loop \in Threads /\ Workers \subseteq Threads \ {Loop}
  BY DEF TypeOK
<1>2. ASSUME NEW t \in Tokens, RevokeToken(t) \/ ValidateToken(t) PROVE Dropped({t})
  BY <1>1, <1>2 DEF RevokeToken, ValidateToken, Dropped
<1>3. ASSUME PurgeSessions PROVE SecondFrame \/ \E gone : Dropped(gone)
  <2>1. PICK gone : gone = SessionsOf(job[Loop].name)
    OBVIOUS
  <2>2. gone \subseteq live
    BY <2>1 DEF SessionsOf
  <2>3. CASE gone = {}
    <3>1. live' = live
      BY <1>3, <2>1, <2>3 DEF PurgeSessions
    <3>2. job' = [job EXCEPT ![Loop] = Rest] /\ job[Loop].step = "purge"
      BY <1>3, <2>1, <2>3 DEF PurgeSessions
    <3>3. SecondFrame
      BY <1>1, <1>3, <3>1, <3>2 DEF SecondFrame, PurgeSessions
    <3>4. QED BY <3>3
  <2>4. CASE gone # {}
    <3>1. Dropped(gone)
      BY <1>1, <1>3, <2>1, <2>2, <2>4 DEF PurgeSessions, Dropped
    <3>2. QED BY <3>1
  <2>5. QED BY <2>3, <2>4
<1>4. QED BY <1>2, <1>3

\* The loop's other steps but the last of a rename.
LEMMA LoopSecondFrame ==
  ASSUME TypeOK, \/ \E n \in Names, admin \in BOOLEAN : Signup(n) \/ AdminCreateUser(n, admin)
                 \/ \E t \in Tokens, r, n \in Names : DeleteUser(t, r, n) \/ SetAdmin(t, r, n)
                 \/ \E t \in Tokens, r, n, m \in Names : RenameUser(t, r, n, m)
                 \/ SetAdminSaves
  PROVE  SecondFrame
<1> USE ConstantsAssumption DEF SecondFrame, At, Begins, Ends, Rest, Threads, tableVars, histVars
<1>1. job \in [Threads -> Jobs] /\ Loop \in Threads
  BY DEF TypeOK
<1>2. ASSUME NEW n \in Names, NEW admin \in BOOLEAN, Signup(n) \/ AdminCreateUser(n, admin)
      PROVE  SecondFrame
  BY <1>2 DEF Signup, AdminCreateUser
<1>3. ASSUME NEW t \in Tokens, NEW r \in Names, NEW n \in Names, DeleteUser(t, r, n) PROVE SecondFrame
  BY <1>1, <1>3 DEF DeleteUser, AdminRequest
<1>4. ASSUME NEW t \in Tokens, NEW r \in Names, NEW n \in Names, SetAdmin(t, r, n) PROVE SecondFrame
  <2>1. PICK s \in {"promoting", "demoting"} : \E a : Begins(Loop, s, NoName, NoName, a, {})
    BY <1>4 DEF SetAdmin
  <2>2. QED BY <1>1, <1>4, <2>1 DEF SetAdmin, AdminRequest
<1>5. ASSUME NEW t \in Tokens, NEW r \in Names, NEW n \in Names, NEW m \in Names,
             RenameUser(t, r, n, m)
      PROVE  SecondFrame
  BY <1>1, <1>5 DEF RenameUser, AdminRequest
<1>6. ASSUME SetAdminSaves PROVE SecondFrame
  BY <1>1, <1>6 DEF SetAdminSaves
<1>7. QED BY <1>2, <1>3, <1>4, <1>5, <1>6

\* The workers' steps before the table is touched.
LEMMA WorkerSecondFrame ==
  ASSUME TypeOK, NEW w \in Workers,
         \/ \E n \in Names : SetupRequest(w, n) \/ VerifyPassword(w, n)
         \/ SetupChecks(w) \/ SetupCreates(w) \/ AdmitLogin(w) \/ RefuseSession(w)
         \/ \E t \in Tokens, n \in Names : VerifyCurrent(w, t, n)
         \/ ChangePassword(w) \/ ContinueChange(w)
  PROVE  SecondFrame
<1> USE ConstantsAssumption DEF At, tableVars, histVars
<1>1. job \in [Threads -> Jobs] /\ w \in Threads
  BY DEF TypeOK, Threads
<1>2. UNCHANGED <<live, user, file, writes, owner, settled, clobbered>>
  BY DEF SetupRequest, VerifyPassword, SetupChecks, SetupCreates, AdmitLogin, RefuseSession,
         VerifyCurrent, ChangePassword, ContinueChange
<1>3. job[w].step \notin {"save", "write"}
  BY DEF SetupRequest, VerifyPassword, SetupChecks, SetupCreates, AdmitLogin, RefuseSession,
         VerifyCurrent, ChangePassword, ContinueChange
<1> DEFINE Other == job'[w].step \notin {"save", "write"} /\ \A p \in Threads : p # w => job'[p] = job[p]
<1>4. Other
  <2>1. ASSUME NEW n \in Names, SetupRequest(w, n) \/ VerifyPassword(w, n) PROVE Other
    BY <1>1, <2>1 DEF SetupRequest, VerifyPassword, Begins
  <2>2. ASSUME NEW t \in Tokens, NEW n \in Names, VerifyCurrent(w, t, n) PROVE Other
    BY <1>1, <2>2 DEF VerifyCurrent, Begins
  <2>3. ASSUME Ends(w) PROVE Other
    BY <1>1, <2>3 DEF Ends, Rest
  <2>4. ASSUME NEW s \in {"founding", "admitted", "changed", "revoke"}, Goes(w, s) PROVE Other
    BY <1>1, <2>4 DEF Goes
  <2>6. ASSUME \/ SetupChecks(w) \/ SetupCreates(w) \/ AdmitLogin(w) \/ RefuseSession(w)
               \/ ChangePassword(w) \/ ContinueChange(w)
        PROVE  Ends(w) \/ \E s \in {"founding", "admitted", "changed", "revoke"} : Goes(w, s)
    BY <2>6 DEF SetupChecks, SetupCreates, AdmitLogin, RefuseSession, ChangePassword, ContinueChange
  <2>7. QED BY <2>1, <2>2, <2>3, <2>4, <2>6
<1>5. QED BY <1>2, <1>3, <1>4 DEF SecondFrame

\* The session objects of a renamed account get its new name.
LEMMA SecondMove == ASSUME TypeOK, Second, MoveSessions PROVE Second'
<1> USE ConstantsAssumption DEF Second
<1>1. job \in [Threads -> Jobs] /\ Loop \in Threads /\ user \in [Tokens -> Names \cup {NoName}]
      /\ job[Loop].step = "move" /\ live \subseteq Tokens
  BY DEF TypeOK, Threads, MoveSessions, At
<1>2. UNCHANGED <<live, file, writes, owner, settled, clobbered>>
  BY DEF MoveSessions, histVars
<1>3. PICK moved, n : moved = SessionsOf(job[Loop].name) /\ n = job[Loop].to
  OBVIOUS
<1>4. n \in Names
  BY <1>1, <1>3 DEF Jobs, Job
<1>5. \A t \in Tokens : user'[t] = IF t \in moved THEN n ELSE user[t]
  BY <1>3 DEF MoveSessions
<1>6. n # NoName /\ moved \subseteq live
  BY <1>3, <1>4 DEF SessionsOf
<1>7. /\ \A p \in Threads : p # Loop => job'[p] = job[p]
      /\ job'[Loop].step \notin {"write", "move"}
      /\ job'[Loop].toks = {} /\ (moved # {} => job'[Loop].step = "save")
      /\ (job'[Loop].step = "save" => moved # {})
  BY <1>1, <1>3 DEF MoveSessions, Begins, Ends, Rest
<1>8. \A t \in Tokens : user[t] # NoName => user'[t] # NoName
  BY <1>5, <1>6
<1>9. OpenedInv'
  BY <1>1, <1>2, <1>7, <1>8, CopyFacts DEF OpenedInv, Opened
<1>10. \A i \in DOMAIN writes : writes[i].by \in Threads \ {Loop}
  BY <1>1, CopyFacts DEF WriteInv, At
<1>11. WriteInv'
  BY <1>2, <1>7, <1>10 DEF WriteInv, At
<1>12. FileInv'
  <2>1. CASE moved = {}
    <3>1. Saving' <=> Saving
      BY <1>1, <1>7, <2>1 DEF Saving, At
    <3>2. QED BY <1>2, <1>5, <2>1, <3>1 DEF FileInv
  <2>2. CASE moved # {}
    <3>1. Saving'
      BY <1>1, <1>7, <2>2 DEF Saving, At
    <3>2. QED BY <1>2, <3>1 DEF FileInv
  <2>3. QED BY <2>1, <2>2
<1>13. SettledInv'
  BY <1>2 DEF SettledInv
<1>14. QED BY <1>9, <1>11, <1>12, <1>13

\* create_session_trusted: a session that was never there.
LEMMA SecondCreate ==
  ASSUME TypeOK, Second, NEW w \in Workers, NEW t \in Tokens, CreateSession(w, t) PROVE Second'
<1> USE ConstantsAssumption DEF Second
<1>1. job \in [Threads -> Jobs] /\ w \in Threads /\ job[w].step = "admitted"
  BY DEF TypeOK, Threads, CreateSession, At
<1>2. PICK n \in Names : n = job[w].name
  BY <1>1, JobNames DEF Named
<1>3. UNCHANGED <<file, writes, settled, clobbered>> /\ live' = live \cup {t} /\ ~Opened(t)
  BY DEF CreateSession, Opened
<1>4. PICK a : a = job[w].acct
  OBVIOUS
<1>5. \A u \in Tokens : /\ user'[u] = IF u = t THEN n ELSE user[u]
                        /\ owner'[u] = IF u = t THEN a ELSE owner[u]
  BY <1>2, <1>4 DEF CreateSession, TypeOK
<1>6. job'[w].step = "save" /\ job'[w].toks = {} /\ \A p \in Threads : p # w => job'[p] = job[p]
  BY <1>1 DEF CreateSession, Begins
<1>7. a # NoAccount
  BY <1>1, <1>4 DEF Jobs, Job, NoAccount, Accounts
<1>8. OpenedInv'
  <2>1. \A u \in Tokens : Opened(u) => u # t /\ owner'[u] = owner[u] /\ user'[u] = user[u]
    BY <1>3, <1>5
  <2>2. owner'[t] # NoAccount /\ user'[t] # NoName /\ t \notin settled /\ live \subseteq Tokens
        /\ settled \subseteq Tokens
    BY <1>2, <1>3, <1>5, <1>7 DEF OpenedInv, TypeOK
  <2>3. (\A u \in live \cup settled : Opened(u))'
    BY <1>3, <2>1, <2>2 DEF OpenedInv, Opened
  <2>4. (\A u \in Tokens : file[u] # NoName => Opened(u))'
    BY <1>3, <2>1 DEF OpenedInv, Opened
  <2>5. (\A u \in live : user[u] # NoName)'
    BY <1>3, <2>1, <2>2 DEF OpenedInv
  <2>6. (\A i \in DOMAIN writes : \A u \in writes[i].toks : Opened(u) /\ user[u] # NoName)'
    <3>1. SUFFICES ASSUME NEW i \in DOMAIN writes, NEW u \in writes[i].toks
                   PROVE  owner'[u] # NoAccount /\ user'[u] # NoName
      BY <1>3 DEF Opened
    <3>2. u \in Tokens /\ Opened(u) /\ user[u] # NoName
      BY CopyFacts DEF OpenedInv
    <3>3. QED BY <2>1, <3>2 DEF Opened
  <2>7. (\A p \in Threads : job[p].step \in {"save", "write"} =>
           \A u \in job[p].toks : Opened(u) /\ u \notin live)'
    <3>1. SUFFICES ASSUME NEW p \in Threads, job'[p].step \in {"save", "write"}, NEW u \in job'[p].toks
                   PROVE  owner'[u] # NoAccount /\ u \notin live'
      BY DEF Opened
    <3>2. p # w /\ job'[p] = job[p]
      BY <1>6, <3>1
    <3>3. u \in Tokens
      BY <1>1, <3>1, <3>2 DEF Jobs, Job
    <3>4. Opened(u) /\ u \notin live
      BY <3>1, <3>2 DEF OpenedInv
    <3>5. QED BY <1>3, <2>1, <3>3, <3>4 DEF Opened
  <2>8. QED BY <2>3, <2>4, <2>5, <2>6, <2>7 DEF OpenedInv
<1>9. \A i \in DOMAIN writes : writes[i].by # w /\ writes[i].by \in Threads
  BY <1>1, CopyFacts DEF WriteInv, At
<1>10. WriteInv'
  BY <1>3, <1>6, <1>9 DEF WriteInv, At
<1>11. Saving'
  BY <1>1, <1>6 DEF Saving, At
<1>12. FileInv'
  BY <1>3, <1>11 DEF FileInv
<1>13. SettledInv'
  BY <1>3 DEF SettledInv, OpenedInv
<1>14. QED BY <1>8, <1>10, <1>12, <1>13

\* What Append does, by positions.
LEMMA AppendFacts ==
  ASSUME NEW S, NEW q \in Seq(S), NEW c \in S, NEW r, r = Append(q, c)
  PROVE  /\ DOMAIN r = 1 .. Len(q) + 1 /\ Len(r) = Len(q) + 1 /\ r # <<>>
         /\ \A k \in 1 .. Len(q) : r[k] = q[k]
         /\ r[Len(q) + 1] = c
BY AppendProperties, EmptySeq

\* A copy of the table is taken.
LEMMA SecondSnapshot ==
  ASSUME TypeOK, Second, NEW p \in Threads, Snapshot(p) PROVE Second'
<1> USE DEF Second
<1> DEFINE n == Len(writes) + 1
<1>1. job \in [Threads -> Jobs] /\ job[p].step = "save"
  BY DEF TypeOK, Snapshot, At
<1>2. UNCHANGED <<live, user, file, owner, settled, clobbered>>
  BY DEF Snapshot, tableVars, histVars
<1>3. /\ job'[p].step = "write" /\ job'[p].toks = job[p].toks
      /\ \A o \in Threads : o # p => job'[o] = job[o]
  BY <1>1 DEF Snapshot, Goes, Jobs, Job
<1>4. PICK c \in Copies : /\ writes' = Append(writes, c) /\ c.by = p /\ c.toks = live /\ ~c.late
  <2>1. PICK c : c = [by |-> p, toks |-> live, late |-> FALSE]
    OBVIOUS
  <2>2. c \in Copies /\ c.by = p /\ c.toks = live /\ ~c.late
    BY <2>1 DEF Copies, TypeOK
  <2>3. writes' = Append(writes, c)
    BY <2>1 DEF Snapshot
  <2>4. QED BY <2>2, <2>3
<1>5. /\ DOMAIN writes' = 1 .. n /\ Len(writes') = n /\ writes' # <<>>
      /\ \A k \in 1 .. Len(writes) : writes'[k] = writes[k]
      /\ writes'[n] = c /\ Len(writes) \in Nat /\ DOMAIN writes = 1 .. Len(writes)
  BY <1>4, CopyFacts, AppendFacts
<1>6. \A k \in 1 .. n : \/ k = n
                        \/ k \in DOMAIN writes /\ k < n /\ writes'[k] = writes[k] /\ writes[k].by # p
                           /\ writes[k].by \in Threads
  BY <1>1, <1>5, CopyFacts DEF WriteInv, At
<1> HIDE DEF n
<1>7. OpenedInv'
  <2>1. (\A i \in DOMAIN writes : \A t \in writes[i].toks : Opened(t) /\ user[t] # NoName)'
    <3>1. SUFFICES ASSUME NEW i \in 1 .. n, NEW t \in writes'[i].toks
                   PROVE  Opened(t) /\ user[t] # NoName
      BY <1>2, <1>5 DEF Opened
    <3>2. CASE i = n
      BY <1>4, <1>5, <3>2 DEF OpenedInv
    <3>3. CASE i # n
      BY <1>6, <3>3 DEF OpenedInv
    <3>4. QED BY <3>2, <3>3
  <2>2. QED BY <1>1, <1>2, <1>3, <2>1 DEF OpenedInv, Opened
<1>8. WriteInv'
  <2>1. (\A i \in DOMAIN writes : At(writes[i].by, "write"))'
    BY <1>3, <1>4, <1>5, <1>6 DEF WriteInv, At
  <2>2. (\A i, k \in DOMAIN writes : writes[i].by = writes[k].by => i = k)'
    BY <1>4, <1>5, <1>6 DEF WriteInv
  <2>3. (\A i, k \in DOMAIN writes : i <= k => \A t \in job[writes[i].by].toks : t \notin writes[k].toks)'
    <3>1. SUFFICES ASSUME NEW i \in 1 .. n, NEW k \in 1 .. n, i <= k,
                          NEW t \in job'[writes'[i].by].toks
                   PROVE  t \notin writes'[k].toks
      BY <1>5
    <3>2. writes'[i].by \in Threads /\ t \in job[writes'[i].by].toks
          /\ job[writes'[i].by].step \in {"save", "write"}
      BY <1>1, <1>3, <1>4, <1>5, <1>6, <3>1 DEF WriteInv, At
    <3>3. CASE k = n
      BY <1>4, <1>5, <3>2, <3>3 DEF OpenedInv
    <3>4. CASE k # n
      <4>1. i # n
        BY <1>5, <1>6, <3>1, <3>4
      <4>2. QED BY <1>6, <3>1, <3>2, <3>4, <4>1 DEF WriteInv
    <3>5. QED BY <3>3, <3>4
  <2>4. (\A i \in DOMAIN writes : ~writes[i].late => \A t \in settled : t \notin writes[i].toks)'
    BY <1>2, <1>4, <1>5, <1>6 DEF WriteInv, SettledInv
  <2>5. QED BY <2>1, <2>2, <2>3, <2>4 DEF WriteInv
<1>9. FileInv'
  BY <1>2, <1>4, <1>5 DEF FileInv
<1>10. SettledInv'
  BY <1>2 DEF SettledInv
<1>11. QED BY <1>7, <1>8, <1>9, <1>10

\* A copy is written, and its request is answered.
LEMMA SecondWriteFile ==
  ASSUME TypeOK, Second, NEW i \in DOMAIN writes, WriteFile(i) PROVE Second'
<1> USE DEF Second
<1> DEFINE n == Len(writes) - 1
           m(k) == IF k < i THEN k ELSE k + 1
<1>1. job \in [Threads -> Jobs] /\ writes \in Seq(Copies) /\ Len(writes) \in Nat
      /\ DOMAIN writes = 1 .. Len(writes) /\ (writes = <<>> <=> Len(writes) = 0)
  BY CopyFacts DEF TypeOK
<1>2. PICK c, p : c = writes[i] /\ p = c.by
  OBVIOUS
<1>3. p \in Threads /\ job[p].step = "write" /\ c \in Copies
  BY <1>2, CopyFacts DEF WriteInv, At
<1>4. /\ UNCHANGED <<live, user, owner>>
      /\ file' = [t \in Tokens |-> IF t \in c.toks THEN user[t] ELSE NoName]
      /\ clobbered' = c.late /\ settled' = settled \cup job[p].toks
      /\ job' = [job EXCEPT ![p] = Rest]
  BY <1>2 DEF WriteFile, Ends, tableVars
<1>5. job'[p].step = "idle" /\ job'[p].toks = {} /\ \A o \in Threads : o # p => job'[o] = job[o]
  BY <1>1, <1>3, <1>4 DEF Rest
<1>6. /\ writes' \in Seq(Copies) /\ Len(writes') = n /\ DOMAIN writes' = 1 .. n
      /\ (writes' = <<>> <=> n = 0)
      /\ \A k \in 1 .. n :
           /\ k < i => writes'[k].by = writes[k].by /\ writes'[k].toks = writes[k].toks /\ writes'[k].late
           /\ ~(k < i) => writes'[k] = writes[k + 1]
  <2>1. PICK r : r = [k \in 1 .. Len(writes) - 1 |->
                        IF k < i THEN [writes[k] EXCEPT !.late = TRUE] ELSE writes[k + 1]]
    OBVIOUS
  <2>2. writes' = r
    BY <2>1 DEF WriteFile
  <2>3. r \in Seq(Copies) /\ Len(r) = n
    BY <1>1, <2>1, WrittenCopies
  <2>4. \A k \in 1 .. n :
           /\ k < i => r[k].by = writes[k].by /\ r[k].toks = writes[k].toks /\ r[k].late
           /\ ~(k < i) => r[k] = writes[k + 1]
    BY <1>1, <2>1, WrittenCopies
  <2>5. r = <<>> <=> n = 0
    BY <2>3, EmptySeq
  <2>6. DOMAIN r = 1 .. n
    BY <2>3
  <2>7. QED BY <2>2, <2>3, <2>4, <2>5, <2>6
<1>7. \A k \in 1 .. n : /\ m(k) \in DOMAIN writes /\ m(k) # i
                        /\ writes'[k].by = writes[m(k)].by /\ writes'[k].toks = writes[m(k)].toks
                        /\ ~writes'[k].late => ~writes[m(k)].late /\ i <= m(k)
  BY <1>1, <1>6
<1>8. \A k, l \in 1 .. n : (m(k) = m(l) => k = l) /\ (k <= l => m(k) <= m(l))
  BY <1>1
<1> HIDE DEF n, m
<1>9. \A k \in 1 .. n : /\ writes'[k].by \in Threads /\ job'[writes'[k].by] = job[writes'[k].by]
                        /\ job[writes'[k].by].step = "write"
  <2>1. SUFFICES ASSUME NEW k \in 1 .. n
                 PROVE  /\ writes'[k].by \in Threads /\ job'[writes'[k].by] = job[writes'[k].by]
                        /\ job[writes'[k].by].step = "write"
    OBVIOUS
  <2>2. PICK l \in DOMAIN writes : l # i /\ writes'[k].by = writes[l].by
    BY <1>7
  <2>3. writes[l].by # p /\ writes[l].by \in Threads /\ job[writes[l].by].step = "write"
    BY <1>2, <2>2, CopyFacts DEF WriteInv, At
  <2>4. QED BY <1>5, <2>2, <2>3
<1>10. OpenedInv'
  <2>1. job[p].toks \subseteq Tokens /\ \A t \in job[p].toks : Opened(t) /\ t \notin live
    BY <1>1, <1>3 DEF OpenedInv, Jobs, Job
  <2>2. (\A t \in live \cup settled : Opened(t))'
    BY <1>4, <2>1 DEF OpenedInv, Opened
  <2>3. (\A t \in Tokens : file[t] # NoName => Opened(t))'
    BY <1>2, <1>4 DEF OpenedInv, Opened
  <2>4. (\A k \in DOMAIN writes : \A t \in writes[k].toks : Opened(t) /\ user[t] # NoName)'
    BY <1>4, <1>6, <1>7 DEF OpenedInv, Opened
  <2>5. QED BY <1>4, <1>5, <2>2, <2>3, <2>4 DEF OpenedInv, Opened
<1>11. \A l \in DOMAIN writes : i <= l => \A t \in job[p].toks : t \notin writes[l].toks
  BY <1>2 DEF WriteInv
<1>12. WriteInv'
  <2>1. (\A k \in DOMAIN writes : At(writes[k].by, "write"))'
    BY <1>6, <1>9 DEF At
  <2>2. (\A k, l \in DOMAIN writes : writes[k].by = writes[l].by => k = l)'
    BY <1>6, <1>7, <1>8 DEF WriteInv
  <2>3. (\A k, l \in DOMAIN writes : k <= l => \A t \in job[writes[k].by].toks : t \notin writes[l].toks)'
    BY <1>6, <1>7, <1>8, <1>9 DEF WriteInv
  <2>4. (\A k \in DOMAIN writes : ~writes[k].late => \A t \in settled : t \notin writes[k].toks)'
    BY <1>4, <1>6, <1>7, <1>11 DEF WriteInv
  <2>5. QED BY <2>1, <2>2, <2>3, <2>4 DEF WriteInv
<1>13. Saving' <=> Saving
  BY <1>3, <1>5 DEF Saving, At
<1>14. FileInv'
  <2>1. (writes # <<>> /\ ~Saving => writes[Len(writes)].late \/ writes[Len(writes)].toks = live)'
    <3>1. SUFFICES ASSUME n \in 1 .. n, ~Saving
                   PROVE  writes'[n].late \/ writes'[n].toks = live
      BY <1>1, <1>4, <1>6, <1>13 DEF n
    <3>2. CASE n < i
      BY <1>6, <3>1, <3>2
    <3>3. CASE ~(n < i)
      BY <1>1, <1>6, <3>1, <3>3 DEF FileInv, n
    <3>4. QED BY <3>2, <3>3
  <2>2. (writes = <<>> /\ ~Saving /\ ~clobbered =>
           \A t \in Tokens : file[t] = IF t \in live THEN user[t] ELSE NoName)'
    <3>1. SUFFICES ASSUME n = 0, ~Saving, ~c.late PROVE c.toks = live
      BY <1>4, <1>6, <1>13
    <3>2. Len(writes) = 1
      <4>1. \A x \in Nat : x - 1 = 0 => x = 1
        OBVIOUS
      <4>2. Len(writes) \in Nat /\ Len(writes) - 1 = 0
        BY <1>1, <3>1 DEF n
      <4>3. QED BY <4>1, <4>2
    <3>3. i = Len(writes) /\ writes # <<>>
      BY <1>1, <3>2
    <3>4. QED BY <1>2, <3>1, <3>3 DEF FileInv
  <2>3. (~clobbered => \A t \in settled : file[t] = NoName)'
    <3>1. SUFFICES ASSUME ~c.late, NEW t \in settled \cup job[p].toks PROVE file'[t] = NoName
      BY <1>4
    <3>2. t \notin c.toks /\ t \in Tokens
      BY <1>1, <1>2, <1>3, <1>11, <3>1 DEF WriteInv, TypeOK, Jobs, Job
    <3>3. QED BY <1>4, <3>2
  <2>4. QED BY <2>1, <2>2, <2>3 DEF FileInv
<1>15. SettledInv'
  BY <1>3, <1>4 DEF SettledInv, OpenedInv
<1>16. QED BY <1>10, <1>12, <1>14, <1>15

\* revoke_user_sessions, which writes the file under the lock.
LEMMA SecondRevoke ==
  ASSUME TypeOK, Second, NEW w \in Workers, RevokeUserSessions(w) PROVE Second'
<1>1. job \in [Threads -> Jobs] /\ w \in Threads /\ job[w].step = "revoke"
  BY DEF TypeOK, Threads, RevokeUserSessions, At
<1>2. PICK gone : gone = SessionsOf(job[w].name) \ job[w].toks
  OBVIOUS
<1>3. gone \subseteq live /\ live \subseteq Tokens
  BY <1>2 DEF SessionsOf, TypeOK
<1>4. /\ live' = live \ gone /\ settled' = settled \cup gone /\ UNCHANGED <<user, owner>>
      /\ gone = {} => UNCHANGED <<file, writes, clobbered>>
      /\ gone # {} => /\ file' = [t \in Tokens |-> IF t \in live' THEN user[t] ELSE NoName]
                      /\ writes' = [i \in DOMAIN writes |-> [writes[i] EXCEPT !.late = TRUE]]
                      /\ clobbered' = FALSE
      /\ Ends(w)
  BY <1>2 DEF RevokeUserSessions
<1>5. job'[w].step = "idle" /\ \A p \in Threads : p # w => job'[p] = job[p]
  BY <1>1, <1>4 DEF Ends, Rest
<1>6. ASSUME gone = {} PROVE Second'
  <2>1. live' = live /\ settled' = settled
    BY <1>4, <1>6
  <2>2. SecondFrame
    BY <1>1, <1>4, <1>5, <1>6, <2>1 DEF SecondFrame
  <2>3. QED BY <2>2, SecondFrameStep
<1>7. ASSUME gone # {} PROVE Second'
  <2> USE DEF Second
  <2>1. writes' \in Seq(Copies) /\ DOMAIN writes' = DOMAIN writes /\ Len(writes') = Len(writes)
        /\ \A k \in DOMAIN writes : writes'[k].by = writes[k].by /\ writes'[k].toks = writes[k].toks
                                    /\ writes'[k].late
    <3>1. PICK r : r = [i \in DOMAIN writes |-> [writes[i] EXCEPT !.late = TRUE]]
      OBVIOUS
    <3>2. writes' = r
      BY <1>4, <1>7, <3>1
    <3>3. r \in Seq(Copies) /\ Len(r) = Len(writes)
      BY <3>1, CopyFacts, LateCopies
    <3>4. \A k \in DOMAIN writes : r[k].by = writes[k].by /\ r[k].toks = writes[k].toks /\ r[k].late
      <4>1. PICK q \in Seq(Copies) : q = writes
        BY CopyFacts
      <4>2. r = [k \in DOMAIN q |-> [q[k] EXCEPT !.late = TRUE]]
        BY <3>1, <4>1
      <4>3. \A k \in 1 .. Len(q) : r[k].by = q[k].by /\ r[k].toks = q[k].toks /\ r[k].late
        BY <4>2, LateCopies
      <4>4. QED BY <4>1, <4>3
    <3>5. DOMAIN r = DOMAIN writes
      BY <3>1
    <3>6. QED BY <3>2, <3>3, <3>4, <3>5
  <2>2. \A k \in DOMAIN writes : writes[k].by \in Threads /\ writes[k].by # w
    BY <1>1, CopyFacts DEF WriteInv, At
  <2>3. OpenedInv'
    BY <1>3, <1>4, <1>5, <1>7, <2>1 DEF OpenedInv, Opened
  <2>4. WriteInv'
    BY <1>5, <2>1, <2>2 DEF WriteInv, At
  <2>5. FileInv'
    <3>1. writes' # <<>> => Len(writes') \in DOMAIN writes
      BY <2>1, CopyFacts, EmptySeq
    <3>2. (\A t \in settled : file[t] = NoName)'
      BY <1>3, <1>4, <1>7 DEF SettledInv, TypeOK
    <3>3. QED BY <1>4, <1>7, <2>1, <3>1, <3>2 DEF FileInv
  <2>6. SettledInv'
    BY <1>4 DEF SettledInv
  <2>7. QED BY <2>3, <2>4, <2>5, <2>6
<1>8. QED BY <1>6, <1>7

\* A restart loads what the file has.
LEMMA SecondRestart ==
  ASSUME TypeOK, Second, NEW loaded \in SUBSET Tokens, Restart(loaded) PROVE Second'
<1> USE DEF Second
<1>1. /\ \A t \in loaded : file[t] # NoName
      /\ live' = loaded /\ file' = user' /\ writes' = <<>> /\ owner' = owner /\ ~clobbered'
      /\ \A t \in Tokens : user'[t] = IF t \in loaded THEN file[t] ELSE NoName
      /\ settled' = IF clobbered THEN settled \ loaded ELSE settled
      /\ \A p \in Threads : job'[p].step = "idle"
      /\ loaded \subseteq Tokens /\ settled \subseteq Tokens
  BY DEF Restart, Rest, TypeOK
<1>2. DOMAIN writes' = {}
  BY <1>1
<1>3. \A t \in settled' : t \notin loaded
  BY <1>1 DEF FileInv
<1>4. OpenedInv'
  BY <1>1, <1>2 DEF OpenedInv, Opened
<1>5. WriteInv'
  BY <1>2 DEF WriteInv
<1>6. FileInv'
  BY <1>1, <1>3 DEF FileInv
<1>7. SettledInv'
  BY <1>1, <1>3 DEF SettledInv
<1>8. QED BY <1>4, <1>5, <1>6, <1>7

\* Every step keeps the layer.
LEMMA SecondStep == ASSUME TypeOK, Second, [Next]_vars PROVE Second'
<1>1. ASSUME LoopStep PROVE Second'
  BY <1>1, SecondFrameStep, DroppedStep, DroppingActions, LoopSecondFrame, SecondMove DEF LoopStep
<1>2. ASSUME NEW w \in Workers, WorkerStep(w) PROVE Second'
  BY <1>2, SecondFrameStep, WorkerSecondFrame, SecondCreate, SecondRevoke DEF WorkerStep
<1>3. ASSUME NEW n \in Names, Signup(n) PROVE Second'
  BY <1>3, SecondFrameStep, LoopSecondFrame
<1>4. ASSUME NEW p \in Threads, Snapshot(p) PROVE Second'
  BY <1>4, SecondSnapshot
<1>5. ASSUME NEW i \in DOMAIN writes, WriteFile(i) PROVE Second'
  BY <1>5, SecondWriteFile
<1>6. ASSUME NEW loaded \in SUBSET Tokens, Restart(loaded) PROVE Second'
  BY <1>6, SecondRestart
<1>7. ASSUME UNCHANGED vars PROVE Second'
  BY <1>7, SecondFrameStep DEF SecondFrame, vars, tableVars, histVars
<1>8. QED BY <1>1, <1>2, <1>3, <1>4, <1>5, <1>6, <1>7 DEF Next, Serves

\* The layer holds at the start.
LEMMA InitSecond == Init => Second
BY DEF Init, Second, OpenedInv, WriteInv, FileInv, SettledInv, Opened, Rest, NoAccount

\* The layer holds always.
LEMMA SecondAlways == Spec => []Second
<1>1. TypeOK /\ Second /\ [Next]_vars => Second'
  BY SecondStep
<1>2. QED BY <1>1, TypeCorrect, InitSecond, PTL DEF Spec

\* A session whose revocation was answered is never back.
THEOREM RevokedForGoodHolds == Spec => []RevokedForGood
<1>1. Second => RevokedForGood
  BY DEF Second, SettledInv, RevokedForGood
<1>2. QED BY <1>1, SecondAlways, PTL
-----------------------------------------------------------------------------
(* The third layer: the accounts that the sessions speak for. *)

\* The name a session will have once a rename under way has reached it.
NameOf(t) == IF At(Loop, "move") /\ user[t] = job[Loop].name THEN job[Loop].to ELSE user[t]

USE DEF Overdue

\* Nothing refers to an account that was not made; sessions with a history were
\* opened; a rename under way is to another name that somebody has.
KnownInv ==
  /\ \A t \in Tokens : owner[t] <= made
  /\ \A w \in Workers : job[w].step \in {"verified", "admitted"} => job[w].acct <= made
  /\ \A t \in crossed \cup Overdue : Opened(t)
  /\ At(Loop, "move") => job[Loop].to # job[Loop].name /\ Exists(job[Loop].to)

\* A session has the name of its account, or will have it once the rename has
\* reached it, or is about to be purged with its account; an admitted login to
\* a name that is being moved is not to the account that has that name now.
SessionInv ==
  /\ \A t \in live \ crossed :
       \/ Account(NameOf(t)) = owner[t]
       \/ /\ At(Loop, "purge") /\ user[t] = job[Loop].name
          /\ \A n \in Names : Account(n) # owner[t]
  /\ At(Loop, "move") => \A w \in Workers :
       At(w, "admitted") /\ job[w].name = job[Loop].name => job[w].acct # Account(job[w].name)

\* A change of password that is under way will drop t.
Covers(w, t) == WillRevoke(w, user[t], t)

\* An overdue session is about to be revoked.
ChangeInv == \A t \in Overdue \cap live : \E w \in Workers : Covers(w, t)

Third == KnownInv /\ SessionInv /\ ChangeInv

\* What the first two layers are needed for here.
LEMMA BelowFacts ==
  ASSUME TypeOK, First, Second
  PROVE  /\ \A n \in Names : Account(n) \in Nat /\ Account(n) <= made
         /\ \A n, m \in Names : Exists(n) /\ Account(n) = Account(m) => n = m
         /\ \A t \in live : Opened(t) /\ user[t] \in Names /\ t \in Tokens
         /\ \A t \in Tokens : owner[t] \in Nat
         /\ made \in Nat
<1>1. \A n \in Names : Account(n) \in Nat /\ Account(n) <= made
  BY DEF TypeOK, Configs, Accounts, NoAccount, First, ConfigInv, Good, Account
<1>2. \A n, m \in Names : Exists(n) /\ Account(n) = Account(m) => n = m
  BY DEF First, ConfigInv, Good, Account, Exists
<1>3. \A t \in live : Opened(t) /\ user[t] \in Names /\ t \in Tokens
  BY DEF TypeOK, Second, OpenedInv
<1>4. (\A t \in Tokens : owner[t] \in Nat) /\ made \in Nat
  BY ConstantsAssumption DEF TypeOK, Accounts, NoAccount
<1>5. QED BY <1>1, <1>2, <1>3, <1>4

\* A step that opens no session, moves no name and begins or ends no change of a
\* password: at most an account is made, or sessions go.
ThirdFrame ==
  /\ UNCHANGED <<user, owner, crossed>> /\ live' \subseteq live /\ Overdue' \subseteq Overdue
  /\ made' \in Nat /\ made <= made'
  /\ \A n \in Names : \/ auth'.row[n] = auth.row[n]
                      \/ auth.row[n] = NoAccount /\ auth'.row[n] \in Nat /\ auth'.row[n] > made
  /\ job[Loop].step \in {"move", "purge"} \/ job'[Loop].step \in {"move", "purge"}
       => job'[Loop] = job[Loop]
  /\ \A w \in Workers :
       /\ job[w].step \in {"changed", "revoke"} => job'[w] = job[w]
       /\ job'[w].step = "verified" => job'[w] = job[w] \/ job'[w].acct <= made
       /\ job'[w].step = "admitted" =>
            /\ job'[w].name = job[w].name /\ job'[w].acct = job[w].acct
            /\ \/ job[w].step = "admitted"
               \/ job[w].step = "verified" /\ job[Loop].step = "idle"

\* Such a step keeps the layer.
LEMMA ThirdFrameStep ==
  ASSUME TypeOK, TypeOK', First, Second, Third, ThirdFrame PROVE Third'
<1>1. /\ \A n \in Names : Account(n) \in Nat /\ Account(n) <= made
      /\ \A t \in live : Opened(t) /\ user[t] \in Names /\ t \in Tokens
      /\ \A t \in Tokens : owner[t] \in Nat
      /\ made \in Nat
  BY BelowFacts
<1>2. job \in [Threads -> Jobs] /\ Loop \in Threads /\ Workers \subseteq Threads
  BY DEF TypeOK, Threads
<1>3. UNCHANGED <<user, owner, crossed>> /\ live' \subseteq live /\ Overdue' \subseteq Overdue
      /\ made' \in Nat /\ made <= made'
      /\ \A t : Opened(t)' <=> Opened(t)
  BY DEF ThirdFrame, Opened
<1>4. \A w \in Workers : job[w].step \in {"verified", "admitted"} =>
        job[w].acct \in Nat /\ job[w].acct <= made /\ job[w].name \in Names
  BY <1>2 DEF Jobs, Job, Accounts, Third, KnownInv
<1>5. At(Loop, "move") => job[Loop].to \in Names /\ job[Loop].name \in Names
  BY <1>2 DEF Jobs, Job, At
<1>6. /\ At(Loop, "move")' <=> At(Loop, "move")
      /\ At(Loop, "purge")' <=> At(Loop, "purge")
      /\ At(Loop, "move") \/ At(Loop, "purge") => job'[Loop] = job[Loop]
  BY DEF ThirdFrame, At
<1>7. \A n \in Names : \/ Account(n)' = Account(n)
                       \/ ~Exists(n) /\ Account(n)' \in Nat /\ Account(n)' > made
  BY DEF ThirdFrame, Account, Exists
<1>8. KnownInv'
  <2>1. (\A t \in Tokens : owner[t] <= made)'
    BY <1>1, <1>3 DEF Third, KnownInv
  <2>2. (\A w \in Workers : job[w].step \in {"verified", "admitted"} => job[w].acct <= made)'
    <3>1. SUFFICES ASSUME NEW w \in Workers, job'[w].step \in {"verified", "admitted"}
                   PROVE  job'[w].acct <= made'
      OBVIOUS
    <3>2. CASE job'[w].step = "admitted"
      <4>1. job'[w].acct \in Nat /\ job'[w].acct <= made
        BY <1>4, <3>2 DEF ThirdFrame
      <4>2. QED BY <1>1, <1>3, <4>1
    <3>3. CASE job'[w].step = "verified"
      <4>1. job'[w].acct <= made /\ job'[w].acct \in Nat
        <5>1. job'[w] \in Jobs
          BY <1>2 DEF TypeOK
        <5>2. job'[w].acct \in Nat
          BY <3>3, <5>1 DEF Jobs, Job, Accounts
        <5>3. job'[w].acct <= made
          BY <3>3 DEF ThirdFrame, Third, KnownInv
        <5>4. QED BY <5>2, <5>3
      <4>2. QED BY <1>1, <1>3, <4>1
    <3>4. QED BY <3>1, <3>2, <3>3
  <2>3. (\A t \in crossed \cup Overdue : Opened(t))'
    BY <1>3 DEF Third, KnownInv
  <2>4. (At(Loop, "move") => job[Loop].to # job[Loop].name /\ Exists(job[Loop].to))'
    <3>1. SUFFICES ASSUME At(Loop, "move")'
                   PROVE  job'[Loop].to # job'[Loop].name /\ auth'.row[job'[Loop].to] # NoAccount
      BY DEF Exists, Account
    <3>2. PICK n \in Names : n = job[Loop].to
      BY <1>5, <1>6, <3>1
    <3>3. job'[Loop] = job[Loop] /\ n # job[Loop].name /\ Exists(n)
      BY <1>6, <3>1, <3>2 DEF Third, KnownInv
    <3>4. QED BY <1>7, <3>2, <3>3 DEF Exists, Account
  <2>5. QED BY <2>1, <2>2, <2>3, <2>4 DEF KnownInv
<1>9. \A t : NameOf(t)' = NameOf(t)
  BY <1>3, <1>6 DEF NameOf
<1>10. SessionInv'
  <2>1. ASSUME NEW t \in live', t \notin crossed'
        PROVE  (\/ Account(NameOf(t)) = owner[t]
                \/ /\ At(Loop, "purge") /\ user[t] = job[Loop].name
                   /\ \A n \in Names : Account(n) # owner[t])'
    <3>1. t \in live /\ t \notin crossed /\ t \in Tokens /\ owner[t] # NoAccount /\ owner[t] \in Nat
          /\ owner[t] <= made
      BY <1>1, <1>3, <2>1 DEF Opened, Third, KnownInv
    <3>2. PICK n \in Names : n = NameOf(t)
      BY <1>1, <1>5, <3>1 DEF NameOf
    <3>3. CASE Account(n) = owner[t]
      <4>1. Account(n)' = owner[t]
        BY <1>7, <3>1, <3>3 DEF Exists
      <4>2. QED BY <1>3, <1>9, <3>2, <4>1 DEF Account
    <3>4. CASE ~(Account(n) = owner[t])
      <4>1. At(Loop, "purge") /\ user[t] = job[Loop].name /\ \A k \in Names : Account(k) # owner[t]
        BY <3>1, <3>2, <3>4 DEF Third, SessionInv
      <4>2. \A k \in Names : Account(k)' # owner[t]
        BY <1>1, <1>7, <3>1, <4>1
      <4>3. QED BY <1>3, <1>6, <4>1, <4>2 DEF Account
    <3>5. QED BY <3>3, <3>4
  <2>2. ASSUME At(Loop, "move")', NEW w \in Workers, At(w, "admitted")',
               job'[w].name = job'[Loop].name
        PROVE  job'[w].acct # auth'.row[job'[w].name]
    <3>1. At(Loop, "move") /\ job'[Loop] = job[Loop] /\ At(w, "admitted")
          /\ job'[w].name = job[w].name /\ job'[w].acct = job[w].acct
      BY <1>6, <2>2 DEF ThirdFrame, At
    <3>2. PICK n \in Names : n = job[w].name
      BY <1>4, <3>1 DEF At
    <3>3. job[w].acct # Account(n) /\ job[w].acct \in Nat /\ job[w].acct <= made
      BY <1>4, <2>2, <3>1, <3>2 DEF Third, SessionInv, At
    <3>4. job[w].acct # Account(n)'
      BY <1>1, <1>7, <3>3
    <3>5. QED BY <3>1, <3>2, <3>4 DEF Account
  <2>3. QED BY <2>1, <2>2 DEF SessionInv, Account
<1>11. ChangeInv'
  <2>1. \A w \in Workers, t \in Tokens : Covers(w, t) => Covers(w, t)'
    <3>1. SUFFICES ASSUME NEW w \in Workers, NEW t \in Tokens, Covers(w, t) PROVE Covers(w, t)'
      OBVIOUS
    <3>2. job'[w] = job[w]
      BY <3>1 DEF Covers, WillRevoke, ThirdFrame
    <3>3. QED BY <1>3, <3>1, <3>2 DEF Covers, WillRevoke
  <2>2. QED BY <1>1, <1>3, <2>1 DEF Third, ChangeInv
<1>12. QED BY <1>8, <1>10, <1>11 DEF Third

\* A new account takes a name that nobody had.
LEMMA CreatedRows ==
  ASSUME TypeOK, NEW n \in Names, ~Exists(n), NEW admin \in BOOLEAN, CreateUser(n, admin)
  PROVE  /\ made' \in Nat /\ made <= made'
         /\ \A k \in Names : \/ auth'.row[k] = auth.row[k]
                             \/ auth.row[k] = NoAccount /\ auth'.row[k] \in Nat /\ auth'.row[k] > made
<1>1. made \in Nat /\ auth \in Configs /\ auth.row[n] = NoAccount
  BY ConstantsAssumption DEF TypeOK, Exists, Account
<1>2. made' = made + 1 /\ auth'.row = [auth.row EXCEPT ![n] = made + 1]
  BY <1>1 DEF CreateUser, Save, Configs
<1>3. \A k \in Names : auth'.row[k] = IF k = n THEN made + 1 ELSE auth.row[k]
  BY <1>1, <1>2 DEF Configs
<1>4. QED BY <1>1, <1>2, <1>3

\* The loop's steps of this kind, and a signup.
LEMMA LoopThirdFrame ==
  ASSUME TypeOK,
         \/ \E n \in Names, admin \in BOOLEAN : Signup(n) \/ AdminCreateUser(n, admin)
         \/ \E t \in Tokens, r, n \in Names : SetAdmin(t, r, n)
         \/ SetAdminSaves
         \/ \E t \in Tokens : RevokeToken(t) \/ ValidateToken(t)
  PROVE  ThirdFrame
<1> USE ConstantsAssumption DEF ThirdFrame, tableVars, histVars
<1>1. job \in [Threads -> Jobs] /\ Loop \in Threads /\ Workers \subseteq Threads \ {Loop}
      /\ made \in Nat /\ auth \in Configs
  BY DEF TypeOK, Threads
<1>2. ASSUME NEW n \in Names, NEW admin \in BOOLEAN, Signup(n) \/ AdminCreateUser(n, admin)
      PROVE  ThirdFrame
  <2>1. PICK b \in BOOLEAN : CreateUser(n, b)
    BY <1>2 DEF Signup, AdminCreateUser
  <2>2. ~Exists(n) /\ job' = job /\ UNCHANGED <<user, owner, crossed, live, Overdue>>
    BY <1>2 DEF Signup, AdminCreateUser
  <2>3. QED BY <1>1, <2>1, <2>2, CreatedRows
<1>3. ASSUME NEW t \in Tokens, NEW r \in Names, NEW n \in Names, SetAdmin(t, r, n) PROVE ThirdFrame
  <2>1. PICK s \in {"promoting", "demoting"} : \E a : Begins(Loop, s, NoName, NoName, a, {})
    BY <1>3 DEF SetAdmin
  <2>2. auth'.row = auth.row /\ UNCHANGED <<made, user, owner, crossed, live, Overdue>>
        /\ job[Loop].step = "idle"
    BY <1>1, <1>3 DEF SetAdmin, AdminRequest, At, Configs
  <2>3. job'[Loop].step \in {"promoting", "demoting"} /\ \A w \in Workers : job'[w] = job[w]
    BY <1>1, <2>1 DEF Begins
  <2>4. QED BY <1>1, <2>2, <2>3
<1>4. ASSUME SetAdminSaves PROVE ThirdFrame
  <2>1. auth'.row = auth.row /\ UNCHANGED <<made, user, owner, crossed, live, Overdue>>
        /\ job[Loop].step \in {"promoting", "demoting"}
    BY <1>1, <1>4 DEF SetAdminSaves, Save, At, Configs
  <2>2. job'[Loop].step = "idle" /\ \A w \in Workers : job'[w] = job[w]
    BY <1>1, <1>4 DEF SetAdminSaves, Ends, Rest
  <2>3. QED BY <1>1, <2>1, <2>2
<1>5. ASSUME NEW t \in Tokens, RevokeToken(t) \/ ValidateToken(t) PROVE ThirdFrame
  <2>1. UNCHANGED <<auth, made, user, owner, crossed, Overdue>> /\ job[Loop].step = "idle"
        /\ live' \subseteq live
    BY <1>5 DEF RevokeToken, ValidateToken, At
  <2>2. job'[Loop].step = "save" /\ \A w \in Workers : job'[w] = job[w]
    BY <1>1, <1>5 DEF RevokeToken, ValidateToken, Begins
  <2>3. QED BY <1>1, <2>1, <2>2
<1>6. QED BY <1>2, <1>3, <1>4, <1>5

\* The workers' steps of this kind.
LEMMA WorkerThirdFrame ==
  ASSUME TypeOK, First, NEW w \in Workers,
         \/ \E n \in Names : SetupRequest(w, n) \/ VerifyPassword(w, n)
         \/ SetupChecks(w) \/ SetupCreates(w) \/ AdmitLogin(w) \/ RefuseSession(w)
         \/ \E t \in Tokens, n \in Names : VerifyCurrent(w, t, n)
         \/ ChangePassword(w) /\ Ends(w)
  PROVE  ThirdFrame
<1> USE ConstantsAssumption DEF tableVars, histVars
<1>1. job \in [Threads -> Jobs] /\ w \in Threads /\ Workers \subseteq Threads /\ Loop \in Threads
      /\ w # Loop /\ made \in Nat /\ auth \in Configs
  BY DEF TypeOK, Threads
<1>2. \A n \in Names : Account(n) <= made
  BY DEF First, ConfigInv, Good, Account
<1> DEFINE Others == \A p \in Threads : p # w => job'[p] = job[p]
           Mine == /\ job[w].step \notin {"changed", "revoke"}
                   /\ job'[w].step = "verified" => job'[w].acct <= made
                   /\ job'[w].step = "admitted" =>
                        /\ job'[w].name = job[w].name /\ job'[w].acct = job[w].acct
                        /\ job[w].step = "verified" /\ job[Loop].step = "idle"
           Tables == /\ UNCHANGED <<user, owner, crossed, live>> /\ Overdue' \subseteq Overdue
                     /\ made' \in Nat /\ made <= made'
                     /\ \A n \in Names :
                          \/ auth'.row[n] = auth.row[n]
                          \/ auth.row[n] = NoAccount /\ auth'.row[n] \in Nat /\ auth'.row[n] > made
<1>3. Others /\ Mine /\ Tables => ThirdFrame
  BY <1>1 DEF ThirdFrame
<1> HIDE DEF Others, Mine
<1>4. ASSUME NEW n \in Names, SetupRequest(w, n) PROVE ThirdFrame
  <2>1. Others /\ Mine
    BY <1>1, <1>4 DEF SetupRequest, Begins, At, Others, Mine
  <2>2. Tables
    BY <1>1, <1>4 DEF SetupRequest
  <2>3. QED BY <1>3, <2>1, <2>2
<1>5. ASSUME NEW n \in Names, VerifyPassword(w, n) PROVE ThirdFrame
  <2>1. Others /\ Mine
    BY <1>1, <1>2, <1>5 DEF VerifyPassword, Begins, At, Others, Mine
  <2>2. Tables
    BY <1>1, <1>5 DEF VerifyPassword
  <2>3. QED BY <1>3, <2>1, <2>2
<1>6. ASSUME NEW t \in Tokens, NEW n \in Names, VerifyCurrent(w, t, n) PROVE ThirdFrame
  <2>1. Others /\ Mine
    BY <1>1, <1>6 DEF VerifyCurrent, Begins, At, Others, Mine
  <2>2. Tables
    BY <1>1, <1>6 DEF VerifyCurrent
  <2>3. QED BY <1>3, <2>1, <2>2
<1>7. ASSUME Ends(w), job[w].step \notin {"changed", "revoke"} PROVE Others /\ Mine
  BY <1>1, <1>7 DEF Ends, Rest, Others, Mine
<1>8. ASSUME SetupChecks(w) PROVE ThirdFrame
  <2>1. Tables /\ job[w].step = "setup"
    BY <1>1, <1>8 DEF SetupChecks, At
  <2>2. CASE Ends(w)
    BY <1>3, <1>7, <2>1, <2>2
  <2>3. CASE Goes(w, "founding")
    <3>1. Others /\ Mine
      BY <1>1, <2>1, <2>3 DEF Goes, Others, Mine
    <3>2. QED BY <1>3, <2>1, <3>1
  <2>4. QED BY <1>8, <2>2, <2>3 DEF SetupChecks
<1>9. ASSUME SetupCreates(w) PROVE ThirdFrame
  <2>1. Others /\ Mine
    BY <1>7, <1>9 DEF SetupCreates, At
  <2>2. Tables
    <3>1. UNCHANGED <<user, owner, crossed, live, Overdue>>
      BY <1>9 DEF SetupCreates
    <3>2. PICK n \in Names : n = job[w].name
      BY <1>1, <1>9, JobNames DEF SetupCreates, At, Named
    <3>3. (~Exists(n) /\ CreateUser(n, TRUE)) \/ UNCHANGED <<auth, made>>
      BY <1>9, <3>2 DEF SetupCreates
    <3>4. ASSUME ~Exists(n), CreateUser(n, TRUE) PROVE Tables
      BY <3>1, <3>4, CreatedRows
    <3>5. ASSUME UNCHANGED <<auth, made>> PROVE Tables
      BY <1>1, <3>1, <3>5
    <3>6. QED BY <3>3, <3>4, <3>5
  <2>3. QED BY <1>3, <2>1, <2>2
<1>10. ASSUME AdmitLogin(w) PROVE ThirdFrame
  <2>1. Tables /\ job[w].step = "verified" /\ job[Loop].step = "idle"
    BY <1>1, <1>10 DEF AdmitLogin, At
  <2>2. CASE Ends(w)
    BY <1>3, <1>7, <2>1, <2>2
  <2>3. CASE Goes(w, "admitted")
    <3>1. Others /\ job'[w].name = job[w].name /\ job'[w].acct = job[w].acct
          /\ job'[w].step = "admitted"
      BY <1>1, <2>3 DEF Goes, Others, Jobs, Job
    <3>2. Mine
      BY <2>1, <3>1 DEF Mine
    <3>3. QED BY <1>3, <2>1, <3>1, <3>2
  <2>4. QED BY <1>10, <2>2, <2>3 DEF AdmitLogin
<1>11. ASSUME RefuseSession(w) PROVE ThirdFrame
  <2>1. Others /\ Mine
    BY <1>7, <1>11 DEF RefuseSession, At
  <2>2. Tables
    BY <1>1, <1>11 DEF RefuseSession
  <2>3. QED BY <1>3, <2>1, <2>2
<1>12. ASSUME ChangePassword(w), Ends(w) PROVE ThirdFrame
  <2>1. job[w].step = "checked" /\ UNCHANGED <<auth, made, user, owner, crossed, live>>
    BY <1>12 DEF ChangePassword, At
  <2>2. Others /\ Mine /\ job'[w].step = "idle"
    BY <1>1, <1>7, <1>12, <2>1 DEF Ends, Rest
  <2>3. Overdue' = Overdue
    <3>1. ASSUME Goes(w, "changed") PROVE FALSE
      <4>1. job'[w].step = "changed"
        BY <1>1, <3>1 DEF Goes, Jobs, Job
      <4>2. QED BY <2>2, <4>1
    <3>2. QED BY <1>12, <3>1 DEF ChangePassword
  <2>4. QED BY <1>1, <1>3, <2>1, <2>2, <2>3
<1>13. QED BY <1>4, <1>5, <1>6, <1>8, <1>9, <1>10, <1>11, <1>12

\* The copies of the table are of this kind.
LEMMA CopyThirdFrame ==
  ASSUME TypeOK, Second, \/ \E p \in Threads : Snapshot(p)
                         \/ \E i \in DOMAIN writes : WriteFile(i)
  PROVE  ThirdFrame
<1> USE ConstantsAssumption DEF tableVars, histVars
<1>1. job \in [Threads -> Jobs] /\ Workers \subseteq Threads /\ Loop \in Threads
      /\ made \in Nat /\ auth \in Configs
  BY DEF TypeOK, Threads
<1>2. ASSUME NEW p \in Threads, job[p].step \in {"save", "write"}, job'[p].step \in {"write", "idle"},
             \A o \in Threads : o # p => job'[o] = job[o],
             UNCHANGED <<auth, made, user, owner, crossed, live, Overdue>>
      PROVE  ThirdFrame
  BY <1>1, <1>2 DEF ThirdFrame
<1>3. ASSUME NEW p \in Threads, Snapshot(p) PROVE ThirdFrame
  <2>1. job[p].step = "save" /\ job'[p].step = "write" /\ \A o \in Threads : o # p => job'[o] = job[o]
    BY <1>1, <1>3 DEF Snapshot, Goes, At
  <2>2. UNCHANGED <<auth, made, user, owner, crossed, live, Overdue>>
    BY <1>3 DEF Snapshot
  <2>3. QED BY <1>2, <2>1, <2>2
<1>4. ASSUME NEW i \in DOMAIN writes, WriteFile(i) PROVE ThirdFrame
  <2>1. PICK p \in Threads : p = writes[i].by
    BY CopyFacts
  <2>2. job[p].step = "write" /\ job' = [job EXCEPT ![p] = Rest]
    BY <1>4, <2>1 DEF WriteFile, Ends, Second, WriteInv, At
  <2>3. job'[p].step = "idle" /\ \A o \in Threads : o # p => job'[o] = job[o]
    BY <1>1, <2>2 DEF Rest
  <2>4. UNCHANGED <<auth, made, user, owner, crossed, live, Overdue>>
    BY <1>4 DEF WriteFile
  <2>5. QED BY <1>2, <2>2, <2>3, <2>4
<1>5. QED BY <1>3, <1>4

\* Between two requests every session has the name of its account.
LEMMA IdleSessions ==
  ASSUME Third, ~At(Loop, "purge"), ~At(Loop, "move"), NEW t \in live, t \notin crossed
  PROVE  NameOf(t) = user[t] /\ Account(user[t]) = owner[t]
BY DEF Third, SessionInv, NameOf, At

\* delete_user: the sessions of the account wait for the purge.
LEMMA ThirdDelete ==
  ASSUME TypeOK, First, Second, Third,
         NEW s \in Tokens, NEW r \in Names, NEW n \in Names, DeleteUser(s, r, n)
  PROVE  Third'
<1>1. job \in [Threads -> Jobs] /\ Loop \in Threads /\ Workers \subseteq Threads \ {Loop}
      /\ auth \in Configs /\ job[Loop].step = "idle"
  BY ConstantsAssumption DEF TypeOK, Threads, DeleteUser, AdminRequest, At
<1>2. UNCHANGED <<made, live, user, owner, crossed, Overdue>> /\ Exists(n)
  BY DEF DeleteUser, tableVars, histVars
<1>3. \A k \in Names : auth'.row[k] = IF k = n THEN NoAccount ELSE auth.row[k]
  BY <1>1 DEF DeleteUser, Save, Configs
<1>4. job'[Loop].step = "purge" /\ job'[Loop].name = n /\ \A w \in Workers : job'[w] = job[w]
  BY <1>1 DEF DeleteUser, Begins
<1>5. KnownInv'
  BY <1>2, <1>4 DEF Third, KnownInv, Opened, At
<1>6. \A t : NameOf(t) = user[t] /\ NameOf(t)' = user[t]
  BY <1>1, <1>2, <1>4 DEF NameOf, At
<1>7. SessionInv'
  <2>1. ASSUME NEW t \in live, t \notin crossed
        PROVE  \/ auth'.row[user[t]] = owner[t]
               \/ user[t] = n /\ \A k \in Names : auth'.row[k] # owner[t]
    <3>1. Account(user[t]) = owner[t] /\ user[t] \in Names /\ owner[t] # NoAccount
      BY <1>1, <2>1, IdleSessions, BelowFacts DEF At, Opened
    <3>2. CASE user[t] # n
      BY <1>3, <3>1, <3>2 DEF Account
    <3>3. CASE user[t] = n
      <4>1. \A k \in Names : k # n => Account(k) # owner[t]
        BY <1>2, <3>1, <3>3, BelowFacts
      <4>2. QED BY <1>3, <3>1, <3>3, <4>1 DEF Account
    <3>4. QED BY <3>2, <3>3
  <2>2. QED BY <1>2, <1>4, <1>6, <2>1 DEF SessionInv, Account, At
<1>8. ChangeInv'
  <2>1. \A w \in Workers : \A t : Covers(w, t) => Covers(w, t)'
    BY <1>2, <1>4 DEF Covers, WillRevoke
  <2>2. QED BY <1>2, <2>1 DEF Third, ChangeInv
<1>9. QED BY <1>5, <1>7, <1>8 DEF Third

\* The purge.
LEMMA ThirdPurge == ASSUME TypeOK, First, Second, Third, PurgeSessions PROVE Third'
<1>1. job \in [Threads -> Jobs] /\ Loop \in Threads /\ Workers \subseteq Threads \ {Loop}
      /\ job[Loop].step = "purge"
  BY ConstantsAssumption DEF TypeOK, Threads, PurgeSessions, At
<1>2. UNCHANGED <<auth, made, user, owner, crossed, Overdue>>
      /\ \A t : t \in live' <=> t \in live /\ user[t] # job[Loop].name
  BY DEF PurgeSessions, SessionsOf, histVars
<1>3. job'[Loop].step \in {"idle", "save"} /\ \A w \in Workers : job'[w] = job[w]
  BY <1>1 DEF PurgeSessions, Begins, Ends, Rest
<1>4. KnownInv'
  BY <1>2, <1>3 DEF Third, KnownInv, Opened, At
<1>5. \A t : NameOf(t) = user[t] /\ NameOf(t)' = user[t]
  BY <1>1, <1>2, <1>3 DEF NameOf, At
<1>6. SessionInv'
  BY <1>2, <1>3, <1>5 DEF Third, SessionInv, Account, At
<1>7. ChangeInv'
  <2>1. \A w \in Workers : \A t : Covers(w, t) => Covers(w, t)'
    BY <1>2, <1>3 DEF Covers, WillRevoke
  <2>2. QED BY <1>2, <2>1 DEF Third, ChangeInv
<1>8. QED BY <1>4, <1>6, <1>7 DEF Third

\* rename_user: the sessions of the account wait to be moved.
LEMMA ThirdRename ==
  ASSUME TypeOK, First, Second, Third,
         NEW s \in Tokens, NEW r \in Names, NEW n \in Names, NEW m \in Names, RenameUser(s, r, n, m)
  PROVE  Third'
<1>1. job \in [Threads -> Jobs] /\ Loop \in Threads /\ Workers \subseteq Threads \ {Loop}
      /\ auth \in Configs /\ job[Loop].step = "idle"
  BY ConstantsAssumption DEF TypeOK, Threads, RenameUser, AdminRequest, At
<1>2. UNCHANGED <<made, live, user, owner, crossed, Overdue>> /\ Exists(n) /\ ~Exists(m) /\ n # m
  BY DEF RenameUser, tableVars, histVars
<1>3. \A k \in Names : auth'.row[k] = IF k = n THEN NoAccount ELSE IF k = m THEN auth.row[n] ELSE auth.row[k]
  BY <1>1, <1>2 DEF RenameUser, Save, Configs, Account
<1>4. job'[Loop].step = "move" /\ job'[Loop].name = n /\ job'[Loop].to = m
      /\ \A w \in Workers : job'[w] = job[w]
  BY <1>1 DEF RenameUser, Begins
<1>6. KnownInv'
  BY <1>2, <1>3, <1>4 DEF Third, KnownInv, Opened, At, Exists, Account
<1>7. \A t : NameOf(t) = user[t] /\ NameOf(t)' = IF user[t] = n THEN m ELSE user[t]
  BY <1>1, <1>2, <1>4 DEF NameOf, At
<1>8. \A t \in live : t \notin crossed =>
        Account(user[t]) = owner[t] /\ user[t] \in Names /\ user[t] # m
  <2>1. SUFFICES ASSUME NEW t \in live, t \notin crossed
                 PROVE  Account(user[t]) = owner[t] /\ user[t] \in Names /\ user[t] # m
    OBVIOUS
  <2>2. Account(user[t]) = owner[t] /\ user[t] \in Names /\ owner[t] # NoAccount
    BY <1>1, <2>1, IdleSessions, BelowFacts DEF At, Opened
  <2>3. QED BY <1>2, <2>2 DEF Exists
<1>9. SessionInv'
  <2>1. ASSUME NEW t \in live, t \notin crossed PROVE auth'.row[NameOf(t)'] = owner[t]
    <3>1. Account(user[t]) = owner[t] /\ user[t] \in Names /\ user[t] # m
      BY <1>8, <2>1
    <3>2. PICK k : k = NameOf(t)'
      OBVIOUS
    <3>3. k = IF user[t] = n THEN m ELSE user[t]
      BY <1>7, <3>2
    <3>4. auth'.row[k] = owner[t]
      BY <1>2, <1>3, <3>1, <3>3 DEF Account
    <3>5. QED BY <3>2, <3>4
  <2>2. ASSUME NEW w \in Workers, At(w, "admitted"), job[w].name = n PROVE job[w].acct # auth'.row[n]
    <3>1. job[w].acct # NoAccount
      BY <1>1, <2>2 DEF At, Jobs, Job, Accounts, NoAccount
    <3>2. QED BY <1>3, <3>1
  <2>3. (\A t \in live \ crossed : Account(NameOf(t)) = owner[t])'
    BY <1>2, <2>1 DEF Account
  <2>4. (At(Loop, "move") => \A w \in Workers :
           At(w, "admitted") /\ job[w].name = job[Loop].name => job[w].acct # Account(job[w].name))'
    BY <1>4, <2>2 DEF Account, At
  <2>5. QED BY <2>3, <2>4 DEF SessionInv
<1>10. ChangeInv'
  <2>1. \A w \in Workers : \A t : Covers(w, t) => Covers(w, t)'
    BY <1>2, <1>4 DEF Covers, WillRevoke
  <2>2. QED BY <1>2, <2>1 DEF Third, ChangeInv
<1>11. QED BY <1>6, <1>9, <1>10 DEF Third

\* The session objects of a renamed account get its new name.
LEMMA ThirdMove == ASSUME TypeOK, First, Second, Third, MoveSessions PROVE Third'
<1>1. job \in [Threads -> Jobs] /\ Loop \in Threads /\ Workers \subseteq Threads \ {Loop}
      /\ job[Loop].step = "move"
  BY ConstantsAssumption DEF TypeOK, Threads, MoveSessions, At
<1>2. UNCHANGED <<auth, made, live, owner, crossed>>
      /\ \A t : t \in Overdue' <=> t \in Overdue /\ ~(t \in live /\ user[t] = job[Loop].name)
  BY DEF MoveSessions, SessionsOf
<1>3. \A t \in Tokens : user'[t] = IF t \in live /\ user[t] = job[Loop].name THEN job[Loop].to ELSE user[t]
  BY DEF MoveSessions, SessionsOf
<1>4. job'[Loop].step \in {"idle", "save"} /\ \A w \in Workers : job'[w] = job[w]
  BY <1>1 DEF MoveSessions, Begins, Ends, Rest
<1>5. job[Loop].to # job[Loop].name /\ live \subseteq Tokens
  BY <1>1 DEF TypeOK, Third, KnownInv, At
<1>6. KnownInv'
  BY <1>2, <1>4 DEF Third, KnownInv, Opened, At
<1>7. \A t \in live : NameOf(t)' = NameOf(t)
  BY <1>1, <1>3, <1>4, <1>5 DEF NameOf, At
<1>8. SessionInv'
  BY <1>1, <1>2, <1>4, <1>7 DEF Third, SessionInv, Account, At
<1>9. ChangeInv'
  <2>1. ASSUME NEW t \in Overdue', t \in live PROVE \E w \in Workers : Covers(w, t)'
    <3>1. t \in Overdue /\ user'[t] = user[t]
      BY <1>2, <1>3, <1>5, <2>1
    <3>2. PICK w \in Workers : Covers(w, t)
      BY <2>1, <3>1 DEF Third, ChangeInv
    <3>3. QED BY <1>4, <3>1, <3>2 DEF Covers, WillRevoke
  <2>2. QED BY <1>2, <2>1 DEF Third, ChangeInv
<1>10. QED BY <1>6, <1>8, <1>9 DEF Third

\* create_session_trusted: the session is of the account that has the name, or
\* the name has changed hands since the login.
LEMMA ThirdCreate ==
  ASSUME TypeOK, First, Second, Third, NEW w \in Workers, NEW t \in Tokens, CreateSession(w, t)
  PROVE  Third'
<1>1. job \in [Threads -> Jobs] /\ w \in Threads /\ Workers \subseteq Threads /\ Loop \in Threads
      /\ w # Loop /\ job[w].step = "admitted" /\ owner[t] = NoAccount
  BY ConstantsAssumption DEF TypeOK, Threads, CreateSession, At
<1>2. PICK n \in Names, a \in Accounts : n = job[w].name /\ a = job[w].acct
  BY <1>1 DEF Jobs, Job
<1>3. /\ UNCHANGED <<auth, made>> /\ live' = live \cup {t} /\ Exists(n)
      /\ \A u \in Tokens : /\ user'[u] = IF u = t THEN n ELSE user[u]
                           /\ owner'[u] = IF u = t THEN a ELSE owner[u]
      /\ crossed' = IF Account(n) = a THEN crossed ELSE crossed \cup {t}
      /\ Overdue' \subseteq Overdue \cup {t}
      /\ t \in Overdue' \ Overdue => \E v \in Workers : WillRevoke(v, n, t)
  BY <1>2 DEF CreateSession, OpensStale, TypeOK, Exists
<1>4. job'[w].step = "save" /\ \A p \in Threads : p # w => job'[p] = job[p]
  BY <1>1 DEF CreateSession, Begins
<1>5. a <= made /\ a # NoAccount
  BY <1>1, <1>2 DEF Third, KnownInv, Accounts, NoAccount
<1>6. \A u \in Tokens : Opened(u) => u # t /\ Opened(u)' /\ user'[u] = user[u] /\ owner'[u] = owner[u]
                                     /\ NameOf(u)' = NameOf(u)
  BY <1>1, <1>3, <1>4 DEF Opened, NameOf, At
<1>7. crossed \subseteq Tokens /\ Overdue \subseteq Tokens /\ live \subseteq Tokens
  BY DEF TypeOK
<1>8. KnownInv'
  <2>1. (\A u \in crossed \cup Overdue : Opened(u))'
    BY <1>3, <1>5, <1>6, <1>7 DEF Third, KnownInv, Opened
  <2>2. QED BY <1>1, <1>3, <1>4, <1>5, <2>1 DEF Third, KnownInv, At, Exists, Account
<1>9. SessionInv'
  <2>1. ASSUME NEW u \in live', u \notin crossed'
        PROVE  (\/ Account(NameOf(u)) = owner[u]
                \/ /\ At(Loop, "purge") /\ user[u] = job[Loop].name
                   /\ \A k \in Names : Account(k) # owner[u])'
    <3>1. CASE u = t
      <4>1. Account(n) = a /\ user'[t] = n /\ owner'[t] = a
        BY <1>3, <2>1, <3>1
      <4>2. NameOf(t)' = n
        <5>1. ~(At(Loop, "move") /\ n = job[Loop].name)
          BY <1>1, <1>2, <4>1 DEF Third, SessionInv, At
        <5>2. QED BY <1>1, <1>4, <4>1, <5>1 DEF NameOf, At
      <4>3. QED BY <1>3, <3>1, <4>1, <4>2 DEF Account
    <3>2. CASE u # t
      <4>1. u \in live /\ u \notin crossed /\ u \in Tokens /\ Opened(u)
        BY <1>3, <2>1, <3>2, BelowFacts
      <4>2. QED BY <1>1, <1>3, <1>4, <1>6, <4>1 DEF Third, SessionInv, Account, At
    <3>3. QED BY <3>1, <3>2
  <2>2. (At(Loop, "move") => \A v \in Workers :
           At(v, "admitted") /\ job[v].name = job[Loop].name => job[v].acct # Account(job[v].name))'
    BY <1>1, <1>3, <1>4 DEF Third, SessionInv, Account, At
  <2>3. QED BY <2>1, <2>2 DEF SessionInv
<1>10. ChangeInv'
  <2>1. \A u \in Overdue : u # t /\ u \in Tokens /\ Opened(u)
    BY <1>6, <1>7 DEF Third, KnownInv
  <2>2. \A v \in Workers, k \in Names : \A u : WillRevoke(v, k, u) => WillRevoke(v, k, u)'
    BY <1>1, <1>4 DEF WillRevoke
  <2>3. ASSUME NEW u \in Overdue', u \in live' PROVE \E v \in Workers : Covers(v, u)'
    <3>1. CASE u = t
      <4>1. PICK v \in Workers : WillRevoke(v, n, t)
        BY <1>3, <2>1, <2>3, <3>1
      <4>2. user'[t] = n
        BY <1>3
      <4>3. QED BY <2>2, <3>1, <4>1, <4>2 DEF Covers, WillRevoke
    <3>2. CASE u # t
      <4>1. u \in Overdue /\ u \in live /\ u \in Tokens /\ user'[u] = user[u] /\ user[u] \in Names
        BY <1>3, <1>7, <2>3, <3>2, BelowFacts
      <4>2. PICK v \in Workers : WillRevoke(v, user[u], u)
        BY <4>1 DEF Third, ChangeInv, Covers
      <4>3. QED BY <2>2, <4>1, <4>2 DEF Covers, WillRevoke
    <3>3. QED BY <3>1, <3>2
  <2>4. QED BY <2>3 DEF ChangeInv
<1>11. QED BY <1>8, <1>9, <1>10 DEF Third

\* change_password: the sessions it makes overdue have the name it will revoke.
LEMMA ThirdChange ==
  ASSUME TypeOK, First, Second, Third, NEW w \in Workers, ChangePassword(w), ~Ends(w)
  PROVE  Third'
<1>1. job \in [Threads -> Jobs] /\ w \in Threads /\ Workers \subseteq Threads /\ Loop \in Threads
      /\ w # Loop /\ job[w].step = "checked"
  BY ConstantsAssumption DEF TypeOK, Threads, ChangePassword, At
<1>2. PICK n \in Names : n = job[w].name
  BY <1>1, JobNames DEF Named
<1>3. /\ Goes(w, "changed")
      /\ \A t : t \in Overdue' <=>
                t \in Overdue \/ (t \in live /\ user[t] = n /\ t \notin job[w].toks)
      /\ UNCHANGED <<auth, made, live, user, owner, crossed>>
  BY <1>2 DEF ChangePassword, SessionsOf, tableVars
<1>4. /\ job'[w].step = "changed" /\ job'[w].name = n
      /\ job'[w].toks = job[w].toks /\ \A p \in Threads : p # w => job'[p] = job[p]
  BY <1>1, <1>2, <1>3 DEF Goes, Jobs, Job
<1>5. \A t : NameOf(t)' = NameOf(t)
  BY <1>1, <1>3, <1>4 DEF NameOf, At
<1>6. KnownInv'
  <2>1. (\A t \in crossed \cup Overdue : Opened(t))'
    BY <1>3, BelowFacts DEF Third, KnownInv, Opened
  <2>2. QED BY <1>1, <1>3, <1>4, <2>1 DEF Third, KnownInv, At, Exists, Account
<1>7. SessionInv'
  BY <1>1, <1>3, <1>4, <1>5 DEF Third, SessionInv, At, Account
<1>8. ChangeInv'
  <2>1. ASSUME NEW t \in Overdue, t \in live PROVE \E v \in Workers : Covers(v, t)'
    <3>1. PICK v \in Workers : Covers(v, t)
      BY <2>1 DEF Third, ChangeInv
    <3>2. v # w /\ v \in Threads
      BY <1>1, <3>1 DEF Covers, WillRevoke
    <3>3. QED BY <1>3, <1>4, <3>1, <3>2 DEF Covers, WillRevoke
  <2>2. ASSUME NEW t \in live, user[t] = n, t \notin job[w].toks PROVE Covers(w, t)'
    BY <1>3, <1>4, <2>2 DEF Covers, WillRevoke
  <2>3. QED BY <1>3, <2>1, <2>2 DEF Third, ChangeInv
<1>9. QED BY <1>6, <1>7, <1>8 DEF Third

\* The change goes on while no rename is under way.
LEMMA ThirdContinue ==
  ASSUME TypeOK, Third, NEW w \in Workers, ContinueChange(w) PROVE Third'
<1>1. job \in [Threads -> Jobs] /\ w \in Threads /\ Workers \subseteq Threads /\ Loop \in Threads
      /\ w # Loop /\ job[Loop].step = "idle"
  BY ConstantsAssumption DEF TypeOK, Threads, ContinueChange, At
<1>2. UNCHANGED <<auth, made, live, user, owner, crossed, Overdue>>
  BY DEF ContinueChange, tableVars, histVars
<1>3. /\ job'[w].step = "revoke" /\ job'[w].name = job[w].name
      /\ job'[w].toks = job[w].toks /\ \A p \in Threads : p # w => job'[p] = job[p]
  BY <1>1 DEF ContinueChange, Goes, Jobs, Job
<1>4. \A t : NameOf(t) = user[t] /\ NameOf(t)' = user[t]
  BY <1>1, <1>2, <1>3 DEF NameOf, At
<1>5. KnownInv'
  BY <1>1, <1>2, <1>3 DEF Third, KnownInv, Opened, At, Exists, Account
<1>6. SessionInv'
  BY <1>1, <1>2, <1>3, <1>4 DEF Third, SessionInv, At, Account
<1>7. ChangeInv'
  <2>1. \A v \in Workers : \A t : Covers(v, t) => Covers(v, t)'
    BY <1>1, <1>2, <1>3 DEF Covers, WillRevoke
  <2>2. QED BY <1>2, <2>1 DEF Third, ChangeInv
<1>8. QED BY <1>5, <1>6, <1>7 DEF Third

\* revoke_user_sessions drops what is overdue.
LEMMA ThirdRevoke ==
  ASSUME TypeOK, Third, NEW w \in Workers, RevokeUserSessions(w) PROVE Third'
<1>1. job \in [Threads -> Jobs] /\ w \in Threads /\ Workers \subseteq Threads /\ Loop \in Threads
      /\ w # Loop /\ job[w].step = "revoke"
  BY ConstantsAssumption DEF TypeOK, Threads, RevokeUserSessions, At
<1>2. UNCHANGED <<auth, made, user, owner, crossed, Overdue>>
      /\ \A t : t \in live' <=> t \in live /\ ~(user[t] = job[w].name /\ t \notin job[w].toks)
  BY DEF RevokeUserSessions, SessionsOf
<1>3. job'[w].step = "idle" /\ \A p \in Threads : p # w => job'[p] = job[p]
  BY <1>1 DEF RevokeUserSessions, Ends, Rest
<1>4. \A t : NameOf(t)' = NameOf(t)
  BY <1>1, <1>2, <1>3 DEF NameOf, At
<1>5. KnownInv'
  BY <1>1, <1>2, <1>3 DEF Third, KnownInv, Opened, At, Exists, Account
<1>6. SessionInv'
  BY <1>1, <1>2, <1>3, <1>4 DEF Third, SessionInv, At, Account
<1>7. ChangeInv'
  <2>1. ASSUME NEW t \in Overdue, t \in live' PROVE \E v \in Workers : Covers(v, t)'
    <3>1. PICK v \in Workers : Covers(v, t)
      BY <1>2, <2>1 DEF Third, ChangeInv
    <3>2. v # w /\ v \in Threads
      BY <1>1, <1>2, <2>1, <3>1 DEF Covers, WillRevoke
    <3>3. QED BY <1>2, <1>3, <3>1, <3>2 DEF Covers, WillRevoke
  <2>2. QED BY <1>2, <2>1 DEF Third, ChangeInv
<1>8. QED BY <1>5, <1>6, <1>7 DEF Third

\* A restart after which the table is not the one that was saved is noted.
LEMMA ThirdRestart ==
  ASSUME TypeOK, First, Second, Third, NEW loaded \in SUBSET Tokens, Restart(loaded) PROVE Third'
<1>1. /\ \A t \in loaded : file[t] # NoName /\ t \in Tokens
      /\ live' = loaded /\ owner' = owner /\ made' = made /\ Overdue' = Overdue \cap settled'
      /\ \A t \in Tokens : user'[t] = IF t \in loaded THEN file[t] ELSE NoName
      /\ crossed' = IF ~Quiet \/ clobbered THEN crossed \cup loaded ELSE crossed
      /\ \A p \in Threads : job'[p].step = "idle"
      /\ auth'.row = auth.row
  BY DEF Restart, Rest, First, ConfigInv
<1>2. Loop \in Threads /\ Workers \subseteq Threads
  BY DEF Threads
<1>3. KnownInv'
  <2>1. (\A t \in crossed \cup Overdue : Opened(t))'
    BY <1>1 DEF Third, KnownInv, Second, OpenedInv, Opened
  <2>2. QED BY <1>1, <1>2, <2>1 DEF Third, KnownInv, At
<1>4. \A t : NameOf(t)' = user'[t]
  BY <1>1, <1>2 DEF NameOf, At
<1>5. SessionInv'
  <2>1. ASSUME NEW t \in loaded, t \notin crossed' PROVE auth.row[user'[t]] = owner[t]
    <3>1. Quiet /\ ~clobbered /\ t \notin crossed
      BY <1>1, <2>1
    <3>2. file[t] = IF t \in live THEN user[t] ELSE NoName
      BY <1>1, <2>1, <3>1 DEF Quiet, Saving, At, Second, FileInv
    <3>3. t \in live /\ user'[t] = user[t]
      BY <1>1, <2>1, <3>2
    <3>4. ~At(Loop, "purge") /\ ~At(Loop, "move")
      BY <1>2, <3>1 DEF Quiet, At
    <3>5. Account(user[t]) = owner[t]
      BY <3>1, <3>3, <3>4, IdleSessions
    <3>6. QED BY <3>3, <3>5 DEF Account
  <2>2. QED BY <1>1, <1>2, <1>4, <2>1 DEF SessionInv, Account, At
<1>6. ChangeInv'
  <2>1. Overdue' \cap live' = {}
    BY <1>1, SecondStep DEF Second, SettledInv, Next, Serves
  <2>2. QED BY <2>1 DEF ChangeInv
<1>7. QED BY <1>3, <1>5, <1>6 DEF Third

\* Every step keeps the layer.
LEMMA ThirdStep ==
  ASSUME TypeOK, TypeOK', First, Second, Third, [Next]_vars PROVE Third'
<1>1. ASSUME LoopStep PROVE Third'
  BY <1>1, ThirdFrameStep, LoopThirdFrame, ThirdDelete, ThirdPurge, ThirdRename, ThirdMove DEF LoopStep
<1>2. ASSUME NEW w \in Workers, WorkerStep(w) PROVE Third'
  <2>1. ASSUME ChangePassword(w) PROVE Third'
    BY <2>1, ThirdFrameStep, WorkerThirdFrame, ThirdChange
  <2>2. QED
    BY <1>2, <2>1, ThirdFrameStep, WorkerThirdFrame, ThirdCreate, ThirdContinue, ThirdRevoke
    DEF WorkerStep
<1>3. ASSUME NEW n \in Names, Signup(n) PROVE Third'
  BY <1>3, ThirdFrameStep, LoopThirdFrame
<1>4. ASSUME \/ \E p \in Threads : Snapshot(p)
             \/ \E i \in DOMAIN writes : WriteFile(i)
      PROVE  Third'
  BY <1>4, ThirdFrameStep, CopyThirdFrame
<1>5. ASSUME NEW loaded \in SUBSET Tokens, Restart(loaded) PROVE Third'
  BY <1>5, ThirdRestart
<1>6. ASSUME UNCHANGED vars PROVE Third'
  <2>1. made \in Nat
    BY ConstantsAssumption DEF TypeOK
  <2>2. ThirdFrame
    BY <1>6, <2>1 DEF ThirdFrame, vars, tableVars, histVars
  <2>3. QED BY <2>2, ThirdFrameStep
<1>7. QED BY <1>1, <1>2, <1>3, <1>4, <1>5, <1>6 DEF Next, Serves

\* The layer holds at the start.
LEMMA InitThird == Init => Third
BY DEF Init, Third, KnownInv, SessionInv, ChangeInv, At, Rest, NoAccount, Threads

\* All three layers hold always.
LEMMA ThirdAlways == Spec => [](TypeOK /\ First /\ Second /\ Third)
<1>1. TypeOK /\ First /\ Second /\ Third /\ TypeOK' /\ [Next]_vars => Third'
  BY ThirdStep
<1>2. QED BY <1>1, TypeCorrect, FirstAlways, SecondAlways, InitThird, PTL DEF Spec

\* Once a deletion or a rename has reached the sessions, every session names
\* the account it was opened for.
THEOREM SessionsFollowAccountsHolds == Spec => []SessionsFollowAccounts
<1>1. Third => SessionsFollowAccounts
  BY IdleSessions DEF SessionsFollowAccounts
<1>2. QED BY <1>1, ThirdAlways, PTL

\* Of the sessions of an account none but the caller's outlives a change of
\* the password, but for the three that ChangeRevokes names: moved by a
\* rename, older than a death of the process before the answer, or opened
\* after the revocation by a login that verified the old password.
THEOREM ChangeRevokesHolds == Spec => []ChangeRevokes
<1>1. Third => ChangeRevokes
  BY DEF Third, ChangeInv, Covers, WillRevoke, ChangeRevokes
<1>2. QED BY <1>1, ThirdAlways, PTL
==============================================================================
