---------------------------- MODULE MCAuthManager ----------------------------
(* Instances of the accounts and sessions for TLC. *)
EXTENDS AuthManager, TLC

Symmetry == Permutations(Names) \cup Permutations(Tokens) \cup Permutations(Workers)

\* A token that is neither in the table nor in the file nor in a copy of the
\* table will not be seen again: what it was does not matter any more.
Forgotten(t) ==
  /\ owner[t] # NoAccount /\ t \notin live /\ file[t] = NoName
  /\ \A i \in DOMAIN writes : t \notin writes[i].toks

\* Whether a login is stale matters while the revocation is to come, and
\* whether a session is outdated while it is there: it can be back only against
\* RevokedForGood.
Remembered ==
  LET kept == {t \in Tokens : ~Forgotten(t)}
      changing == {job[w].name : w \in {v \in Workers : job[v].step \in {"changed", "revoke"}}}
  IN <<auth, authFile, made, live, file, job, writes, founders, clobbered,
       [t \in kept |-> <<user[t], owner[t]>>],
       {w \in stale : job[w].name \in changing},
       crossed \cap kept, settled \cap kept, Overdue \cap live>>

=============================================================================
