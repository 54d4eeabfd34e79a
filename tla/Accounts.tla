------------------------------- MODULE Accounts -------------------------------
(* api/auth.py, api/admin.py, the middleware of api/main.py: the users, their   *)
(* sessions and the count of failed logins, over requests that overlap.  A      *)
(* login issues an access and a refresh token; a refresh exchanges the latter.  *)
(*                                                                              *)
(* Both tokens of a pair carry the same time and are one entry here.  Tokens    *)
(* that expire leave nothing to decide, and the delay of a name with many       *)
(* failures is a wait of any length before its login.  A deleted name is not    *)
(* given out again.                                                             *)
EXTENDS Naturals, Sequences, FiniteSets

CONSTANTS
  None,
  Threads,   \* the requests' threads
  Users, Sources,
  Limit,     \* failed logins of a source before it has to wait
  MaxTokens, MaxLogins, MaxChanges   \* bounds

VARIABLES
  role,      \* table users: "admin", "viewer", "new" before the creation, "gone"
  changed,   \* users whose tokens_valid_after lies in this second
  tokens,    \* issued: user, session, role, over: older than tokens_valid_after
  revoked,   \* table revoked_tokens
  failed,    \* audit_log: a source's login_fail rows of the last 15 minutes
  lock,      \* _LOGIN_LOCKS: the holder
  call,      \* each thread's request and its step
  guesses,   \* ghost: wrong passwords checked of a source in the last 15 minutes
  crossed,   \* ghost: a user was changed while a request of theirs was under way
  logins, changes

table == <<role, changed, tokens, revoked>>
audit == <<failed, lock, guesses>>
vars == <<table, audit, call, crossed, logins, changes>>

Roles == {"admin", "viewer"}
Issued == [user : Users, session : Nat, role : Roles, over : BOOLEAN]
Calls == [at : {"rest", "waits", "verify", "grant", "claim", "mint", "act"}, user : Users \cup {None},
          source : Sources \cup {None}, role : Roles \cup {None}, token : Nat, target : Users \cup {None},
          to : Roles \cup {"gone", None}]
Idle == [at |-> "rest", user |-> None, source |-> None, role |-> None, token |-> 0, target |-> None, to |-> None]
Sessions == {tokens[t].session : t \in DOMAIN tokens}
Exists(u) == role[u] \in Roles

TypeOK ==
  /\ role \in [Users -> Roles \cup {"new", "gone"}] /\ changed \subseteq Users
  /\ tokens \in Seq(Issued) /\ revoked \subseteq DOMAIN tokens
  /\ failed \in [Sources -> Nat] /\ guesses \in [Sources -> Nat] /\ lock \in [Sources -> Threads \cup {None}]
  /\ call \in [Threads -> Calls]
  /\ crossed \in BOOLEAN /\ logins \in 0..MaxLogins /\ changes \in 0..MaxChanges

Goes(c, record) == call' = [call EXCEPT ![c] = record]
Steps(c, at) == call' = [call EXCEPT ![c].at = at]
Ends(c) == Goes(c, Idle)

-----------------------------------------------------------------------------
\* login.  A request without a name or password fails before it takes the lock.
Login(c, u, s) ==
  /\ call[c].at = "rest" /\ logins < MaxLogins /\ logins' = logins + 1
  /\ \/ Goes(c, [Idle EXCEPT !.at = "waits", !.user = u, !.source = s]) /\ UNCHANGED failed
     \/ failed' = [failed EXCEPT ![s] = @ + 1] /\ UNCHANGED call
  /\ UNCHANGED <<table, lock, guesses, crossed, changes>>

\* _login_checked: one request of a source at a time counts, verifies and logs.
Admits(s) == lock[s] = None
Enter(c) ==
  LET s == call[c].source
  IN /\ call[c].at = "waits" /\ Admits(s)
     /\ IF failed[s] >= Limit THEN Ends(c) /\ UNCHANGED lock
        ELSE Steps(c, "verify") /\ lock' = [lock EXCEPT ![s] = c]
     /\ UNCHANGED <<table, failed, guesses, crossed, logins, changes>>
Verify(c) ==
  LET s == call[c].source
      u == call[c].user
  IN /\ call[c].at = "verify"
     /\ lock' = [lock EXCEPT ![s] = None]
     /\ \/ Exists(u) /\ Goes(c, [call[c] EXCEPT !.at = "grant", !.role = role[u]])
           /\ UNCHANGED <<failed, guesses>>
        \/ Ends(c) /\ failed' = [failed EXCEPT ![s] = @ + 1] /\ guesses' = [guesses EXCEPT ![s] = @ + 1]
     /\ UNCHANGED <<table, crossed, logins, changes>>

\* create_access_token, create_refresh_token: their time is in whole seconds, so a
\* change later in the same second ends them too.
Issue(c, session) ==
  /\ Len(tokens) < MaxTokens
  /\ tokens' = Append(tokens, [user |-> call[c].user, session |-> session, role |-> call[c].role,
                               over |-> call[c].user \in changed])
  /\ Ends(c)
Grant(c) ==
  /\ call[c].at = "grant"
  /\ Issue(c, Cardinality(Sessions) + 1)
  /\ UNCHANGED <<role, changed, revoked, audit, crossed, logins, changes>>

\* count_failed_attempts: a failure is 15 minutes old.
Forget(s) ==
  /\ failed[s] > 0 /\ failed' = [failed EXCEPT ![s] = @ - 1]
  /\ \E g \in {guesses[s], guesses[s] - 1} :
       g \in 0..failed'[s] /\ guesses' = [guesses EXCEPT ![s] = g]
  /\ UNCHANGED <<table, lock, call, crossed, logins, changes>>

-----------------------------------------------------------------------------
\* token_subject_active.
Active(t) == Exists(tokens[t].user) /\ ~tokens[t].over

\* refresh_token: the token is good, it is claimed, the next pair is issued.
Refresh(c, t) ==
  /\ call[c].at = "rest" /\ Active(t) /\ Len(tokens) < MaxTokens
  /\ Goes(c, [Idle EXCEPT !.at = "claim", !.user = tokens[t].user, !.role = role[tokens[t].user], !.token = t])
  /\ UNCHANGED <<table, audit, crossed, logins, changes>>
\* _revoke_jti: INSERT OR IGNORE tells whether the row is new.
Claimed_Fault(t) == TRUE
Claimed(t) == t \notin revoked
Claim(c) ==
  LET t == call[c].token
  IN /\ call[c].at = "claim"
     /\ revoked' = revoked \cup {t}
     /\ IF Claimed(t) THEN Steps(c, "mint") ELSE Ends(c)
     /\ UNCHANGED <<role, changed, tokens, audit, crossed, logins, changes>>
Mint(c) ==
  /\ call[c].at = "mint"
  /\ Issue(c, tokens[call[c].token].session)
  /\ UNCHANGED <<role, changed, revoked, audit, crossed, logins, changes>>

Logout(t) ==
  /\ revoked' = revoked \cup {t}
  /\ UNCHANGED <<role, changed, tokens, audit, call, crossed, logins, changes>>

-----------------------------------------------------------------------------
\* JWTAuthMiddleware.dispatch: an admin's request on a user is let in by the role
\* of its token.
Request(c, t, u, to) ==
  /\ call[c].at = "rest" /\ changes < MaxChanges /\ changes' = changes + 1
  /\ Active(t) /\ tokens[t].role = "admin"
  /\ Goes(c, [Idle EXCEPT !.at = "act", !.user = tokens[t].user, !.target = u, !.to = to])
  /\ UNCHANGED <<table, audit, crossed, logins>>

\* create_user, update_user (a new role or a new password), delete_user.
Allowed(c) ==
  LET q == call[c]
  IN \/ role[q.target] = "new" /\ q.to \in Roles
     \/ Exists(q.target) /\ (q.target = q.user => q.to = role[q.target])
UnderWay(u, c) == \E d \in Threads \ {c} : call[d].user = u /\ call[d].at # "rest"
Act(c) ==
  LET q == call[c]
  IN /\ call[c].at = "act" /\ Ends(c)
     /\ IF Allowed(c)
        THEN /\ role' = [role EXCEPT ![q.target] = q.to]
             /\ changed' = IF q.to \in Roles /\ Exists(q.target) THEN changed \cup {q.target} ELSE changed
             /\ tokens' = [t \in DOMAIN tokens |->
                             IF tokens[t].user = q.target THEN [tokens[t] EXCEPT !.over = TRUE] ELSE tokens[t]]
             /\ crossed' = (crossed \/ UnderWay(q.target, c))
        ELSE UNCHANGED <<role, changed, tokens, crossed>>
     /\ UNCHANGED <<revoked, audit, logins, changes>>

Second ==
  /\ changed # {} /\ changed' = {}
  /\ UNCHANGED <<role, tokens, revoked, audit, call, crossed, logins, changes>>

-----------------------------------------------------------------------------
\* The first start makes one admin.
Init ==
  /\ \E first \in Users : role = [u \in Users |-> IF u = first THEN "admin" ELSE "new"]
  /\ changed = {} /\ tokens = <<>> /\ revoked = {}
  /\ failed = [s \in Sources |-> 0] /\ guesses = failed /\ lock = [s \in Sources |-> None]
  /\ call = [c \in Threads |-> Idle] /\ crossed = FALSE /\ logins = 0 /\ changes = 0

Next ==
  \/ \E c \in Threads :
       \/ \E u \in Users, s \in Sources : Login(c, u, s)
       \/ Enter(c) \/ Verify(c) \/ Grant(c) \/ Claim(c) \/ Mint(c) \/ Act(c)
       \/ \E t \in DOMAIN tokens : Refresh(c, t)
       \/ \E t \in DOMAIN tokens, u \in Users, to \in Roles \cup {"gone"} : Request(c, t, u, to)
  \/ \E t \in DOMAIN tokens \ revoked : Logout(t)
  \/ \E s \in Sources : Forget(s)
  \/ Second

Spec == Init /\ [][Next]_vars

-----------------------------------------------------------------------------
\* However many logins of a source run at once, no more than Limit wrong passwords
\* are checked for it in 15 minutes.
GuessesCounted == \A s \in Sources : guesses[s] <= Limit

\* A session has at most one refresh token that is still good, whatever tabs exchange
\* it at once or log out meanwhile.
Good(session) == {t \in DOMAIN tokens \ revoked : tokens[t].session = session}
Minting(session) == {c \in Threads : call[c].at = "mint" /\ tokens[call[c].token].session = session}
OneHeir == \A n \in Sessions : Cardinality(Good(n)) + Cardinality(Minting(n)) <= 1

\* An admin is left, whatever admins do to each other one after the other: who was
\* demoted acts no more, and nobody demotes or deletes himself.
AdminRemains == crossed \/ \E u \in Users : role[u] = "admin"
=============================================================================
