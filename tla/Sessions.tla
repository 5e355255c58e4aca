------------------------------ MODULE Sessions ------------------------------
(***************************************************************************)
(* The server side of login sessions: the auth handlers and service, the   *)
(* token repository, the parts of the users and admin services that end    *)
(* sessions, and the cleanup worker, as they interleave on PostgreSQL.     *)
(*                                                                         *)
(* Every HTTP request q is a small state machine.  It arrives with the     *)
(* cookie and the claims the client sent (pc is the name of the            *)
(* operation), runs one SQL statement per step, and ends with pc "done"    *)
(* and a reply that says what happens to the client's cookies:             *)
(*   "set"    both cookies are set, the refresh cookie to req[q].new       *)
(*   "clear"  both cookies are unset                                       *)
(*   "grace"  200 OK without cookies (the retry of a refresh)              *)
(*   "keep"   the cookies are not mentioned                                *)
(*                                                                         *)
(* PostgreSQL (external) runs each statement under READ COMMITTED.  A      *)
(* transaction that updated a row keeps it locked until it ends, a second  *)
(* writer of the row waits and then sees the committed row, and a DELETE   *)
(* of many rows only touches rows that were committed when it started.     *)
(***************************************************************************)
EXTENDS RefreshTokens, FiniteSets

CONSTANTS
    Users,          \* ids of the users table (and of its e-mail addresses)
    Admins,         \* the users whose access token carries the admin role
    Hashes,         \* refresh token hashes that can be generated
    Requests,       \* slots for concurrently running requests
    Operations,     \* the kinds of request that arrive
    GracePeriod,    \* 5 seconds
    RefreshTTL,     \* lifetime of a refresh token
    Retention,      \* 24 hours
    MaxTime,        \* bound of the clock
    DbErrors,       \* TRUE: a statement may fail (connection, 5s timeout)
    NoUser, NoHash

OperationNames == {"callback", "refresh", "logout", "sessions", "revoke",
                   "others", "delete", "purge", "restore"}

ASSUME OperationsAssumption == Operations \subseteq OperationNames
ASSUME AdminsAssumption == Admins \subseteq Users
ASSUME TimesAssumption == /\ GracePeriod \in Nat \ {0}
                          /\ RefreshTTL \in Nat \ {0}
                          /\ Retention \in Nat \ {0}
                          /\ MaxTime \in Nat
ASSUME DbErrorsAssumption == DbErrors \in BOOLEAN
ASSUME NoValueAssumption == NoUser \notin Users /\ NoHash \notin Hashes

VARIABLES
    users,      \* users[u]: "absent", "active", "deleted" (soft) or "purged"
    tokens,     \* the refresh_tokens table
    now,        \* the clock of the API and of the database
    req,        \* req[q]: the request in slot q
    family      \* history: the login a minted token descends from

vars == <<users, tokens, now, req, family>>

----------------------------------------------------------------------------
(* Requests.                                                               *)

Locals == {"idle", "issue", "replace", "insert", "getuser", "reuse",
           "softdeleted", "deleting", "purging", "done"}

Request ==
    [pc    : OperationNames \cup Locals,
     by    : Users \cup {NoUser},       \* claims.UserID, for delete and admin
     user  : Users \cup {NoUser},       \* the user the request is about
     hash  : Hashes \cup {NoHash},      \* hash of the refresh cookie
     new   : Hashes \cup {NoHash},      \* hash of the token it may generate
     at    : Nat,                       \* when it read the clock
     rows  : SUBSET Hashes,             \* session ids named, or a snapshot
     reply : {"none", "set", "clear", "grace", "keep"}]

Idle == [pc |-> "idle", by |-> NoUser, user |-> NoUser, hash |-> NoHash,
         new |-> NoHash, at |-> 0, rows |-> {}, reply |-> "none"]

\* The steps of one request.
Goto(q, pc) == req' = [req EXCEPT ![q] = [@ EXCEPT !.pc = pc]]

Reply(q, reply) == req' = [req EXCEPT ![q] = [Idle EXCEPT !.pc = "done", !.reply = reply]]

SetCookies(q) ==
    req' = [req EXCEPT ![q] = [Idle EXCEPT !.pc = "done", !.reply = "set", !.new = req[q].new]]

\* The open transaction that updated row h and has not committed.
Locked(h) == \E q \in Requests : req[q].pc = "insert" /\ req[q].hash = h

\* A DELETE FROM users that holds the row of u and is cascading.
Purging(u) == \E q \in Requests : req[q].pc = "purging" /\ req[q].user = u

Minted == {h \in Hashes : family[h] # NoHash}

\* GenerateRefreshString never repeats a token.
Fresh == {h \in Hashes \ Minted : \A q \in Requests : req[q].new # h}

TypeOK ==
    /\ users \in [Users -> {"absent", "active", "deleted", "purged"}]
    /\ DOMAIN tokens \subseteq Hashes
    /\ tokens \in [DOMAIN tokens -> Row(Users)]
    /\ now \in Nat
    /\ req \in [Requests -> Request]
    /\ family \in [Hashes -> Hashes \cup {NoHash}]

Init ==
    /\ users = [u \in Users |-> "absent"]
    /\ tokens = [h \in {} |-> Idle]
    /\ now = 0
    /\ req = [q \in Requests |-> Idle]
    /\ family = [h \in Hashes |-> NoHash]

----------------------------------------------------------------------------
(* Arrivals.  Claims come from access tokens, which stay valid after their *)
(* user is deleted; a cookie may be any token ever handed out, or none.    *)

Arrive(q, op, by, u, cookie, new, ids) ==
    /\ op \in Operations
    /\ req[q].pc = "idle"
    /\ req' = [req EXCEPT ![q] =
           [pc |-> op, by |-> by, user |-> u, hash |-> cookie, new |-> new,
            at |-> 0, rows |-> ids, reply |-> "none"]]
    /\ UNCHANGED <<users, tokens, now, family>>

Claimants == {u \in Users : users[u] # "absent"}
Cookies == Minted \cup {NoHash}

ArriveCallback(q, u, n) == n \in Fresh /\ Arrive(q, "callback", NoUser, u, NoHash, n, {})
ArriveRefresh(q, c, n) ==
    /\ c \in Cookies /\ n \in Fresh
    /\ Arrive(q, "refresh", NoUser, NoUser, c, n, {})
ArriveLogout(q, c) == c \in Cookies /\ Arrive(q, "logout", NoUser, NoUser, c, NoHash, {})
ArriveSessions(q, u) == u \in Claimants /\ Arrive(q, "sessions", NoUser, u, NoHash, NoHash, {})
ArriveRevoke(q, u, c, id) ==
    /\ u \in Claimants /\ c \in Cookies /\ id \in Minted
    /\ Arrive(q, "revoke", NoUser, u, c, NoHash, {id})
ArriveOthers(q, u, c) ==
    /\ u \in Claimants /\ c \in Cookies
    /\ Arrive(q, "others", NoUser, u, c, NoHash, {})
ArriveDelete(q, by, u) == by \in Claimants /\ Arrive(q, "delete", by, u, NoHash, NoHash, {})
ArriveAdmin(q, by, u) ==
    /\ by \in Admins \cap Claimants
    /\ \E op \in {"purge", "restore"} : Arrive(q, op, by, u, NoHash, NoHash, {})

----------------------------------------------------------------------------
(* Login: UpsertOAuthUser, then IssueSessionTokens.                        *)

\* INSERT ... ON CONFLICT (email) DO UPDATE ... WHERE deleted_at IS NULL.  A
\* purged address is inserted again under a new id.
OAuthCallback(q) ==
    /\ req[q].pc = "callback"
    /\ ~Purging(req[q].user)
    /\ \/ /\ users[req[q].user] \in {"absent", "active"}
          /\ users' = [users EXCEPT ![req[q].user] = "active"]
          /\ Goto(q, "issue")
       \/ /\ users[req[q].user] = "deleted"
          /\ Reply(q, "keep")
          /\ UNCHANGED users
       \/ /\ users[req[q].user] = "purged"
          /\ \E id \in Users :
                /\ users[id] = "absent"
                /\ users' = [users EXCEPT ![id] = "active"]
                /\ req' = [req EXCEPT ![q] = [@ EXCEPT !.pc = "issue", !.user = id]]
       \/ /\ users[req[q].user] = "purged"     \* bound: no id is left
          /\ \A id \in Users : users[id] # "absent"
          /\ Reply(q, "keep")
          /\ UNCHANGED users
    /\ UNCHANGED <<tokens, now, family>>

\* The user's deletion is not checked again; the foreign key rejects a
\* purged user.
IssueSessionTokens(q) ==
    /\ req[q].pc = "issue"
    /\ ~Purging(req[q].user)
    /\ \/ /\ users[req[q].user] # "purged"
          /\ tokens' = CreateRefreshToken(tokens, req[q].new, req[q].user, now + RefreshTTL)
          /\ family' = [family EXCEPT ![req[q].new] = req[q].new]
          /\ SetCookies(q)
       \/ /\ users[req[q].user] = "purged"
          /\ Reply(q, "keep")
          /\ UNCHANGED <<tokens, family>>
    /\ UNCHANGED <<users, now>>

----------------------------------------------------------------------------
(* POST /auth/refresh.                                                     *)

\* GetRefreshByHash and the checks on the row it returned.
RefreshSession(q) ==
    LET h == req[q].hash IN
    /\ req[q].pc = "refresh"
    /\ \/ /\ h \notin DOMAIN tokens
          /\ Reply(q, "clear")
       \/ /\ h \in DOMAIN tokens
          /\ Expired(tokens[h], now)
          /\ Reply(q, "clear")
       \/ /\ h \in DOMAIN tokens
          /\ ~Expired(tokens[h], now)
          /\ tokens[h].is_consumed
          /\ IF now - tokens[h].updated_at < GracePeriod
             THEN Reply(q, "grace")
             ELSE req' = [req EXCEPT ![q] =
                     [@ EXCEPT !.pc = "reuse", !.user = tokens[h].user_id, !.new = NoHash]]
       \/ /\ h \in DOMAIN tokens
          /\ ~Expired(tokens[h], now)
          /\ ~tokens[h].is_consumed
          /\ req' = [req EXCEPT ![q] =
                 [@ EXCEPT !.pc = "replace", !.user = tokens[h].user_id, !.at = now]]
    /\ UNCHANGED <<users, tokens, now, family>>

\* A plausible slip: RowsAffected is not looked at.
ReplaceConsumeUnchecked(q) ==
    /\ req[q].pc = "replace"
    /\ ~Locked(req[q].hash)
    /\ \E t \in req[q].at .. now :
          req' = [req EXCEPT ![q] = [@ EXCEPT !.pc = "insert", !.at = t]]
    /\ UNCHANGED <<users, tokens, now, family>>

\* A plausible slip: zero rows affected is taken for a serialization failure
\* and the transaction is tried again.
ReplaceConsumeRetry(q) ==
    /\ req[q].pc = "replace"
    /\ ~Locked(req[q].hash)
    /\ IF Unconsumed(tokens, req[q].hash)
       THEN \E t \in req[q].at .. now :
               req' = [req EXCEPT ![q] = [@ EXCEPT !.pc = "insert", !.at = t]]
       ELSE UNCHANGED req
    /\ UNCHANGED <<users, tokens, now, family>>

\* ReplaceInTransaction up to the RowsAffected check.  The updated row is
\* invisible to others until the commit but locked.  NOW() is the time of
\* BEGIN, which is later than the SELECT and may precede a wait for the lock.
ReplaceConsume(q) ==
    /\ req[q].pc = "replace"
    /\ ~Locked(req[q].hash)
    /\ \/ /\ Unconsumed(tokens, req[q].hash)
          /\ \E t \in req[q].at .. now :
                req' = [req EXCEPT ![q] = [@ EXCEPT !.pc = "insert", !.at = t]]
       \/ /\ ~Unconsumed(tokens, req[q].hash)
          /\ req' = [req EXCEPT ![q] = [@ EXCEPT !.pc = "reuse", !.new = NoHash]]
    /\ UNCHANGED <<users, tokens, now, family>>

\* The INSERT of the new token, which waits for a purge of its user, and the
\* commit that makes both writes visible.
ReplaceCommit(q) ==
    LET h == req[q].hash
        n == req[q].new IN
    /\ req[q].pc = "insert"
    /\ ~Purging(req[q].user)
    /\ tokens' = CreateRefreshToken(ConsumeRefreshTokenByHash(tokens, h, req[q].at),
                                    n, req[q].user, req[q].at + RefreshTTL)
    /\ family' = [family EXCEPT ![n] = family[h]]
    /\ Goto(q, "getuser")
    /\ UNCHANGED <<users, now>>

\* users.GetAvailable: from the cache, which may still hold a user that was
\* deleted meanwhile, or from the database.
GetAvailable(q) ==
    /\ req[q].pc = "getuser"
    /\ \/ SetCookies(q)
       \/ /\ users[req[q].user] # "active"
          /\ Reply(q, "clear")
    /\ UNCHANGED <<users, tokens, now, family>>

----------------------------------------------------------------------------
(* DELETE of all or of all other rows of a user.  The first step takes the *)
(* statement's snapshot, the last one waits until none of these rows is    *)
(* locked, removes those that still exist and commits.                     *)

DeleteAllRefreshForUser(q) ==
    /\ req[q].pc \in {"reuse", "softdeleted"}
    /\ req' = [req EXCEPT ![q] =
           [@ EXCEPT !.pc = "deleting", !.reply = "clear",
                     !.rows = AllRefreshTokensForUser(tokens, req[q].user)]]
    /\ UNCHANGED <<users, tokens, now, family>>

\* POST /auth/logout-others.
RevokeOtherSessions(q) ==
    /\ req[q].pc = "others"
    /\ \/ /\ req[q].hash = NoHash
          /\ Reply(q, "keep")
       \/ /\ req[q].hash # NoHash
          /\ req' = [req EXCEPT ![q] =
                 [@ EXCEPT !.pc = "deleting", !.reply = "keep",
                    !.rows = OtherRefreshTokensForUser(tokens, req[q].user, req[q].hash)]]
    /\ UNCHANGED <<users, tokens, now, family>>

DeleteFinish(q) ==
    /\ req[q].pc = "deleting"
    /\ \A h \in req[q].rows : ~Locked(h)
    /\ tokens' = DeleteRows(tokens, req[q].rows)
    /\ Reply(q, req[q].reply)
    /\ UNCHANGED <<users, now, family>>

----------------------------------------------------------------------------
(* Single-row operations.                                                  *)

\* POST /auth/logout.
Logout(q) ==
    /\ req[q].pc = "logout"
    /\ ~Locked(req[q].hash)
    /\ tokens' = ConsumeRefreshTokenByHash(tokens, req[q].hash, now)
    /\ Reply(q, "clear")
    /\ UNCHANGED <<users, now, family>>

\* GET /auth/sessions.
GetSessions(q) ==
    /\ req[q].pc = "sessions"
    /\ req' = [req EXCEPT ![q] =
           [Idle EXCEPT !.pc = "done", !.reply = "keep",
                !.rows = GetActiveRefreshTokensForUser(tokens, req[q].user, now)]]
    /\ UNCHANGED <<users, tokens, now, family>>

\* DELETE /auth/sessions/{id}.
RevokeSession(q) ==
    /\ req[q].pc = "revoke"
    /\ \E id \in req[q].rows :
          /\ ~Locked(id)
          /\ tokens' = DeleteRows(tokens, RefreshTokenByID(tokens, req[q].user, id))
          /\ Reply(q, IF id \in UserRows(tokens, req[q].user) /\ id = req[q].hash
                      THEN "clear" ELSE "keep")
    /\ UNCHANGED <<users, now, family>>

----------------------------------------------------------------------------
(* Users and administration.                                               *)

\* DELETE /users/{id}; the tokens are deleted by the next statement.
UserDelete(q) ==
    /\ req[q].pc = "delete"
    /\ ~Purging(req[q].user)
    /\ \/ /\ req[q].by = req[q].user
          /\ users[req[q].user] = "active"
          /\ users' = [users EXCEPT ![req[q].user] = "deleted"]
          /\ Goto(q, "softdeleted")
       \/ /\ req[q].by # req[q].user \/ users[req[q].user] # "active"
          /\ Reply(q, "keep")
          /\ UNCHANGED users
    /\ UNCHANGED <<tokens, now, family>>

RestoreUser(q) ==
    /\ req[q].pc = "restore"
    /\ ~Purging(req[q].user)
    /\ \/ /\ req[q].by # req[q].user
          /\ users[req[q].user] = "deleted"
          /\ users' = [users EXCEPT ![req[q].user] = "active"]
       \/ /\ req[q].by = req[q].user \/ users[req[q].user] # "deleted"
          /\ UNCHANGED users
    /\ Reply(q, "keep")
    /\ UNCHANGED <<tokens, now, family>>

\* DELETE FROM users: the statement locks the user's row ...
PurgeUser(q) ==
    /\ req[q].pc = "purge"
    /\ ~Purging(req[q].user)
    /\ \/ /\ req[q].by # req[q].user
          /\ users[req[q].user] \in {"active", "deleted"}
          /\ Goto(q, "purging")
       \/ /\ req[q].by = req[q].user \/ users[req[q].user] \in {"absent", "purged"}
          /\ Reply(q, "keep")
    /\ UNCHANGED <<users, tokens, now, family>>

\* A plausible slip: refresh_tokens.user_id without ON DELETE CASCADE, its rows
\* removed by a query of its own over the rows that are not consumed.
PurgeFinishPartial(q) ==
    /\ req[q].pc = "purging"
    /\ \A h \in UserRows(tokens, req[q].user) : ~Locked(h)
    /\ users' = [users EXCEPT ![req[q].user] = "purged"]
    /\ tokens' = DeleteRows(tokens, GetActiveRefreshTokensForUser(tokens, req[q].user, now))
    /\ Reply(q, "keep")
    /\ UNCHANGED <<now, family>>

\* ... and ON DELETE CASCADE then waits for the locks on the user's tokens.
PurgeFinish(q) ==
    /\ req[q].pc = "purging"
    /\ \A h \in UserRows(tokens, req[q].user) : ~Locked(h)
    /\ users' = [users EXCEPT ![req[q].user] = "purged"]
    /\ tokens' = DeleteRows(tokens, UserRows(tokens, req[q].user))
    /\ Reply(q, "keep")
    /\ UNCHANGED <<now, family>>

----------------------------------------------------------------------------
(* Failures.                                                               *)

\* The reply to a failed statement.  The errors of DeleteAllRefreshForUser,
\* DeleteOtherSessions and ConsumeSessionToken are dropped.
ErrorReply(r) ==
    IF r.pc \in {"refresh", "replace", "insert", "getuser", "reuse", "softdeleted", "logout"}
    THEN "clear"
    ELSE IF r.pc = "deleting" THEN r.reply ELSE "keep"

\* A statement fails and its transaction is rolled back.
DbError(q) ==
    /\ DbErrors
    /\ req[q].pc \notin {"idle", "done"}
    /\ Reply(q, ErrorReply(req[q]))
    /\ UNCHANGED <<users, tokens, now, family>>

\* A purge waits for the row a rotation has locked and the rotation for the
\* user's row: PostgreSQL aborts one of the two.
DeadlockVictim(q) ==
    /\ \/ /\ req[q].pc = "insert"
          /\ Purging(req[q].user)
       \/ /\ req[q].pc = "purging"
          /\ \E h \in UserRows(tokens, req[q].user) : Locked(h)
    /\ Reply(q, ErrorReply(req[q]))
    /\ UNCHANGED <<users, tokens, now, family>>

----------------------------------------------------------------------------
(* The environment: the response leaves, the worker runs, time passes.     *)

Respond(q) ==
    /\ req[q].pc = "done"
    /\ req' = [req EXCEPT ![q] = Idle]
    /\ UNCHANGED <<users, tokens, now, family>>

Cleanup ==
    LET old == CleanupRefreshTokens(tokens, now, Retention) IN
    /\ old # {}
    /\ \A h \in old : ~Locked(h)
    /\ tokens' = DeleteRows(tokens, old)
    /\ UNCHANGED <<users, now, req, family>>

Tick == now < MaxTime /\ now' = now + 1 /\ UNCHANGED <<users, tokens, req, family>>

Handle(q) ==
    \/ OAuthCallback(q) \/ IssueSessionTokens(q)
    \/ RefreshSession(q) \/ ReplaceConsume(q) \/ ReplaceCommit(q) \/ GetAvailable(q)
    \/ DeleteAllRefreshForUser(q) \/ RevokeOtherSessions(q) \/ DeleteFinish(q)
    \/ Logout(q) \/ GetSessions(q) \/ RevokeSession(q)
    \/ UserDelete(q) \/ RestoreUser(q) \/ PurgeUser(q) \/ PurgeFinish(q)

Arrival(q) ==
    \/ \E u \in Users, n \in Hashes : ArriveCallback(q, u, n)
    \/ \E c \in Hashes \cup {NoHash}, n \in Hashes : ArriveRefresh(q, c, n)
    \/ \E c \in Hashes \cup {NoHash} : ArriveLogout(q, c)
    \/ \E u \in Users : ArriveSessions(q, u)
    \/ \E u \in Users, c \in Hashes \cup {NoHash}, id \in Hashes : ArriveRevoke(q, u, c, id)
    \/ \E u \in Users, c \in Hashes \cup {NoHash} : ArriveOthers(q, u, c)
    \/ \E by, u \in Users : ArriveDelete(q, by, u)
    \/ \E by, u \in Users : ArriveAdmin(q, by, u)

Next ==
    \/ \E q \in Requests :
          Arrival(q) \/ Handle(q) \/ DbError(q) \/ DeadlockVictim(q) \/ Respond(q)
    \/ Cleanup
    \/ Tick

Spec == Init /\ [][Next]_vars

\* PostgreSQL grants a contended row lock in the order of the queue, so a
\* request that can proceed again and again proceeds; its deadlock detector
\* runs after deadlock_timeout.
Fairness ==
    /\ \A q \in Requests : SF_vars(Handle(q))
    /\ WF_vars(\E q \in Requests : DeadlockVictim(q))

FairSpec == Spec /\ Fairness

----------------------------------------------------------------------------
(* Properties.                                                             *)

\* The tokens of session f that a refresh would still exchange.
Live(f) == {h \in DOMAIN tokens : family[h] = f /\ ~tokens[h].is_consumed}

\* Rotation spends a token: however refreshes, logouts and revocations of the
\* same cookie interleave, at most one token of a login is exchangeable, so
\* one login is one entry of GET /auth/sessions.
OneTokenPerSession == \A f \in Hashes : \A h, k \in Live(f) : h = k

\* A session ended by logout, revocation, deletion or reuse detection cannot
\* be revived by a rotation that was in flight: once no token of a login is
\* exchangeable, none ever is again.
EndedSessionStaysEnded ==
    [][\A f \in Minted : Live(f) = {} => Live(f)' = {}]_vars

\* The grace period of a consumed token runs once: no second logout, refresh
\* or retry moves the time it was consumed at.
GraceRunsOnce ==
    [][\A h \in DOMAIN tokens \cap DOMAIN tokens' :
          tokens[h].is_consumed =>
             tokens'[h].is_consumed /\ tokens'[h].updated_at = tokens[h].updated_at]_vars

\* The foreign key holds while logins, rotations and a purge of their user
\* run at the same time: no token outlives its user's row.
NoOrphanTokens ==
    \A h \in DOMAIN tokens : users[tokens[h].user_id] \in {"active", "deleted"}

\* Every request is answered: waits for row locks end, also when a purge and a
\* rotation wait for each other.
RequestsComplete ==
    \A q \in Requests : req[q].pc \notin {"idle", "done"} ~> req[q].pc \in {"idle", "done"}

\* The store implements the abstract life of a session.
Lifecycle == INSTANCE SessionLifecycle WITH
    live <- [f \in Hashes |-> Live(f)], used <- Minted

ImplementsLifecycle == Lifecycle!LSpec

\* Ending sessions by id or by user never touches another user's sessions,
\* although the ids come from the client and the snapshot from an earlier step.
ForeignSessionsUntouched ==
    [][\A q \in Requests :
          req[q].pc \in {"revoke", "deleting"} /\ req'[q].pc = "done" =>
             \A h \in DOMAIN tokens :
                tokens[h].user_id # req[q].user => h \in DOMAIN tokens']_vars

----------------------------------------------------------------------------
(* The invariant that makes OneTokenPerSession and NoOrphanTokens inductive. *)

\* The requests that hold a generated, not yet stored token.
Pending(q) == req[q].pc \in {"callback", "issue", "refresh", "replace", "insert"}

\* Tokens under way are unknown to the table and to each other.
PendingInv ==
    /\ \A q \in Requests : Pending(q) => req[q].new \in Hashes \ Minted
    /\ \A p, q \in Requests :
          Pending(p) /\ Pending(q) /\ req[p].new = req[q].new => p = q

\* A row lock belongs to one transaction, and the row it locks is still there,
\* unconsumed and of the user the transaction read.
LockInv ==
    /\ \A q \in Requests : req[q].pc = "replace" /\ req[q].hash \in DOMAIN tokens =>
          req[q].user = tokens[req[q].hash].user_id
    /\ \A q \in Requests : req[q].pc \in {"replace", "insert"} => req[q].hash \in Minted
    /\ \A q \in Requests : req[q].pc = "insert" =>
          /\ Unconsumed(tokens, req[q].hash)
          /\ req[q].user = tokens[req[q].hash].user_id
    /\ \A p, q \in Requests :
          req[p].pc = "insert" /\ req[q].pc = "insert" /\ req[p].hash = req[q].hash => p = q

\* Every row was minted, and so was the login it descends from.
FamilyInv ==
    /\ DOMAIN tokens \subseteq Minted
    /\ \A h \in Minted : family[h] \in Minted

\* A login past the upsert concerns a user who has been registered.
AccountInv ==
    /\ \A q \in Requests : req[q].pc = "callback" => req[q].user \in Users
    /\ \A q \in Requests : req[q].pc = "issue" =>
          req[q].user \in Users /\ users[req[q].user] # "absent"

\* The rows a DELETE of many rows found when it started are rows of its user,
\* also when it gets to remove them; a hash is not given to anybody else.
SnapshotInv ==
    \A q \in Requests : req[q].pc = "deleting" =>
       \A h \in req[q].rows :
          h \in Minted /\ (h \in DOMAIN tokens => tokens[h].user_id = req[q].user)

IInv == /\ TypeOK
        /\ PendingInv
        /\ LockInv
        /\ FamilyInv
        /\ AccountInv
        /\ OneTokenPerSession
        /\ NoOrphanTokens

----------------------------------------------------------------------------
(* What the documentation says of logout-others and the code does not do   *)
(* under every interleaving.                                               *)

\* "Deletes all other refresh tokens from database (logout from other
\* devices)": when logout-others answers, every session it found, except the
\* caller's own, is over.
OtherSessionsEnd ==
    [][\A q \in Requests : \A h \in req[q].rows :
          /\ req[q].pc = "deleting" /\ req[q].reply = "keep" /\ req'[q].pc = "done"
          /\ family[h] # family[req[q].hash]
          => Live(family[h])' = {}]_vars

=============================================================================
