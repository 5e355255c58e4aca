--------------------------- MODULE Sessions_proofs ---------------------------
(***************************************************************************)
(* Proofs about Sessions, for every set of users, tokens and requests and  *)
(* for every grace period, lifetime and retention.                         *)
(***************************************************************************)
EXTENDS Sessions, TLAPS

----------------------------------------------------------------------------
(* The table.                                                              *)

Table(T) == DOMAIN T \subseteq Hashes /\ T \in [DOMAIN T -> Row(Users)]

\* The conditional UPDATE keeps every row and its owner, and changes only a row
\* that was not consumed.
LEMMA ConsumeTable ==
    ASSUME NEW T, Table(T), NEW h, NEW t \in Nat,
           NEW C, C = ConsumeRefreshTokenByHash(T, h, t)
    PROVE  /\ DOMAIN C \subseteq Hashes /\ C \in [DOMAIN C -> Row(Users)]
           /\ DOMAIN C = DOMAIN T
           /\ \A x \in DOMAIN T : C[x].user_id = T[x].user_id /\ C[x].expires_at = T[x].expires_at
           /\ \A x \in DOMAIN T : x # h \/ T[x].is_consumed => C[x] = T[x]
           /\ h \in DOMAIN T => C[h].is_consumed
  <1>1. CASE ~Unconsumed(T, h)
    BY <1>1 DEF Table, ConsumeRefreshTokenByHash, Unconsumed, Row
  <1>2. CASE Unconsumed(T, h)
    <2> DEFINE r == [T[h] EXCEPT !.is_consumed = TRUE, !.updated_at = t]
    <2>1. C = [T EXCEPT ![h] = r]
      BY <1>2 DEF ConsumeRefreshTokenByHash
    <2>2. T[h] \in Row(Users) /\ h \in DOMAIN T
      BY <1>2 DEF Table, Unconsumed
    <2>3. /\ r \in Row(Users) /\ r.is_consumed
          /\ r.user_id = T[h].user_id /\ r.expires_at = T[h].expires_at
      BY <2>2 DEF Row
    <2> QED BY <2>1, <2>2, <2>3, <1>2 DEF Table, Unconsumed
  <1> QED BY <1>1, <1>2

----------------------------------------------------------------------------
(* Requests.                                                               *)

\* Only request q changed, and into r.
Becomes(q, r) == req' = [req EXCEPT ![q] = r]

\* Replacing one request by a request keeps the type and the other requests.
LEMMA BecomesType ==
    ASSUME req \in [Requests -> Request], NEW q \in Requests, NEW r \in Request, Becomes(q, r)
    PROVE  /\ req' \in [Requests -> Request]
           /\ req'[q] = r
           /\ \A p \in Requests \ {q} : req'[p] = req[p]
  BY DEF Becomes

\* The answers a handler gives are requests in state "done".
LEMMA ReplyStep ==
    ASSUME req \in [Requests -> Request], NEW q \in Requests,
           NEW a \in {"none", "set", "clear", "grace", "keep"}, Reply(q, a)
    PROVE  /\ req' \in [Requests -> Request]
           /\ req'[q].pc = "done"
           /\ \A p \in Requests \ {q} : req'[p] = req[p]
  <1> DEFINE r == [Idle EXCEPT !.pc = "done", !.reply = a]
  <1>1. r \in Request /\ r.pc = "done"
    BY DEF Idle, Request, Locals
  <1>2. Becomes(q, r)
    BY DEF Becomes, Reply
  <1> HIDE DEF r
  <1> QED BY <1>1, <1>2, BecomesType

\* The answer that sets the cookies is a request in state "done" too.
LEMMA SetCookiesStep ==
    ASSUME req \in [Requests -> Request], NEW q \in Requests, SetCookies(q)
    PROVE  /\ req' \in [Requests -> Request]
           /\ req'[q].pc = "done"
           /\ \A p \in Requests \ {q} : req'[p] = req[p]
  <1> DEFINE r == [Idle EXCEPT !.pc = "done", !.reply = "set", !.new = req[q].new]
  <1>0. req[q].new \in Hashes \cup {NoHash}
    BY DEF Request
  <1>1. r \in Request /\ r.pc = "done"
    BY <1>0 DEF Idle, Request, Locals
  <1>2. Becomes(q, r)
    BY DEF Becomes, SetCookies
  <1> HIDE DEF r
  <1> QED BY <1>1, <1>2, BecomesType

\* Moving a request to its next statement keeps it a request.
LEMMA GotoStep ==
    ASSUME req \in [Requests -> Request], NEW q \in Requests,
           NEW l \in OperationNames \cup Locals, Goto(q, l)
    PROVE  /\ req' \in [Requests -> Request]
           /\ req'[q] = [req[q] EXCEPT !.pc = l]
           /\ \A p \in Requests \ {q} : req'[p] = req[p]
  <1> DEFINE r == [req[q] EXCEPT !.pc = l]
  <1>1. r \in Request
    BY DEF Request
  <1>2. Becomes(q, r)
    BY DEF Becomes, Goto
  <1> QED BY <1>1, <1>2, BecomesType

----------------------------------------------------------------------------
(* One step keeps IInv.  The states from which a request can still store a *)
(* token or hold a lock are the ones of Active.                            *)

Active == {"callback", "issue", "refresh", "replace", "insert"}

\* No step takes a registration back.
Registered == \A u \in Users : users[u] # "absent" => users'[u] # "absent"

\* A request that leaves the active states releases its lock and its token
\* without disturbing the others, as long as the table stands still.
LEMMA SettledRequest ==
    ASSUME IInv, NEW q \in Requests, req'[q].pc \notin Active,
           \A p \in Requests \ {q} : req'[p] = req[p],
           Registered, UNCHANGED <<tokens, family>>
    PROVE  PendingInv' /\ LockInv' /\ FamilyInv' /\ AccountInv' /\ OneTokenPerSession'
  <1>1. PendingInv'
    BY DEF IInv, PendingInv, Pending, Minted, Active
  <1>2. LockInv'
    BY DEF IInv, LockInv, Unconsumed, Minted, Active
  <1>3. FamilyInv' /\ OneTokenPerSession'
    BY DEF IInv, FamilyInv, OneTokenPerSession, Minted, Live
  <1>4. AccountInv'
    BY DEF IInv, AccountInv, Active, Registered
  <1> QED BY <1>1, <1>2, <1>3, <1>4

\* The same for a step that also leaves the users alone.
LEMMA SettledStep ==
    ASSUME IInv, NEW q \in Requests, req'[q].pc \notin Active,
           req' \in [Requests -> Request],
           \A p \in Requests \ {q} : req'[p] = req[p],
           UNCHANGED <<users, tokens, now, family>>
    PROVE  IInv'
  <1>1. Registered
    BY DEF Registered
  <1>2. TypeOK' /\ NoOrphanTokens'
    BY DEF IInv, TypeOK, NoOrphanTokens
  <1> QED BY <1>1, <1>2, SettledRequest DEF IInv

\* A step that only answers.
LEMMA ReplyOnly ==
    ASSUME IInv, NEW q \in Requests,
           NEW a \in {"none", "set", "clear", "grace", "keep"}, Reply(q, a),
           UNCHANGED <<users, tokens, now, family>>
    PROVE  IInv'
  <1>1. /\ req' \in [Requests -> Request] /\ req'[q].pc = "done"
        /\ \A p \in Requests \ {q} : req'[p] = req[p]
    BY ReplyStep DEF IInv, TypeOK
  <1> QED BY <1>1, SettledStep DEF Active

\* A step that only answers with the cookies set.
LEMMA SetCookiesOnly ==
    ASSUME IInv, NEW q \in Requests, SetCookies(q), UNCHANGED <<users, tokens, now, family>>
    PROVE  IInv'
  <1>1. /\ req' \in [Requests -> Request] /\ req'[q].pc = "done"
        /\ \A p \in Requests \ {q} : req'[p] = req[p]
    BY SetCookiesStep DEF IInv, TypeOK
  <1> QED BY <1>1, SettledStep DEF Active

\* Rows that are deleted while none of them is locked, by a request that ends or
\* by the worker.
LEMMA DeleteStep ==
    ASSUME IInv, NEW S, tokens' = DeleteRows(tokens, S),
           \A h \in S \cap DOMAIN tokens : ~Locked(h),
           req' \in [Requests -> Request],
           \A p \in Requests : req'[p] = req[p] \/ req'[p].pc = "done",
           UNCHANGED <<now, family>>,
           users' \in [Users -> {"absent", "active", "deleted", "purged"}], Registered,
           NoOrphanTokens'
    PROVE  IInv'
  <1>0. Table(tokens)
    BY DEF IInv, TypeOK, Table
  <1>1. /\ DOMAIN tokens' \subseteq Hashes /\ tokens' \in [DOMAIN tokens' -> Row(Users)]
        /\ DOMAIN tokens' = DOMAIN tokens \ S
        /\ \A h \in DOMAIN tokens \ S : tokens'[h] = tokens[h]
    BY <1>0 DEF Table, DeleteRows, Restrict
  <1>2. TypeOK'
    BY <1>1 DEF IInv, TypeOK, Table
  <1>3. PendingInv' /\ AccountInv'
    BY DEF IInv, PendingInv, Pending, Minted, AccountInv, Registered
  <1>4. LockInv'
    BY <1>1 DEF IInv, LockInv, Unconsumed, Minted, Locked
  <1>5. FamilyInv' /\ OneTokenPerSession'
    BY <1>1 DEF IInv, FamilyInv, OneTokenPerSession, Minted, Live
  <1> QED BY <1>2, <1>3, <1>4, <1>5 DEF IInv

----------------------------------------------------------------------------
(* The actions.                                                            *)

\* An arriving request keeps the invariant if the token it generates is new
\* and no other request holds it.
LEMMA ArriveInv ==
    ASSUME IInv, NEW q \in Requests,
           NEW op \in OperationNames, NEW by \in Users \cup {NoUser},
           NEW u \in Users \cup {NoUser}, NEW c \in Hashes \cup {NoHash},
           NEW n \in Hashes \cup {NoHash}, NEW ids \in SUBSET Hashes,
           op \in {"callback", "refresh"} => n \in Fresh,
           op = "callback" => u \in Users,
           Arrive(q, op, by, u, c, n, ids)
    PROVE  IInv'
  <1> DEFINE r == [pc |-> op, by |-> by, user |-> u, hash |-> c, new |-> n,
                   at |-> 0, rows |-> ids, reply |-> "none"]
  <1>1. r \in Request
    BY DEF Request
  <1>2. Becomes(q, r) /\ UNCHANGED <<users, tokens, now, family>>
    BY DEF Becomes, Arrive
  <1>3. /\ req' \in [Requests -> Request]
        /\ req'[q] = r
        /\ \A p \in Requests \ {q} : req'[p] = req[p]
    BY <1>1, <1>2, BecomesType DEF IInv, TypeOK
  <1>4. op \notin {"issue", "replace", "insert"}
    BY DEF OperationNames
  <1>5. TypeOK' /\ NoOrphanTokens' /\ FamilyInv' /\ OneTokenPerSession'
    BY <1>2, <1>3 DEF IInv, TypeOK, NoOrphanTokens, FamilyInv, OneTokenPerSession, Minted, Live
  <1>6. PendingInv'
    BY <1>2, <1>3, <1>4 DEF IInv, PendingInv, Pending, Minted, Fresh
  <1>7. LockInv' /\ AccountInv'
    BY <1>2, <1>3, <1>4 DEF IInv, LockInv, AccountInv, Unconsumed, Minted
  <1> QED BY <1>5, <1>6, <1>7 DEF IInv

\* Every kind of request arrives that way: only logins and refreshes generate a
\* token, and Fresh keeps those apart.
LEMMA ArrivalInv == ASSUME IInv, NEW q \in Requests, Arrival(q) PROVE IInv'
  <1>0. {} \in SUBSET Hashes /\ (\A id \in Hashes : {id} \in SUBSET Hashes)
        /\ OperationNames = {"callback", "refresh", "logout", "sessions", "revoke",
                             "others", "delete", "purge", "restore"}
    BY DEF OperationNames
  <1>1. ASSUME NEW u \in Users, NEW n \in Hashes, ArriveCallback(q, u, n) PROVE IInv'
    <2>1. Arrive(q, "callback", NoUser, u, NoHash, n, {}) /\ n \in Fresh
      BY <1>1 DEF ArriveCallback
    <2> QED BY <2>1, <1>0, ArriveInv
  <1>2. ASSUME NEW c \in Hashes \cup {NoHash}, NEW n \in Hashes, ArriveRefresh(q, c, n)
        PROVE  IInv'
    <2>1. Arrive(q, "refresh", NoUser, NoUser, c, n, {}) /\ n \in Fresh
      BY <1>2 DEF ArriveRefresh
    <2> QED BY <2>1, <1>0, ArriveInv
  <1>3. ASSUME NEW c \in Hashes \cup {NoHash}, ArriveLogout(q, c) PROVE IInv'
    <2>1. Arrive(q, "logout", NoUser, NoUser, c, NoHash, {})
      BY <1>3 DEF ArriveLogout
    <2> QED BY <2>1, <1>0, ArriveInv
  <1>4. ASSUME NEW u \in Users, ArriveSessions(q, u) PROVE IInv'
    <2>1. Arrive(q, "sessions", NoUser, u, NoHash, NoHash, {})
      BY <1>4 DEF ArriveSessions
    <2> QED BY <2>1, <1>0, ArriveInv
  <1>5. ASSUME NEW u \in Users, NEW c \in Hashes \cup {NoHash}, NEW id \in Hashes,
               ArriveRevoke(q, u, c, id)
        PROVE  IInv'
    <2>1. Arrive(q, "revoke", NoUser, u, c, NoHash, {id})
      BY <1>5 DEF ArriveRevoke
    <2> QED BY <2>1, <1>0, ArriveInv
  <1>6. ASSUME NEW u \in Users, NEW c \in Hashes \cup {NoHash}, ArriveOthers(q, u, c)
        PROVE  IInv'
    <2>1. Arrive(q, "others", NoUser, u, c, NoHash, {})
      BY <1>6 DEF ArriveOthers
    <2> QED BY <2>1, <1>0, ArriveInv
  <1>7. ASSUME NEW by \in Users, NEW u \in Users, ArriveDelete(q, by, u) PROVE IInv'
    <2>1. Arrive(q, "delete", by, u, NoHash, NoHash, {})
      BY <1>7 DEF ArriveDelete
    <2> QED BY <2>1, <1>0, ArriveInv
  <1>8. ASSUME NEW by \in Users, NEW u \in Users, ArriveAdmin(q, by, u) PROVE IInv'
    <2>1. PICK op \in {"purge", "restore"} : Arrive(q, op, by, u, NoHash, NoHash, {})
      BY <1>8 DEF ArriveAdmin
    <2> QED BY <2>1, <1>0, ArriveInv
  <1> QED BY <1>1, <1>2, <1>3, <1>4, <1>5, <1>6, <1>7, <1>8 DEF Arrival

\* The upsert registers the user of the login; it meets no row of a purged one.
LEMMA OAuthCallbackInv == ASSUME IInv, NEW q \in Requests, OAuthCallback(q) PROVE IInv'
  <1> DEFINE u == req[q].user
  <1>0. u \in Users /\ req[q] \in Request /\ req \in [Requests -> Request]
    BY DEF OAuthCallback, IInv, AccountInv, TypeOK
  <1>1. CASE UNCHANGED users /\ Reply(q, "keep")
    BY <1>1, ReplyOnly DEF OAuthCallback
  <1>2. ASSUME NEW id \in Users, users[id] \in {"absent", "active"},
               users' = [users EXCEPT ![id] = "active"],
               req' = [req EXCEPT ![q] = [@ EXCEPT !.pc = "issue", !.user = id]]
        PROVE  IInv'
    <2> DEFINE r == [req[q] EXCEPT !.pc = "issue", !.user = id]
    <2>1. r \in Request /\ r.pc = "issue" /\ r.user = id /\ r.new = req[q].new
      BY <1>0 DEF Request, Locals
    <2>2. Becomes(q, r)
      BY <1>2 DEF Becomes
    <2> HIDE DEF r
    <2>3. /\ req' \in [Requests -> Request]
          /\ req'[q] = r
          /\ \A p \in Requests \ {q} : req'[p] = req[p]
      BY <1>0, <2>1, <2>2, BecomesType
    <2>4. UNCHANGED <<tokens, now, family>> /\ req[q].pc = "callback"
      BY DEF OAuthCallback
    <2>5. TypeOK' /\ NoOrphanTokens' /\ FamilyInv' /\ OneTokenPerSession'
      BY <1>2, <2>3, <2>4
         DEF IInv, TypeOK, NoOrphanTokens, FamilyInv, OneTokenPerSession, Minted, Live, Row
    <2>6. PendingInv'
      BY <2>1, <2>3, <2>4 DEF IInv, PendingInv, Pending, Minted
    <2>7. LockInv' /\ AccountInv'
      BY <1>2, <2>1, <2>3, <2>4 DEF IInv, TypeOK, LockInv, AccountInv, Unconsumed, Minted
    <2> QED BY <2>5, <2>6, <2>7 DEF IInv
  <1>3. CASE /\ users[u] \in {"absent", "active"}
             /\ users' = [users EXCEPT ![u] = "active"]
             /\ Goto(q, "issue")
    <2>1. [req[q] EXCEPT !.pc = "issue"] = [req[q] EXCEPT !.pc = "issue", !.user = u]
      BY <1>0 DEF Request
    <2>2. req' = [req EXCEPT ![q] = [@ EXCEPT !.pc = "issue", !.user = u]]
      BY <1>3, <2>1 DEF Goto
    <2> QED BY <1>0, <1>2, <1>3, <2>2
  <1> QED BY <1>1, <1>2, <1>3 DEF OAuthCallback

\* The first token of a login starts a session that no row belongs to yet.
LEMMA IssueSessionTokensInv == ASSUME IInv, NEW q \in Requests, IssueSessionTokens(q) PROVE IInv'
  <1> DEFINE n == req[q].new
             u == req[q].user
  <1>0. n \in Hashes \ Minted /\ u \in Users /\ users[u] # "absent" /\ req[q].pc = "issue"
    BY DEF IssueSessionTokens, IInv, PendingInv, Pending, AccountInv
  <1>1. CASE users[u] = "purged" /\ Reply(q, "keep") /\ UNCHANGED <<tokens, family>>
    BY <1>1, ReplyOnly DEF IssueSessionTokens
  <1>2. CASE /\ users[u] # "purged"
             /\ tokens' = CreateRefreshToken(tokens, n, u, now + RefreshTTL)
             /\ family' = [family EXCEPT ![n] = n]
             /\ SetCookies(q)
    <2>1. /\ req' \in [Requests -> Request] /\ req'[q].pc = "done"
          /\ \A p \in Requests \ {q} : req'[p] = req[p]
      BY <1>2, SetCookiesStep DEF IInv, TypeOK
    <2>2. Table(tokens) /\ now + RefreshTTL \in Nat
      BY TimesAssumption DEF IInv, TypeOK, Table
    <2>3. /\ DOMAIN tokens' \subseteq Hashes /\ tokens' \in [DOMAIN tokens' -> Row(Users)]
          /\ DOMAIN tokens' = DOMAIN tokens \cup {n}
          /\ \A x \in DOMAIN tokens \ {n} : tokens'[x] = tokens[x]
          /\ ~tokens'[n].is_consumed /\ tokens'[n].user_id = u
      BY <1>0, <1>2, <2>2 DEF Table, CreateRefreshToken, Row
    <2>4. UNCHANGED <<users, now>>
      BY DEF IssueSessionTokens
    <2>5. Minted' = Minted \cup {n} /\ n \notin DOMAIN tokens
      BY <1>0, <1>2, NoValueAssumption DEF IInv, TypeOK, FamilyInv, Minted
    <2>6. TypeOK'
      BY <1>0, <1>2, <2>1, <2>3, <2>4 DEF IInv, TypeOK, Table
    <2>7. PendingInv' /\ AccountInv'
      BY <1>0, <2>1, <2>4, <2>5 DEF IInv, PendingInv, Pending, AccountInv
    <2>8. LockInv'
      BY <1>0, <2>1, <2>3, <2>5 DEF IInv, LockInv, Unconsumed
    <2>9. FamilyInv' /\ NoOrphanTokens'
      BY <1>0, <1>2, <2>3, <2>4, <2>5 DEF IInv, TypeOK, FamilyInv, NoOrphanTokens, Minted
    <2>10. OneTokenPerSession'
      BY <1>0, <1>2, <2>3, <2>5 DEF IInv, TypeOK, FamilyInv, OneTokenPerSession, Live, Minted
    <2> QED BY <2>6, <2>7, <2>8, <2>9, <2>10 DEF IInv
  <1> QED BY <1>1, <1>2 DEF IssueSessionTokens

\* Reading the row gives the request the owner the row has.
LEMMA RefreshSessionInv == ASSUME IInv, NEW q \in Requests, RefreshSession(q) PROVE IInv'
  <1> DEFINE h == req[q].hash
  <1>0. /\ req[q].pc = "refresh" /\ req[q] \in Request /\ req \in [Requests -> Request]
        /\ UNCHANGED <<users, tokens, now, family>>
    BY DEF RefreshSession, IInv, TypeOK
  <1>1. CASE Reply(q, "clear") \/ Reply(q, "grace")
    BY <1>0, <1>1, ReplyOnly
  <1>2. ASSUME h \in DOMAIN tokens, ~tokens[h].is_consumed,
               Becomes(q, [req[q] EXCEPT !.pc = "replace", !.user = tokens[h].user_id, !.at = now])
        PROVE  IInv'
    <2> DEFINE r == [req[q] EXCEPT !.pc = "replace", !.user = tokens[h].user_id, !.at = now]
    <2>1. tokens[h].user_id \in Users /\ now \in Nat
      BY <1>2 DEF IInv, TypeOK, Row
    <2>2. r \in Request /\ r.pc = "replace" /\ r.user = tokens[h].user_id /\ r.hash = h
          /\ r.new = req[q].new
      BY <1>0, <2>1 DEF Request, Locals
    <2> HIDE DEF r
    <2>3. /\ req' \in [Requests -> Request]
          /\ req'[q] = r
          /\ \A p \in Requests \ {q} : req'[p] = req[p]
      BY <1>0, <1>2, <2>2, BecomesType DEF r
    <2>4. TypeOK' /\ NoOrphanTokens' /\ FamilyInv' /\ OneTokenPerSession' /\ AccountInv'
      BY <1>0, <2>2, <2>3
         DEF IInv, TypeOK, NoOrphanTokens, FamilyInv, OneTokenPerSession, AccountInv, Minted, Live
    <2>5. PendingInv'
      BY <1>0, <2>2, <2>3 DEF IInv, PendingInv, Pending, Minted
    <2>6. LockInv'
      BY <1>0, <1>2, <2>2, <2>3 DEF IInv, LockInv, FamilyInv, Unconsumed, Minted
    <2> QED BY <2>4, <2>5, <2>6 DEF IInv
  <1>3. ASSUME h \in DOMAIN tokens,
               Becomes(q, [req[q] EXCEPT !.pc = "reuse", !.user = tokens[h].user_id, !.new = NoHash])
        PROVE  IInv'
    <2> DEFINE r == [req[q] EXCEPT !.pc = "reuse", !.user = tokens[h].user_id, !.new = NoHash]
    <2>1. tokens[h].user_id \in Users
      BY <1>3 DEF IInv, TypeOK, Row
    <2>2. r \in Request /\ r.pc = "reuse"
      BY <1>0, <2>1 DEF Request, Locals
    <2> HIDE DEF r
    <2>3. /\ req' \in [Requests -> Request]
          /\ req'[q] = r
          /\ \A p \in Requests \ {q} : req'[p] = req[p]
      BY <1>0, <1>3, <2>2, BecomesType DEF r
    <2> QED BY <1>0, <2>2, <2>3, SettledStep DEF Active
  <1> QED BY <1>1, <1>2, <1>3 DEF RefreshSession, Becomes

\* The transaction gets the lock of an unconsumed row that nobody else holds,
\* or finds it consumed and holds nothing.
LEMMA ReplaceConsumeInv == ASSUME IInv, NEW q \in Requests, ReplaceConsume(q) PROVE IInv'
  <1>0. /\ req[q].pc = "replace" /\ ~Locked(req[q].hash)
        /\ req[q] \in Request /\ req \in [Requests -> Request]
        /\ UNCHANGED <<users, tokens, now, family>>
    BY DEF ReplaceConsume, IInv, TypeOK
  <1>1. ASSUME Unconsumed(tokens, req[q].hash), NEW t \in req[q].at .. now,
               Becomes(q, [req[q] EXCEPT !.pc = "insert", !.at = t])
        PROVE  IInv'
    <2> DEFINE r == [req[q] EXCEPT !.pc = "insert", !.at = t]
    <2>1. t \in Nat
      BY <1>0 DEF IInv, TypeOK, Request
    <2>2. r \in Request /\ r.pc = "insert" /\ r.user = req[q].user /\ r.hash = req[q].hash
          /\ r.new = req[q].new
      BY <1>0, <2>1 DEF Request, Locals
    <2> HIDE DEF r
    <2>3. /\ req' \in [Requests -> Request]
          /\ req'[q] = r
          /\ \A p \in Requests \ {q} : req'[p] = req[p]
      BY <1>0, <1>1, <2>2, BecomesType DEF r
    <2>4. TypeOK' /\ NoOrphanTokens' /\ FamilyInv' /\ OneTokenPerSession' /\ AccountInv'
      BY <1>0, <2>2, <2>3
         DEF IInv, TypeOK, NoOrphanTokens, FamilyInv, OneTokenPerSession, AccountInv, Minted, Live
    <2>5. PendingInv'
      BY <1>0, <2>2, <2>3 DEF IInv, PendingInv, Pending, Minted
    <2>6. LockInv'
      BY <1>0, <1>1, <2>2, <2>3 DEF IInv, LockInv, Locked, Unconsumed, Minted
    <2> QED BY <2>4, <2>5, <2>6 DEF IInv
  <1>2. ASSUME Becomes(q, [req[q] EXCEPT !.pc = "reuse", !.new = NoHash])
        PROVE  IInv'
    <2> DEFINE r == [req[q] EXCEPT !.pc = "reuse", !.new = NoHash]
    <2>1. r \in Request /\ r.pc = "reuse"
      BY <1>0 DEF Request, Locals
    <2> HIDE DEF r
    <2>2. /\ req' \in [Requests -> Request]
          /\ req'[q] = r
          /\ \A p \in Requests \ {q} : req'[p] = req[p]
      BY <1>0, <1>2, <2>1, BecomesType DEF r
    <2> QED BY <1>0, <2>1, <2>2, SettledStep DEF Active
  <1> QED BY <1>1, <1>2 DEF ReplaceConsume, Becomes

\* The commit consumes the one live token of the session and adds one.
LEMMA ReplaceCommitInv == ASSUME IInv, NEW q \in Requests, ReplaceCommit(q) PROVE IInv'
  <1> DEFINE h == req[q].hash
             n == req[q].new
             C == ConsumeRefreshTokenByHash(tokens, h, req[q].at)
  <1>0. /\ req[q].pc = "insert" /\ req[q] \in Request /\ req \in [Requests -> Request]
        /\ UNCHANGED <<users, now>>
        /\ family' = [family EXCEPT ![n] = family[h]]
    BY DEF ReplaceCommit, IInv, TypeOK
  <1>1. n \in Hashes \ Minted /\ h \in Minted /\ Unconsumed(tokens, h)
        /\ req[q].user = tokens[h].user_id
    BY <1>0 DEF IInv, PendingInv, Pending, LockInv
  <1>2. Table(tokens) /\ req[q].at \in Nat /\ req[q].at + RefreshTTL \in Nat
    BY <1>0, TimesAssumption DEF IInv, TypeOK, Table, Request
  <1>3. /\ Table(C)
        /\ DOMAIN C = DOMAIN tokens
        /\ \A x \in DOMAIN tokens : C[x].user_id = tokens[x].user_id
        /\ \A x \in DOMAIN tokens : x # h => C[x] = tokens[x]
        /\ C[h].is_consumed
    BY <1>1, <1>2, ConsumeTable DEF Table, Unconsumed
  <1>4. h \in DOMAIN tokens /\ tokens[h].user_id \in Users
    BY <1>1, <1>2 DEF Table, Unconsumed, Row
  <1>5. tokens' = CreateRefreshToken(C, n, req[q].user, req[q].at + RefreshTTL)
    BY DEF ReplaceCommit
  <1> HIDE DEF C
  <1>6. /\ DOMAIN tokens' \subseteq Hashes /\ tokens' \in [DOMAIN tokens' -> Row(Users)]
        /\ DOMAIN tokens' = DOMAIN tokens \cup {n}
        /\ \A x \in DOMAIN tokens \ {n} : tokens'[x] = C[x]
        /\ ~tokens'[n].is_consumed /\ tokens'[n].user_id = tokens[h].user_id
    BY <1>1, <1>2, <1>3, <1>4, <1>5 DEF Table, CreateRefreshToken, Row
  <1>7. /\ req' \in [Requests -> Request] /\ req'[q].pc = "getuser"
        /\ \A p \in Requests \ {q} : req'[p] = req[p]
    <2>1. Goto(q, "getuser") /\ "getuser" \in OperationNames \cup Locals
      BY DEF ReplaceCommit, Locals
    <2>2. /\ req' \in [Requests -> Request] /\ req'[q] = [req[q] EXCEPT !.pc = "getuser"]
          /\ \A p \in Requests \ {q} : req'[p] = req[p]
      BY <1>0, <2>1, GotoStep
    <2> QED BY <1>0, <2>2 DEF Request
  <1>8. /\ Minted' = Minted \cup {n} /\ n \notin DOMAIN tokens /\ family[h] \in Minted
        /\ \A x \in Minted : family'[x] = family[x]
        /\ family'[n] = family[h]
    BY <1>0, <1>1, NoValueAssumption DEF IInv, TypeOK, FamilyInv, Minted
  <1>9. TypeOK'
    BY <1>0, <1>1, <1>6, <1>7, <1>8 DEF IInv, TypeOK, Minted
  <1>10. PendingInv' /\ AccountInv'
    BY <1>0, <1>1, <1>7, <1>8 DEF IInv, PendingInv, Pending, AccountInv
  <1>11. LockInv'
    BY <1>0, <1>1, <1>3, <1>6, <1>7, <1>8 DEF IInv, LockInv, Unconsumed
  <1>12. FamilyInv' /\ NoOrphanTokens'
    BY <1>0, <1>3, <1>4, <1>6, <1>8 DEF IInv, FamilyInv, NoOrphanTokens
  <1>13. OneTokenPerSession'
    BY <1>1, <1>3, <1>4, <1>6, <1>8 DEF IInv, FamilyInv, OneTokenPerSession, Live, Unconsumed
  <1> QED BY <1>9, <1>10, <1>11, <1>12, <1>13 DEF IInv

\* Loading the user only decides the answer.
LEMMA GetAvailableInv == ASSUME IInv, NEW q \in Requests, GetAvailable(q) PROVE IInv'
  BY ReplyOnly, SetCookiesOnly DEF GetAvailable

\* Taking the snapshot of a DELETE changes no row and no lock.
LEMMA DeleteAllRefreshForUserInv ==
    ASSUME IInv, NEW q \in Requests, DeleteAllRefreshForUser(q) PROVE IInv'
  <1> DEFINE r == [req[q] EXCEPT !.pc = "deleting", !.reply = "clear",
                                 !.rows = AllRefreshTokensForUser(tokens, req[q].user)]
  <1>1. /\ req[q] \in Request /\ req \in [Requests -> Request]
        /\ AllRefreshTokensForUser(tokens, req[q].user) \in SUBSET Hashes
    BY DEF IInv, TypeOK, AllRefreshTokensForUser, UserRows
  <1>2. r \in Request /\ r.pc = "deleting"
    BY <1>1 DEF Request, Locals
  <1>3. Becomes(q, r) /\ UNCHANGED <<users, tokens, now, family>>
    BY DEF DeleteAllRefreshForUser, Becomes
  <1> HIDE DEF r
  <1>4. /\ req' \in [Requests -> Request] /\ req'[q] = r
        /\ \A p \in Requests \ {q} : req'[p] = req[p]
    BY <1>1, <1>2, <1>3, BecomesType
  <1> QED BY <1>2, <1>3, <1>4, SettledStep DEF Active

\* The same for the DELETE of the other sessions.
LEMMA RevokeOtherSessionsInv ==
    ASSUME IInv, NEW q \in Requests, RevokeOtherSessions(q) PROVE IInv'
  <1> DEFINE r == [req[q] EXCEPT !.pc = "deleting", !.reply = "keep",
                      !.rows = OtherRefreshTokensForUser(tokens, req[q].user, req[q].hash)]
  <1>1. /\ req[q] \in Request /\ req \in [Requests -> Request]
        /\ OtherRefreshTokensForUser(tokens, req[q].user, req[q].hash) \in SUBSET Hashes
    BY DEF IInv, TypeOK, OtherRefreshTokensForUser, UserRows
  <1>2. r \in Request /\ r.pc = "deleting"
    BY <1>1 DEF Request, Locals
  <1>3. UNCHANGED <<users, tokens, now, family>>
    BY DEF RevokeOtherSessions
  <1>4. CASE Reply(q, "keep")
    BY <1>3, <1>4, ReplyOnly
  <1>5. CASE Becomes(q, r)
    <2> HIDE DEF r
    <2>1. /\ req' \in [Requests -> Request] /\ req'[q] = r
          /\ \A p \in Requests \ {q} : req'[p] = req[p]
      BY <1>1, <1>2, <1>5, BecomesType
    <2> QED BY <1>2, <1>3, <2>1, SettledStep DEF Active
  <1> QED BY <1>4, <1>5 DEF RevokeOtherSessions, Becomes

\* Rows that disappear while the users stand still leave no orphan.
LEMMA DeleteKeepsOwners ==
    ASSUME NoOrphanTokens, NEW S, tokens' = DeleteRows(tokens, S), UNCHANGED users
    PROVE  NoOrphanTokens' /\ Registered
  BY DEF NoOrphanTokens, DeleteRows, Restrict, Registered

\* The DELETE waits for the locks on its rows, so no locked row disappears.
LEMMA DeleteFinishInv == ASSUME IInv, NEW q \in Requests, DeleteFinish(q) PROVE IInv'
  <1>1. /\ req \in [Requests -> Request] /\ users \in [Users -> {"absent", "active", "deleted", "purged"}]
        /\ req[q].reply \in {"none", "set", "clear", "grace", "keep"} /\ NoOrphanTokens
        /\ req[q].pc # "insert" /\ Reply(q, req[q].reply) /\ UNCHANGED <<users, now, family>>
        /\ tokens' = DeleteRows(tokens, req[q].rows) /\ \A h \in req[q].rows : ~Locked(h)
    BY DEF DeleteFinish, IInv, TypeOK, Request
  <1>2. /\ req' \in [Requests -> Request] /\ req'[q].pc = "done"
        /\ \A p \in Requests \ {q} : req'[p] = req[p]
    BY <1>1, ReplyStep
  <1>3. NoOrphanTokens' /\ Registered
    BY <1>1, DeleteKeepsOwners
  <1> QED BY <1>1, <1>2, <1>3, DeleteStep

\* Revoking one session waits for the lock of its row.
LEMMA RevokeSessionInv == ASSUME IInv, NEW q \in Requests, RevokeSession(q) PROVE IInv'
  <1>0. PICK id \in req[q].rows :
          /\ ~Locked(id)
          /\ tokens' = DeleteRows(tokens, RefreshTokenByID(tokens, req[q].user, id))
          /\ Reply(q, IF id \in UserRows(tokens, req[q].user) /\ id = req[q].hash
                      THEN "clear" ELSE "keep")
    BY DEF RevokeSession
  <1> DEFINE S == RefreshTokenByID(tokens, req[q].user, id)
             a == IF id \in UserRows(tokens, req[q].user) /\ id = req[q].hash
                  THEN "clear" ELSE "keep"
  <1>1. /\ req \in [Requests -> Request] /\ users \in [Users -> {"absent", "active", "deleted", "purged"}]
        /\ NoOrphanTokens /\ req[q].pc # "insert" /\ UNCHANGED <<users, now, family>>
        /\ a \in {"none", "set", "clear", "grace", "keep"}
        /\ \A h \in S : ~Locked(h)
    BY <1>0 DEF RevokeSession, IInv, TypeOK, RefreshTokenByID
  <1>2. tokens' = DeleteRows(tokens, S) /\ Reply(q, a)
    BY <1>0
  <1> HIDE DEF S, a
  <1>3. /\ req' \in [Requests -> Request] /\ req'[q].pc = "done"
        /\ \A p \in Requests \ {q} : req'[p] = req[p]
    BY <1>1, <1>2, ReplyStep
  <1>4. NoOrphanTokens' /\ Registered
    BY <1>1, <1>2, DeleteKeepsOwners
  <1> QED BY <1>1, <1>2, <1>3, <1>4, DeleteStep

\* The cascade removes every row of the purged user, none of them locked.
LEMMA PurgeFinishInv == ASSUME IInv, NEW q \in Requests, PurgeFinish(q) PROVE IInv'
  <1> DEFINE S == UserRows(tokens, req[q].user)
  <1>1. /\ req \in [Requests -> Request]
        /\ users' \in [Users -> {"absent", "active", "deleted", "purged"}]
        /\ req[q].pc # "insert" /\ UNCHANGED <<now, family>> /\ Reply(q, "keep")
        /\ tokens' = DeleteRows(tokens, S) /\ \A h \in S : ~Locked(h)
    BY DEF PurgeFinish, IInv, TypeOK
  <1>2. /\ req' \in [Requests -> Request] /\ req'[q].pc = "done"
        /\ \A p \in Requests \ {q} : req'[p] = req[p]
    BY <1>1, ReplyStep
  <1>3. NoOrphanTokens' /\ Registered
    BY <1>1 DEF PurgeFinish, IInv, TypeOK, NoOrphanTokens, Registered, UserRows, DeleteRows,
                Restrict, Row
  <1> QED BY <1>1, <1>2, <1>3, DeleteStep

\* The cleanup waits for the locks on the rows it removes.
LEMMA CleanupInv == ASSUME IInv, Cleanup PROVE IInv'
  <1> DEFINE S == CleanupRefreshTokens(tokens, now, Retention)
  <1>1. /\ users \in [Users -> {"absent", "active", "deleted", "purged"}]
        /\ req \in [Requests -> Request] /\ NoOrphanTokens
        /\ UNCHANGED <<users, now, req, family>>
        /\ tokens' = DeleteRows(tokens, S) /\ \A h \in S : ~Locked(h)
    BY DEF Cleanup, IInv, TypeOK
  <1> HIDE DEF S
  <1>2. NoOrphanTokens' /\ Registered
    BY <1>1, DeleteKeepsOwners
  <1> QED BY <1>1, <1>2, DeleteStep

\* A logout consumes a row that is not locked, which ends its session.
LEMMA LogoutInv == ASSUME IInv, NEW q \in Requests, Logout(q) PROVE IInv'
  <1> DEFINE h == req[q].hash
  <1>0. /\ Table(tokens) /\ now \in Nat /\ req \in [Requests -> Request] /\ ~Locked(h)
        /\ Reply(q, "clear") /\ UNCHANGED <<users, now, family>>
        /\ tokens' = ConsumeRefreshTokenByHash(tokens, h, now)
    BY DEF Logout, IInv, TypeOK, Table
  <1>1. /\ req' \in [Requests -> Request] /\ req'[q].pc = "done"
        /\ \A p \in Requests \ {q} : req'[p] = req[p]
    BY <1>0, ReplyStep
  <1>2. /\ DOMAIN tokens' \subseteq Hashes /\ tokens' \in [DOMAIN tokens' -> Row(Users)]
        /\ DOMAIN tokens' = DOMAIN tokens
        /\ \A x \in DOMAIN tokens : tokens'[x].user_id = tokens[x].user_id
        /\ \A x \in DOMAIN tokens : x # h \/ tokens[x].is_consumed => tokens'[x] = tokens[x]
    <2> DEFINE C == ConsumeRefreshTokenByHash(tokens, h, now)
    <2>1. /\ DOMAIN C \subseteq Hashes /\ C \in [DOMAIN C -> Row(Users)]
          /\ DOMAIN C = DOMAIN tokens
          /\ \A x \in DOMAIN tokens : C[x].user_id = tokens[x].user_id
          /\ \A x \in DOMAIN tokens : x # h \/ tokens[x].is_consumed => C[x] = tokens[x]
      BY <1>0, ConsumeTable
    <2> HIDE DEF C
    <2> QED BY <1>0, <2>1 DEF C
  <1>3. TypeOK' /\ FamilyInv' /\ NoOrphanTokens'
    BY <1>0, <1>1, <1>2 DEF IInv, TypeOK, FamilyInv, NoOrphanTokens, Minted
  <1>4. PendingInv' /\ AccountInv'
    BY <1>0, <1>1 DEF IInv, PendingInv, Pending, AccountInv, Minted
  <1>5. LockInv'
    BY <1>0, <1>1, <1>2 DEF IInv, LockInv, Locked, Unconsumed, Minted
  <1>6. OneTokenPerSession'
    BY <1>0, <1>2 DEF IInv, OneTokenPerSession, Live
  <1> QED BY <1>3, <1>4, <1>5, <1>6 DEF IInv

\* Listing the sessions changes nothing but the answer.
LEMMA GetSessionsInv == ASSUME IInv, NEW q \in Requests, GetSessions(q) PROVE IInv'
  <1> DEFINE L == GetActiveRefreshTokensForUser(tokens, req[q].user, now)
             r == [Idle EXCEPT !.pc = "done", !.reply = "keep", !.rows = L]
  <1>1. L \in SUBSET Hashes /\ req \in [Requests -> Request]
    BY DEF IInv, TypeOK, GetActiveRefreshTokensForUser, UserRows
  <1>2. r \in Request /\ r.pc = "done"
    BY <1>1 DEF Request, Idle, Locals
  <1>3. Becomes(q, r) /\ UNCHANGED <<users, tokens, now, family>>
    BY DEF GetSessions, Becomes
  <1> HIDE DEF r
  <1>4. /\ req' \in [Requests -> Request] /\ req'[q] = r
        /\ \A p \in Requests \ {q} : req'[p] = req[p]
    BY <1>1, <1>2, <1>3, BecomesType
  <1> QED BY <1>2, <1>3, <1>4, SettledStep DEF Active

\* A step that moves a user between "active" and "deleted" and settles q.
LEMMA StatusStep ==
    ASSUME IInv, NEW q \in Requests, NEW u, NEW s \in {"active", "deleted"},
           users[u] \in {"active", "deleted"}, users' = [users EXCEPT ![u] = s],
           req'[q].pc \notin Active, req' \in [Requests -> Request],
           \A p \in Requests \ {q} : req'[p] = req[p],
           UNCHANGED <<tokens, now, family>>
    PROVE  IInv'
  <1>1. Registered /\ TypeOK' /\ NoOrphanTokens'
    BY DEF IInv, TypeOK, Registered, NoOrphanTokens, Row
  <1> QED BY <1>1, SettledRequest DEF IInv

\* A soft delete keeps the row of the user, so no token is orphaned.
LEMMA UserDeleteInv == ASSUME IInv, NEW q \in Requests, UserDelete(q) PROVE IInv'
  <1>0. req \in [Requests -> Request] /\ req[q] \in Request /\ UNCHANGED <<tokens, now, family>>
    BY DEF UserDelete, IInv, TypeOK
  <1>1. CASE Reply(q, "keep") /\ UNCHANGED users
    BY <1>0, <1>1, ReplyOnly
  <1>2. CASE /\ users[req[q].user] = "active"
             /\ users' = [users EXCEPT ![req[q].user] = "deleted"]
             /\ Goto(q, "softdeleted")
    <2>1. "softdeleted" \in OperationNames \cup Locals
      BY DEF Locals
    <2>2. /\ req' \in [Requests -> Request] /\ req'[q] = [req[q] EXCEPT !.pc = "softdeleted"]
          /\ \A p \in Requests \ {q} : req'[p] = req[p]
      BY <1>0, <1>2, <2>1, GotoStep
    <2>3. req'[q].pc \notin Active
      BY <1>0, <2>2 DEF Request, Active
    <2> QED BY <1>0, <1>2, <2>2, <2>3, StatusStep
  <1> QED BY <1>1, <1>2 DEF UserDelete

\* A restore keeps the row of the user as well.
LEMMA RestoreUserInv == ASSUME IInv, NEW q \in Requests, RestoreUser(q) PROVE IInv'
  <1>0. req \in [Requests -> Request] /\ UNCHANGED <<tokens, now, family>> /\ Reply(q, "keep")
    BY DEF RestoreUser, IInv, TypeOK
  <1>1. CASE UNCHANGED users
    BY <1>0, <1>1, ReplyOnly
  <1>2. CASE /\ users[req[q].user] = "deleted"
             /\ users' = [users EXCEPT ![req[q].user] = "active"]
    <2>1. /\ req' \in [Requests -> Request] /\ req'[q].pc = "done"
          /\ \A p \in Requests \ {q} : req'[p] = req[p]
      BY <1>0, ReplyStep
    <2> QED BY <1>0, <1>2, <2>1, StatusStep DEF Active
  <1> QED BY <1>1, <1>2 DEF RestoreUser

\* A purge that takes the lock of the user has changed no row yet.
LEMMA PurgeUserInv == ASSUME IInv, NEW q \in Requests, PurgeUser(q) PROVE IInv'
  <1>0. /\ req \in [Requests -> Request] /\ req[q] \in Request
        /\ UNCHANGED <<users, tokens, now, family>>
    BY DEF PurgeUser, IInv, TypeOK
  <1>1. CASE Reply(q, "keep")
    BY <1>0, <1>1, ReplyOnly
  <1>2. CASE Goto(q, "purging")
    <2>1. "purging" \in OperationNames \cup Locals
      BY DEF Locals
    <2>2. /\ req' \in [Requests -> Request] /\ req'[q] = [req[q] EXCEPT !.pc = "purging"]
          /\ \A p \in Requests \ {q} : req'[p] = req[p]
      BY <1>0, <1>2, <2>1, GotoStep
    <2>3. req'[q].pc \notin Active
      BY <1>0, <2>2 DEF Request, Active
    <2> QED BY <1>0, <2>2, <2>3, SettledStep
  <1> QED BY <1>1, <1>2 DEF PurgeUser

\* A failed or aborted request leaves no lock and no token behind.
LEMMA FailureInv ==
    ASSUME IInv, NEW q \in Requests, DbError(q) \/ DeadlockVictim(q) PROVE IInv'
  <1>1. /\ Reply(q, ErrorReply(req[q])) /\ UNCHANGED <<users, tokens, now, family>>
        /\ ErrorReply(req[q]) \in {"none", "set", "clear", "grace", "keep"}
    BY DEF DbError, DeadlockVictim, ErrorReply, IInv, TypeOK, Request
  <1> QED BY <1>1, ReplyOnly

\* A slot that becomes free holds nothing.
LEMMA RespondInv == ASSUME IInv, NEW q \in Requests, Respond(q) PROVE IInv'
  <1>1. Idle \in Request /\ Idle.pc = "idle"
    BY DEF Idle, Request, Locals
  <1>2. Becomes(q, Idle) /\ UNCHANGED <<users, tokens, now, family>> /\ req \in [Requests -> Request]
    BY DEF Respond, Becomes, IInv, TypeOK
  <1>3. /\ req' \in [Requests -> Request] /\ req'[q] = Idle
        /\ \A p \in Requests \ {q} : req'[p] = req[p]
    BY <1>1, <1>2, BecomesType
  <1> QED BY <1>1, <1>2, <1>3, SettledStep DEF Active

\* No part of the invariant depends on the clock.
LEMMA TickInv == ASSUME IInv, Tick PROVE IInv'
  BY DEF Tick, IInv, TypeOK, PendingInv, Pending, LockInv, Unconsumed, FamilyInv, Minted,
         AccountInv, OneTokenPerSession, Live, NoOrphanTokens

\* Stuttering steps keep the invariant.
LEMMA StutterInv == ASSUME IInv, UNCHANGED vars PROVE IInv'
  BY DEF vars, IInv, TypeOK, PendingInv, Pending, LockInv, Unconsumed, FamilyInv, Minted,
         AccountInv, OneTokenPerSession, Live, NoOrphanTokens

\* Every step keeps the invariant: one case per action.
LEMMA NextInv == ASSUME IInv, [Next]_vars PROVE IInv'
  <1>1. ASSUME NEW q \in Requests, Handle(q) PROVE IInv'
    BY <1>1, OAuthCallbackInv, IssueSessionTokensInv, RefreshSessionInv, ReplaceConsumeInv,
       ReplaceCommitInv, GetAvailableInv, DeleteAllRefreshForUserInv, RevokeOtherSessionsInv,
       DeleteFinishInv, LogoutInv, GetSessionsInv, RevokeSessionInv, UserDeleteInv,
       RestoreUserInv, PurgeUserInv, PurgeFinishInv DEF Handle
  <1>2. CASE Next
    BY <1>1, <1>2, ArrivalInv, FailureInv, RespondInv, CleanupInv, TickInv DEF Next
  <1> QED BY <1>2, StutterInv

\* The empty store satisfies the invariant.
LEMMA InitInv == ASSUME Init PROVE IInv
  BY NoValueAssumption
     DEF Init, IInv, TypeOK, PendingInv, LockInv, FamilyInv, AccountInv, OneTokenPerSession,
         NoOrphanTokens, Request, Idle, Row, OperationNames, Locals, Pending, Minted,
         Unconsumed, Live

----------------------------------------------------------------------------
(* Theorems.                                                               *)

\* The inductive invariant holds in every reachable state.
THEOREM Invariance == Spec => []IInv
  BY InitInv, NextInv, PTL DEF Spec

\* Every variable keeps its type: in particular every row is owned by a user and
\* every request stays in a state the handlers have.
THEOREM TypeCorrectness == Spec => []TypeOK
  <1>1. IInv => TypeOK
    BY DEF IInv
  <1> QED BY <1>1, Invariance, PTL

\* However many requests race on one cookie, at most one token of a login can be
\* exchanged.
THEOREM Rotation == Spec => []OneTokenPerSession
  <1>1. IInv => OneTokenPerSession
    BY DEF IInv
  <1> QED BY <1>1, Invariance, PTL

\* No login or rotation in flight leaves a token to a purged user.
THEOREM ForeignKey == Spec => []NoOrphanTokens
  <1>1. IInv => NoOrphanTokens
    BY DEF IInv
  <1> QED BY <1>1, Invariance, PTL

----------------------------------------------------------------------------
(* What a step does to the sessions: it opens one, rotates one, or takes   *)
(* tokens away from some.                                                  *)

\* A row that stays keeps its user and its expiry.
SameHolder(h) ==
    tokens'[h].user_id = tokens[h].user_id /\ tokens'[h].expires_at = tokens[h].expires_at

\* Rows disappear or become consumed, and nothing else happens to the table.
Shrinks ==
    /\ family' = family
    /\ \A h \in DOMAIN tokens' :
          /\ h \in DOMAIN tokens /\ SameHolder(h)
          /\ tokens'[h] = tokens[h] \/ (~tokens[h].is_consumed /\ tokens'[h].is_consumed)

\* Token n starts a session.
Opens(n) ==
    /\ n \in Hashes \ Minted
    /\ family' = [family EXCEPT ![n] = n]
    /\ DOMAIN tokens' = DOMAIN tokens \cup {n}
    /\ \A x \in DOMAIN tokens : tokens'[x] = tokens[x]
    /\ ~tokens'[n].is_consumed

\* Token n takes the place of token h.
Rotates(h, n) ==
    /\ n \in Hashes \ Minted
    /\ Unconsumed(tokens, h)
    /\ family' = [family EXCEPT ![n] = family[h]]
    /\ DOMAIN tokens' = DOMAIN tokens \cup {n}
    /\ \A x \in DOMAIN tokens : x # h => tokens'[x] = tokens[x]
    /\ tokens'[h].is_consumed /\ ~tokens'[n].is_consumed
    /\ SameHolder(h) /\ tokens'[n].user_id = tokens[h].user_id

\* A step that changes neither the table nor the families loses no token.
LEMMA StandStill == ASSUME UNCHANGED <<tokens, family>> PROVE Shrinks
  BY DEF Shrinks, SameHolder

\* A DELETE only takes rows away.
LEMMA DeleteShrinks ==
    ASSUME NEW S, tokens' = DeleteRows(tokens, S), UNCHANGED family PROVE Shrinks
  BY DEF Shrinks, SameHolder, DeleteRows, Restrict

\* A logout consumes at most one row and adds none.
LEMMA LogoutShrinks == ASSUME IInv, NEW q \in Requests, Logout(q) PROVE Shrinks
  <1>1. /\ Table(tokens) /\ family' = family
        /\ tokens' = ConsumeRefreshTokenByHash(tokens, req[q].hash, now)
    BY DEF Logout, IInv, TypeOK, Table
  <1> QED BY <1>1 DEF Shrinks, SameHolder, Table, Row, ConsumeRefreshTokenByHash, Unconsumed

\* Issuing the tokens of a login opens one session, or changes nothing.
LEMMA IssueOpens ==
    ASSUME IInv, NEW q \in Requests, IssueSessionTokens(q)
    PROVE  Shrinks \/ Opens(req[q].new)
  <1>1. req[q].new \in Hashes \ Minted /\ req[q].new \notin DOMAIN tokens
    BY DEF IssueSessionTokens, IInv, PendingInv, Pending, FamilyInv
  <1>2. CASE UNCHANGED <<tokens, family>>
    BY <1>2, StandStill
  <1>3. CASE /\ tokens' = CreateRefreshToken(tokens, req[q].new, req[q].user, now + RefreshTTL)
             /\ family' = [family EXCEPT ![req[q].new] = req[q].new]
    BY <1>1, <1>3 DEF Opens, CreateRefreshToken
  <1> QED BY <1>2, <1>3 DEF IssueSessionTokens

\* The commit of a refresh replaces one unconsumed token by a new one.
LEMMA CommitRotates ==
    ASSUME IInv, NEW q \in Requests, ReplaceCommit(q)
    PROVE  Rotates(req[q].hash, req[q].new)
  <1> DEFINE h == req[q].hash
             n == req[q].new
             C == ConsumeRefreshTokenByHash(tokens, h, req[q].at)
  <1>1. n \in Hashes \ Minted /\ n \notin DOMAIN tokens /\ Unconsumed(tokens, h)
    BY DEF ReplaceCommit, IInv, PendingInv, Pending, LockInv, FamilyInv
  <1>2. Table(tokens) /\ req[q].at \in Nat
    BY DEF IInv, TypeOK, Table, Request
  <1>3. /\ DOMAIN C = DOMAIN tokens
        /\ \A x \in DOMAIN tokens : x # h => C[x] = tokens[x]
        /\ C[h].is_consumed
        /\ C[h].user_id = tokens[h].user_id /\ C[h].expires_at = tokens[h].expires_at
    BY <1>1, <1>2, ConsumeTable DEF Unconsumed
  <1>4. /\ tokens' = CreateRefreshToken(C, n, req[q].user, req[q].at + RefreshTTL)
        /\ family' = [family EXCEPT ![n] = family[h]]
        /\ req[q].user = tokens[h].user_id
    BY DEF ReplaceCommit, IInv, LockInv
  <1> HIDE DEF C
  <1> QED BY <1>1, <1>3, <1>4 DEF Rotates, SameHolder, CreateRefreshToken, Unconsumed

\* Every step has one of three effects on the table: it only takes tokens out of
\* circulation, opens one session, or rotates one token.
LEMMA StepEffect ==
    ASSUME IInv, [Next]_vars
    PROVE  Shrinks \/ (\E n \in Hashes : Opens(n)) \/ (\E h, n \in Hashes : Rotates(h, n))
  <1>1. ASSUME NEW q \in Requests, Handle(q)
        PROVE  Shrinks \/ (\E n \in Hashes : Opens(n)) \/ (\E h, n \in Hashes : Rotates(h, n))
    <2>1. CASE IssueSessionTokens(q)
      BY <2>1, IssueOpens DEF Opens
    <2>2. CASE ReplaceCommit(q)
      <3>1. Rotates(req[q].hash, req[q].new)
        BY <2>2, CommitRotates
      <3>2. req[q].hash \in Hashes /\ req[q].new \in Hashes
        BY <3>1 DEF Rotates, Unconsumed, IInv, TypeOK
      <3> QED BY <3>1, <3>2
    <2>3. CASE Logout(q)
      BY <2>3, LogoutShrinks
    <2>4. CASE DeleteFinish(q) \/ RevokeSession(q) \/ PurgeFinish(q)
      BY <2>4, DeleteShrinks DEF DeleteFinish, RevokeSession, PurgeFinish
    <2>5. CASE OAuthCallback(q) \/ RefreshSession(q) \/ ReplaceConsume(q) \/ GetAvailable(q)
               \/ DeleteAllRefreshForUser(q) \/ RevokeOtherSessions(q) \/ GetSessions(q)
               \/ UserDelete(q) \/ RestoreUser(q) \/ PurgeUser(q)
      BY <2>5, StandStill DEF OAuthCallback, RefreshSession, ReplaceConsume, GetAvailable,
         DeleteAllRefreshForUser, RevokeOtherSessions, GetSessions, UserDelete, RestoreUser,
         PurgeUser
    <2> QED BY <1>1, <2>1, <2>2, <2>3, <2>4, <2>5 DEF Handle
  <1>2. ASSUME NEW q \in Requests,
               Arrival(q) \/ DbError(q) \/ DeadlockVictim(q) \/ Respond(q)
        PROVE  Shrinks
    BY <1>2, StandStill DEF Arrival, ArriveCallback, ArriveRefresh, ArriveLogout, ArriveSessions,
       ArriveRevoke, ArriveOthers, ArriveDelete, ArriveAdmin, Arrive, DbError, DeadlockVictim,
       Respond
  <1>3. CASE Cleanup
    BY <1>3, DeleteShrinks DEF Cleanup
  <1>4. CASE Tick \/ UNCHANGED vars
    BY <1>4, StandStill DEF Tick, vars
  <1> QED BY <1>1, <1>2, <1>3, <1>4 DEF Next

\* A session whose last exchangeable token is gone never gets another one, not
\* even from a rotation that had already read the token when it went.
THEOREM NoRevival == Spec => EndedSessionStaysEnded
  <1>1. ASSUME IInv, [Next]_vars, NEW f \in Minted, Live(f) = {}
        PROVE  Live(f)' = {}
    <2>1. CASE Shrinks
      BY <1>1, <2>1 DEF Shrinks, Live
    <2>2. ASSUME NEW n \in Hashes, Opens(n) PROVE Live(f)' = {}
      BY <1>1, <2>2 DEF Opens, Live, Minted, IInv, TypeOK, FamilyInv
    <2>3. ASSUME NEW h \in Hashes, NEW n \in Hashes, Rotates(h, n) PROVE Live(f)' = {}
      BY <1>1, <2>3 DEF Rotates, Live, Unconsumed, Minted, IInv, TypeOK, FamilyInv
    <2> QED BY <1>1, <2>1, <2>2, <2>3, StepEffect
  <1>2. IInv /\ [Next]_vars => [\A f \in Minted : Live(f) = {} => Live(f)' = {}]_vars
    BY <1>1
  <1> QED BY <1>2, Invariance, PTL DEF Spec, EndedSessionStaysEnded

\* A consumed token stays consumed, and its grace period is never restarted.
THEOREM Grace == Spec => GraceRunsOnce
  <1> DEFINE A == \A h \in DOMAIN tokens \cap DOMAIN tokens' :
                     tokens[h].is_consumed =>
                        tokens'[h].is_consumed /\ tokens'[h].updated_at = tokens[h].updated_at
  <1>1. ASSUME IInv, [Next]_vars PROVE A
    <2>1. CASE Shrinks
      BY <2>1 DEF Shrinks
    <2>2. ASSUME NEW n \in Hashes, Opens(n) PROVE A
      BY <2>2 DEF Opens
    <2>3. ASSUME NEW h \in Hashes, NEW n \in Hashes, Rotates(h, n) PROVE A
      BY <2>3 DEF Rotates, Unconsumed
    <2> QED BY <1>1, <2>1, <2>2, <2>3, StepEffect
  <1>2. IInv /\ [Next]_vars => [A]_vars
    BY <1>1
  <1> QED BY <1>2, Invariance, PTL DEF Spec, GraceRunsOnce

----------------------------------------------------------------------------
(* A DELETE of many rows and the rows it found when it started.            *)

\* No row changes hands, and a hash that was minted is not minted again.
LEMMA RowsStay ==
    ASSUME IInv, [Next]_vars
    PROVE  /\ Minted \subseteq Minted'
           /\ \A h \in Minted \cap DOMAIN tokens' :
                 h \in DOMAIN tokens /\ tokens'[h].user_id = tokens[h].user_id
  <1>1. CASE Shrinks
    BY <1>1 DEF Shrinks, SameHolder, Minted
  <1>2. ASSUME NEW n \in Hashes, Opens(n)
        PROVE  /\ Minted \subseteq Minted'
               /\ \A h \in Minted \cap DOMAIN tokens' :
                     h \in DOMAIN tokens /\ tokens'[h].user_id = tokens[h].user_id
    BY <1>2, NoValueAssumption DEF Opens, Minted, IInv, TypeOK
  <1>3. ASSUME NEW h \in Hashes, NEW n \in Hashes, Rotates(h, n)
        PROVE  /\ Minted \subseteq Minted'
               /\ \A x \in Minted \cap DOMAIN tokens' :
                     x \in DOMAIN tokens /\ tokens'[x].user_id = tokens[x].user_id
    BY <1>3, NoValueAssumption DEF Rotates, SameHolder, Unconsumed, Minted, IInv, TypeOK, FamilyInv
  <1> QED BY <1>1, <1>2, <1>3, StepEffect

\* What one request may do in a step, as opposed to the worker and the clock.
Moves(q) == Arrival(q) \/ Handle(q) \/ DbError(q) \/ DeadlockVictim(q) \/ Respond(q)

\* A request that moves leaves the others where they are.
LEMMA OthersStay ==
    ASSUME IInv, NEW q \in Requests, Moves(q)
    PROVE  \A p \in Requests \ {q} : req'[p] = req[p]
  <1> SUFFICES ASSUME NEW p \in Requests, p # q PROVE req'[p] = req[p]
    OBVIOUS
  <1>0. req \in [Requests -> Request]
    BY DEF IInv, TypeOK
  <1>1. CASE Arrival(q)
    BY <1>0, <1>1 DEF Arrival, ArriveCallback, ArriveRefresh, ArriveLogout, ArriveSessions,
       ArriveRevoke, ArriveOthers, ArriveDelete, ArriveAdmin, Arrive
  <1>2. CASE Handle(q)
    BY <1>0, <1>2 DEF Handle, OAuthCallback, IssueSessionTokens, RefreshSession, ReplaceConsume,
       ReplaceCommit, GetAvailable, DeleteAllRefreshForUser, RevokeOtherSessions, DeleteFinish,
       Logout, GetSessions, RevokeSession, UserDelete, RestoreUser, PurgeUser, PurgeFinish,
       Reply, SetCookies, Goto
  <1>3. CASE DbError(q) \/ DeadlockVictim(q) \/ Respond(q)
    BY <1>0, <1>3 DEF DbError, DeadlockVictim, Respond, Reply
  <1> QED BY <1>1, <1>2, <1>3 DEF Moves

\* A request that is deleting either took its snapshot just now, of rows of its
\* user, or has not moved.
LEMMA SnapshotStep ==
    ASSUME IInv, [Next]_vars, NEW p \in Requests, req'[p].pc = "deleting"
    PROVE  \/ req'[p] = req[p]
           \/ /\ req'[p].rows \subseteq UserRows(tokens, req'[p].user)
              /\ UNCHANGED <<tokens, family>>
  <1> DEFINE Fine == \/ req'[p] = req[p]
                     \/ /\ req'[p].rows \subseteq UserRows(tokens, req'[p].user)
                        /\ UNCHANGED <<tokens, family>>
  <1>0. req \in [Requests -> Request] /\ req[p] \in Request
    BY DEF IInv, TypeOK
  <1>1. ASSUME NEW q \in Requests, NEW op \in OperationNames, NEW by, NEW u, NEW c, NEW n, NEW ids,
               Arrive(q, op, by, u, c, n, ids)
        PROVE  Fine
    BY <1>0, <1>1 DEF Arrive, OperationNames
  <1>2. ASSUME NEW q \in Requests, Arrival(q) PROVE Fine
    BY <1>1, <1>2 DEF Arrival, ArriveCallback, ArriveRefresh, ArriveLogout, ArriveSessions,
       ArriveRevoke, ArriveOthers, ArriveDelete, ArriveAdmin, OperationNames
  <1>3. ASSUME NEW q \in Requests, NEW a, Reply(q, a) PROVE Fine
    BY <1>0, <1>3 DEF Reply, Idle
  <1>4. ASSUME NEW q \in Requests, SetCookies(q) \/ Respond(q) \/ GetSessions(q) PROVE Fine
    <2>1. CASE SetCookies(q)
      BY <1>0, <2>1, SetCookiesStep
    <2>2. CASE Respond(q)
      BY <1>0, <2>2 DEF Respond, Idle
    <2>3. CASE GetSessions(q)
      BY <1>0, <2>3 DEF GetSessions, Idle
    <2> QED BY <1>4, <2>1, <2>2, <2>3
  <1>5. ASSUME NEW q \in Requests, NEW l \in Locals \ {"deleting"}, Goto(q, l) PROVE Fine
    BY <1>0, <1>5 DEF Goto, Request
  <1>6. ASSUME NEW q \in Requests,
               DeleteAllRefreshForUser(q) \/ RevokeOtherSessions(q) PROVE Fine
    <2>0. req[q] \in Request /\ UNCHANGED <<tokens, family>>
      BY <1>0, <1>6 DEF DeleteAllRefreshForUser, RevokeOtherSessions, IInv, TypeOK
    <2>1. ASSUME NEW S, NEW a, S \subseteq UserRows(tokens, req[q].user),
                 req' = [req EXCEPT ![q] = [@ EXCEPT !.pc = "deleting", !.reply = a, !.rows = S]]
          PROVE  Fine
      <3>1. CASE p = q
        <4>1. req'[p] = [req[q] EXCEPT !.pc = "deleting", !.reply = a, !.rows = S]
          BY <1>0, <2>1, <3>1
        <4>2. req'[p].rows = S /\ req'[p].user = req[q].user
          BY <2>0, <4>1 DEF Request
        <4> QED BY <2>0, <2>1, <4>2
      <3>2. CASE p # q
        BY <1>0, <2>1, <3>2
      <3> QED BY <3>1, <3>2
    <2>2. CASE DeleteAllRefreshForUser(q)
      <3> DEFINE S == UserRows(tokens, req[q].user)
      <3>1. req' = [req EXCEPT ![q] = [@ EXCEPT !.pc = "deleting", !.reply = "clear", !.rows = S]]
        BY <2>2 DEF DeleteAllRefreshForUser, AllRefreshTokensForUser
      <3> HIDE DEF S
      <3>2. S \subseteq UserRows(tokens, req[q].user)
        BY DEF S
      <3> QED BY <2>1, <3>1, <3>2
    <2>3. CASE RevokeOtherSessions(q)
      <3> DEFINE S == UserRows(tokens, req[q].user) \ {req[q].hash}
      <3>1. \/ Reply(q, "keep")
            \/ req' = [req EXCEPT ![q] = [@ EXCEPT !.pc = "deleting", !.reply = "keep", !.rows = S]]
        BY <2>3 DEF RevokeOtherSessions, OtherRefreshTokensForUser
      <3>2. S \subseteq UserRows(tokens, req[q].user)
        OBVIOUS
      <3> HIDE DEF S
      <3> QED BY <1>3, <2>1, <3>1, <3>2
    <2> QED BY <1>6, <2>2, <2>3
  <1>7. ASSUME NEW q \in Requests, RefreshSession(q) \/ ReplaceConsume(q) PROVE Fine
    <2>1. ASSUME NEW new, new.pc # "deleting", req' = [req EXCEPT ![q] = new] PROVE Fine
      BY <1>0, <2>1
    <2>2. CASE RefreshSession(q)
      <3>1. CASE \E a : Reply(q, a)
        BY <1>3, <3>1
      <3>2. CASE \E new : new.pc # "deleting" /\ req' = [req EXCEPT ![q] = new]
        BY <2>1, <3>2
      <3>3. req[q] \in Request
        BY <1>0
      <3>4. \A u, t : /\ [req[q] EXCEPT !.pc = "reuse", !.user = u, !.new = NoHash].pc = "reuse"
                      /\ [req[q] EXCEPT !.pc = "replace", !.user = u, !.at = t].pc = "replace"
        BY <3>3 DEF Request
      <3> QED BY <2>2, <3>1, <3>2, <3>4 DEF RefreshSession
    <2>3. CASE ReplaceConsume(q)
      <3>1. req[q] \in Request
        BY <1>0
      <3>2. \A t : /\ [req[q] EXCEPT !.pc = "insert", !.at = t].pc = "insert"
                   /\ [req[q] EXCEPT !.pc = "reuse", !.new = NoHash].pc = "reuse"
        BY <3>1 DEF Request
      <3> QED BY <2>1, <2>3, <3>2 DEF ReplaceConsume
    <2> QED BY <1>7, <2>2, <2>3
  <1>8. ASSUME NEW q \in Requests, OAuthCallback(q) \/ IssueSessionTokens(q) \/ ReplaceCommit(q)
               \/ GetAvailable(q) \/ UserDelete(q) \/ PurgeUser(q)
        PROVE  Fine
    BY <1>0, <1>3, <1>4, <1>5, <1>8 DEF OAuthCallback, IssueSessionTokens, ReplaceCommit,
       GetAvailable, UserDelete, PurgeUser, Request, Locals
  <1>9. ASSUME NEW q \in Requests, DeleteFinish(q) \/ Logout(q) \/ RevokeSession(q)
               \/ RestoreUser(q) \/ PurgeFinish(q) \/ DbError(q) \/ DeadlockVictim(q)
        PROVE  Fine
    BY <1>3, <1>9 DEF DeleteFinish, Logout, RevokeSession, RestoreUser, PurgeFinish, DbError,
       DeadlockVictim
  <1>10. CASE Cleanup \/ Tick \/ UNCHANGED vars
    BY <1>10 DEF Cleanup, Tick, vars
  <1> QED BY <1>2, <1>4, <1>6, <1>7, <1>8, <1>9, <1>10 DEF Next, Handle

\* The rows a DELETE found stay rows of its user as long as they exist.
THEOREM Snapshots == Spec => []SnapshotInv
  <1>1. Init => SnapshotInv
    BY DEF Init, SnapshotInv, Idle
  <1>2. IInv /\ SnapshotInv /\ [Next]_vars => SnapshotInv'
    <2> SUFFICES ASSUME IInv, SnapshotInv, [Next]_vars, NEW q \in Requests,
                        req'[q].pc = "deleting", NEW h \in req'[q].rows
                 PROVE  /\ h \in Minted'
                        /\ h \in DOMAIN tokens' => tokens'[h].user_id = req'[q].user
      BY DEF SnapshotInv
    <2>1. CASE req'[q] = req[q]
      BY <2>1, RowsStay DEF SnapshotInv
    <2>2. CASE req'[q].rows \subseteq UserRows(tokens, req'[q].user) /\ UNCHANGED <<tokens, family>>
      BY <2>2 DEF UserRows, IInv, FamilyInv, Minted
    <2> QED BY <2>1, <2>2, SnapshotStep
  <1> QED BY <1>1, <1>2, Invariance, PTL DEF Spec

\* Whatever ids a client names and however old the snapshot of a DELETE is, no
\* token of another user goes.
THEOREM ForeignSessions == Spec => ForeignSessionsUntouched
  <1> DEFINE A == \A q \in Requests :
                     req[q].pc \in {"revoke", "deleting"} /\ req'[q].pc = "done" =>
                        \A h \in DOMAIN tokens :
                           tokens[h].user_id # req[q].user => h \in DOMAIN tokens'
  <1>1. ASSUME IInv, SnapshotInv, [Next]_vars PROVE A
    <2> SUFFICES ASSUME NEW q \in Requests, req[q].pc \in {"revoke", "deleting"},
                        req'[q].pc = "done", NEW h \in DOMAIN tokens,
                        tokens[h].user_id # req[q].user
                 PROVE  h \in DOMAIN tokens'
      OBVIOUS
    <2>1. CASE DeleteFinish(q)
      BY <1>1, <2>1 DEF DeleteFinish, SnapshotInv, DeleteRows, Restrict
    <2>2. CASE RevokeSession(q)
      BY <2>2 DEF RevokeSession, RefreshTokenByID, UserRows, DeleteRows, Restrict
    <2>3. CASE DbError(q) \/ DeadlockVictim(q)
      BY <2>3 DEF DbError, DeadlockVictim
    <2>4. PICK p \in Requests : Moves(p)
      BY <1>1 DEF Next, Moves, Cleanup, Tick, vars
    <2>5. p = q
      BY <1>1, <2>4, OthersStay
    <2>6. DeleteFinish(q) \/ RevokeSession(q) \/ DbError(q) \/ DeadlockVictim(q)
      BY <2>4, <2>5 DEF Moves, Arrival, ArriveCallback, ArriveRefresh, ArriveLogout,
         ArriveSessions, ArriveRevoke, ArriveOthers, ArriveDelete, ArriveAdmin, Arrive, Handle,
         OAuthCallback, IssueSessionTokens, RefreshSession, ReplaceConsume, ReplaceCommit,
         GetAvailable, DeleteAllRefreshForUser, RevokeOtherSessions, Logout, GetSessions,
         UserDelete, RestoreUser, PurgeUser, PurgeFinish, Respond
    <2> QED BY <2>1, <2>2, <2>3, <2>6
  <1>2. IInv /\ SnapshotInv /\ [Next]_vars => [A]_vars
    BY <1>1
  <1> QED BY <1>2, Invariance, Snapshots, PTL DEF Spec, ForeignSessionsUntouched

----------------------------------------------------------------------------
(* Refinement.                                                             *)

\* The tokens a session has after a step, for each of the three effects.
LEMMA ShrinksCloses ==
    ASSUME IInv, Shrinks
    PROVE  \E F \in SUBSET Hashes : Lifecycle!Close(F)
  <1> DEFINE F == {f \in Hashes : Live(f)' = {}}
  <1>1. \A f \in Hashes : Live(f)' \subseteq Live(f)
    BY DEF Shrinks, Live
  <1>2. \A f \in Hashes : Live(f)' = {} \/ Live(f)' = Live(f)
    BY <1>1 DEF IInv, OneTokenPerSession
  <1>3. Minted' = Minted
    BY DEF Shrinks, Minted
  <1>4. [f \in Hashes |-> Live(f)]' = [f \in Hashes |-> IF f \in F THEN {} ELSE Live(f)]
    BY <1>2
  <1>5. Lifecycle!Close(F)
    BY <1>3, <1>4 DEF Lifecycle!Close
  <1> QED BY <1>5

\* Opening a session in the table is opening it in the abstract life.
LEMMA OpensOpens ==
    ASSUME IInv, NEW n \in Hashes, Opens(n) PROVE Lifecycle!Open(n)
  <1>1. n \notin Minted /\ Minted' = Minted \cup {n}
    BY NoValueAssumption DEF Opens, Minted, IInv, TypeOK
  <1>2. \A x \in DOMAIN tokens : x # n /\ family'[x] = family[x] /\ family[x] # n
    BY DEF Opens, Minted, IInv, TypeOK, FamilyInv
  <1>3. \A f \in Hashes : Live(f)' = IF f = n THEN {n} ELSE Live(f)
    BY <1>2 DEF Opens, Live, IInv, TypeOK
  <1>4. [f \in Hashes |-> Live(f)]' = [[f \in Hashes |-> Live(f)] EXCEPT ![n] = {n}]
    BY <1>3
  <1> QED BY <1>1, <1>4 DEF Lifecycle!Open

\* Rotating a token in the table is rotating it in the abstract life.
LEMMA RotatesRotates ==
    ASSUME IInv, NEW h \in Hashes, NEW n \in Hashes, Rotates(h, n)
    PROVE  family[h] \in Hashes /\ Lifecycle!Rotate(family[h], n)
  <1>1. n \notin Minted /\ Minted' = Minted \cup {n} /\ family[h] \in Hashes
    BY NoValueAssumption DEF Rotates, Minted, Unconsumed, IInv, TypeOK, FamilyInv
  <1>2. \A x \in DOMAIN tokens : x # n /\ family'[x] = family[x]
    BY DEF Rotates, Minted, IInv, TypeOK, FamilyInv
  <1>3. h \in Live(family[h]) /\ \A x \in Live(family[h]) : x = h
    BY <1>1 DEF Rotates, Unconsumed, Live, IInv, OneTokenPerSession
  <1>4. \A f \in Hashes : Live(f)' = IF f = family[h] THEN {n} ELSE Live(f)
    BY <1>2, <1>3 DEF Rotates, Unconsumed, Live, IInv, TypeOK
  <1>5. [f \in Hashes |-> Live(f)]' = [[f \in Hashes |-> Live(f)] EXCEPT ![family[h]] = {n}]
    BY <1>1, <1>4
  <1> QED BY <1>1, <1>3, <1>5 DEF Lifecycle!Rotate

\* The session store, with all its requests, locks and failures, implements the
\* three-action life of a session.
THEOREM Refinement == Spec => ImplementsLifecycle
  <1>1. Init => Lifecycle!LInit
    BY DEF Init, Lifecycle!LInit, Live, Minted
  <1>2. IInv /\ [Next]_vars => [Lifecycle!LNext]_(Lifecycle!lvars)
    <2> SUFFICES ASSUME IInv, [Next]_vars PROVE Lifecycle!LNext
      OBVIOUS
    <2>1. CASE Shrinks
      BY <2>1, ShrinksCloses DEF Lifecycle!LNext
    <2>2. ASSUME NEW n \in Hashes, Opens(n) PROVE Lifecycle!LNext
      BY <2>2, OpensOpens DEF Lifecycle!LNext
    <2>3. ASSUME NEW h \in Hashes, NEW n \in Hashes, Rotates(h, n) PROVE Lifecycle!LNext
      BY <2>3, RotatesRotates DEF Lifecycle!LNext
    <2> QED BY <2>1, <2>2, <2>3, StepEffect
  <1> QED BY <1>1, <1>2, Invariance, PTL DEF Spec, ImplementsLifecycle, Lifecycle!LSpec

=============================================================================
