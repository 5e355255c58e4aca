----------------------- MODULE SessionClients_proofs -----------------------
(***************************************************************************)
(* Proofs about SessionClients, for every set of browsers and users and    *)
(* however many requests a browser may have under way.  What Sessions      *)
(* guarantees carries over, because the composition only restricts who     *)
(* sends what.                                                             *)
(***************************************************************************)
EXTENDS SessionClients, Sessions_proofs

----------------------------------------------------------------------------
(* The composition implements Sessions.                                    *)

\* What a browser sends is a request that Sessions accepts.
LEMMA SendArrives == ASSUME CTypeOK, NEW b \in Browsers, NEW q \in Requests, Send(b, q) PROVE Arrival(q)
  <1>1. Account[b] \in Users /\ jar[b] \in Hashes \cup {NoHash}
    BY AccountAssumption DEF CTypeOK
  <1> QED BY <1>1 DEF Send, Arrival

\* What browsers and network do is a step of the session store or leaves it alone.
LEMMA StepOfSessions == ASSUME CTypeOK, [CNext]_cvars PROVE [Next]_vars
  <1>1. ASSUME NEW b \in Browsers, NEW q \in Requests, Send(b, q) PROVE Next
    BY <1>1, SendArrives DEF Next
  <1>2. ASSUME NEW q \in Requests, Deliver(q) \/ Lose(q) \/ Fail(q) PROVE Next
    BY <1>2 DEF Deliver, Lose, Fail, Next
  <1>3. CASE Server
    BY <1>3 DEF Server, Next
  <1>4. CASE UNCHANGED cvars
    BY <1>4 DEF cvars
  <1> QED BY <1>1, <1>2, <1>3, <1>4 DEF CNext

----------------------------------------------------------------------------
(* The steps of one request, by what they do to its fields and the table.  *)

Goes(q, from, to) == req[q].pc = from /\ req'[q].pc = to

KeepsTokens(q) == req'[q].hash = req[q].hash /\ req'[q].new = req[q].new

Answers(q, reply) ==
    /\ req'[q].pc = "done" /\ req'[q].reply = reply
    /\ req'[q].hash = NoHash /\ req'[q].new = NoHash

AnswersToken(q) ==
    /\ req'[q].pc = "done" /\ req'[q].reply = "set"
    /\ req'[q].hash = NoHash /\ req'[q].new = req[q].new

\* The reply of a handler ends its request.
LEMMA ReplyAnswers ==
    ASSUME TypeOK, NEW q \in Requests, NEW a, Reply(q, a) PROVE Answers(q, a)
  BY DEF TypeOK, Reply, Answers, Idle

\* The reply with new cookies ends its request with the token it stored.
LEMMA SetCookiesAnswers ==
    ASSUME TypeOK, NEW q \in Requests, SetCookies(q) PROVE AnswersToken(q)
  BY DEF TypeOK, SetCookies, AnswersToken, Idle

\* A request that goes on keeps its cookie and its token.
LEMMA GotoGoes ==
    ASSUME TypeOK, NEW q \in Requests, NEW pc, Goto(q, pc)
    PROVE  /\ Goes(q, req[q].pc, pc) /\ KeepsTokens(q)
           /\ req'[q].user = req[q].user /\ req'[q].reply = req[q].reply
  BY DEF TypeOK, Goto, Goes, KeepsTokens, Request

\* A step of a request that leaves the table alone.
Proceeds(q) ==
    /\ UNCHANGED <<tokens, family>>
    /\ \/ Goes(q, "callback", "issue") /\ KeepsTokens(q)
       \/ req[q].pc = "refresh" /\ Answers(q, "clear") /\ Spent(req[q].hash)
       \/ req[q].pc = "refresh" /\ Answers(q, "grace") /\ ~NotConsumed(req[q].hash)
       \/ /\ Goes(q, "refresh", "reuse") /\ ~NotConsumed(req[q].hash)
          /\ req'[q].hash = req[q].hash /\ req'[q].new = NoHash
       \/ Goes(q, "refresh", "replace") /\ KeepsTokens(q)
       \/ Goes(q, "replace", "insert") /\ KeepsTokens(q)
       \/ /\ Goes(q, "replace", "reuse") /\ ~Unconsumed(tokens, req[q].hash)
          /\ req'[q].hash = req[q].hash /\ req'[q].new = NoHash
       \/ req[q].pc = "getuser" /\ AnswersToken(q)
       \/ Goes(q, "reuse", "deleting") /\ KeepsTokens(q) /\ req'[q].reply = "clear"
       \/ req[q].pc = "others" /\ Answers(q, "keep")
       \/ Goes(q, "others", "deleting") /\ KeepsTokens(q) /\ req'[q].reply = "keep"

\* A step that writes to the table: it opens a session, rotates a token, deletes
\* rows or consumes a token.
Writes(q) ==
    \/ req[q].pc = "issue" /\ AnswersToken(q) /\ Opens(req[q].new)
    \/ /\ Goes(q, "insert", "getuser") /\ KeepsTokens(q) /\ Rotates(req[q].hash, req[q].new)
       /\ req'[q].user \in Users /\ users'[req'[q].user] = "active"
    \/ /\ req[q].pc = "deleting" /\ Answers(q, req[q].reply) /\ family' = family
       /\ \E S : tokens' = DeleteRows(tokens, S)
    \/ /\ req[q].pc = "logout" /\ Answers(q, "clear") /\ family' = family
       /\ tokens' = ConsumeRefreshTokenByHash(tokens, req[q].hash, now)

\* Nobody's account is deleted.
Undeleted ==
    /\ \A u \in Users : users'[u] \in {"absent", "active"}
    /\ \A u \in Users : users[u] = "active" => users'[u] = "active"

\* The callback may create its user, and stores no token yet.
LEMMA CallbackStep ==
    ASSUME IInv, ServedInv, NEW q \in Requests, OAuthCallback(q)
    PROVE  Proceeds(q) /\ Undeleted /\ now' = now
  <1>1. /\ req[q].user \in Users /\ users[req[q].user] \in {"absent", "active"}
        /\ req[q].pc = "callback" /\ users \in [Users -> {"absent", "active", "deleted", "purged"}]
        /\ UNCHANGED <<tokens, now, family>>
    BY DEF OAuthCallback, IInv, AccountInv, ServedInv, TypeOK
  <1>2. users' = [users EXCEPT ![req[q].user] = "active"] /\ Goto(q, "issue")
    BY <1>1 DEF OAuthCallback
  <1>3. Goes(q, "callback", "issue") /\ KeepsTokens(q)
    BY <1>1, <1>2, GotoGoes DEF IInv
  <1>4. Undeleted
    BY <1>1, <1>2 DEF Undeleted, ServedInv
  <1> QED BY <1>1, <1>3, <1>4 DEF Proceeds

\* The callback stores the one token of its answer.
LEMMA IssueStep ==
    ASSUME IInv, ServedInv, NEW q \in Requests, IssueSessionTokens(q)
    PROVE  Writes(q) /\ Undeleted /\ now' = now
  <1> DEFINE n == req[q].new
  <1>1. /\ req[q].user \in Users /\ users[req[q].user] # "purged"
        /\ req[q].pc = "issue" /\ UNCHANGED <<users, now>>
    BY DEF IssueSessionTokens, IInv, AccountInv, ServedInv
  <1>2. /\ tokens' = CreateRefreshToken(tokens, n, req[q].user, now + RefreshTTL)
        /\ family' = [family EXCEPT ![n] = n] /\ SetCookies(q)
    BY <1>1 DEF IssueSessionTokens
  <1>3. n \in Hashes \ Minted /\ n \notin DOMAIN tokens
    BY <1>1 DEF IInv, PendingInv, Pending, FamilyInv
  <1>4. Opens(n)
    BY <1>2, <1>3 DEF Opens, CreateRefreshToken
  <1>5. AnswersToken(q)
    BY <1>2, SetCookiesAnswers DEF IInv
  <1> QED BY <1>1, <1>4, <1>5 DEF Writes, Undeleted, ServedInv

\* A refresh reads; what it found decides where it goes on, the table stays.
LEMMA RefreshStep ==
    ASSUME IInv, ServedInv, NEW q \in Requests, RefreshSession(q)
    PROVE  Proceeds(q) /\ Undeleted /\ now' = now
  <1> DEFINE h == req[q].hash
  <1>1. /\ req[q].pc = "refresh" /\ req[q] \in Request /\ req \in [Requests -> Request]
        /\ UNCHANGED <<users, tokens, now, family>> /\ TypeOK
    BY DEF RefreshSession, IInv, TypeOK
  <1> SUFFICES Proceeds(q)
    BY <1>1 DEF Undeleted, ServedInv
  <1>2. CASE h \notin DOMAIN tokens /\ Reply(q, "clear")
    <2>1. Answers(q, "clear")
      BY <1>1, <1>2, ReplyAnswers
    <2>2. Spent(h)
      BY <1>2 DEF Spent, Unconsumed
    <2> QED BY <1>1, <2>1, <2>2 DEF Proceeds
  <1>3. CASE h \in DOMAIN tokens /\ Expired(tokens[h], now) /\ Reply(q, "clear")
    <2>1. Answers(q, "clear")
      BY <1>1, <1>3, ReplyAnswers
    <2>2. Spent(h)
      BY <1>3 DEF Spent
    <2> QED BY <1>1, <2>1, <2>2 DEF Proceeds
  <1>4. CASE h \in DOMAIN tokens /\ tokens[h].is_consumed /\ Reply(q, "grace")
    <2>1. Answers(q, "grace")
      BY <1>1, <1>4, ReplyAnswers
    <2>2. ~NotConsumed(h)
      BY <1>4 DEF NotConsumed
    <2> QED BY <1>1, <2>1, <2>2 DEF Proceeds
  <1>5. CASE /\ h \in DOMAIN tokens /\ tokens[h].is_consumed
             /\ req' = [req EXCEPT ![q] =
                   [@ EXCEPT !.pc = "reuse", !.user = tokens[h].user_id, !.new = NoHash]]
    <2>1. req'[q] = [req[q] EXCEPT !.pc = "reuse", !.user = tokens[h].user_id, !.new = NoHash]
      BY <1>1, <1>5
    <2>2. Goes(q, "refresh", "reuse") /\ req'[q].hash = h /\ req'[q].new = NoHash
      BY <1>1, <2>1 DEF Request, Goes
    <2>3. ~NotConsumed(h)
      BY <1>5 DEF NotConsumed
    <2> QED BY <1>1, <2>2, <2>3 DEF Proceeds
  <1>6. CASE req' = [req EXCEPT ![q] =
                   [@ EXCEPT !.pc = "replace", !.user = tokens[h].user_id, !.at = now]]
    <2>1. req'[q] = [req[q] EXCEPT !.pc = "replace", !.user = tokens[h].user_id, !.at = now]
      BY <1>1, <1>6
    <2>2. Goes(q, "refresh", "replace") /\ KeepsTokens(q)
      BY <1>1, <2>1 DEF Request, Goes, KeepsTokens
    <2> QED BY <1>1, <2>2 DEF Proceeds
  <1> QED BY <1>2, <1>3, <1>4, <1>5, <1>6 DEF RefreshSession

\* Begin and update: the row is locked and shows nothing yet.
LEMMA ReplaceStep ==
    ASSUME IInv, ServedInv, NEW q \in Requests, ReplaceConsume(q)
    PROVE  Proceeds(q) /\ Undeleted /\ now' = now
  <1>1. /\ req[q].pc = "replace" /\ req[q] \in Request /\ req \in [Requests -> Request]
        /\ UNCHANGED <<users, tokens, now, family>>
    BY DEF ReplaceConsume, IInv, TypeOK
  <1> SUFFICES Proceeds(q)
    BY <1>1 DEF Undeleted, ServedInv
  <1>2. ASSUME NEW t, req' = [req EXCEPT ![q] = [@ EXCEPT !.pc = "insert", !.at = t]]
        PROVE  Proceeds(q)
    <2>1. req'[q] = [req[q] EXCEPT !.pc = "insert", !.at = t]
      BY <1>1, <1>2
    <2>2. Goes(q, "replace", "insert") /\ KeepsTokens(q)
      BY <1>1, <2>1 DEF Request, Goes, KeepsTokens
    <2> QED BY <1>1, <2>2 DEF Proceeds
  <1>3. CASE /\ ~Unconsumed(tokens, req[q].hash)
             /\ req' = [req EXCEPT ![q] = [@ EXCEPT !.pc = "reuse", !.new = NoHash]]
    <2>1. req'[q] = [req[q] EXCEPT !.pc = "reuse", !.new = NoHash]
      BY <1>1, <1>3
    <2>2. Goes(q, "replace", "reuse") /\ req'[q].hash = req[q].hash /\ req'[q].new = NoHash
      BY <1>1, <2>1 DEF Request, Goes
    <2> QED BY <1>1, <1>3, <2>2 DEF Proceeds
  <1> QED BY <1>2, <1>3 DEF ReplaceConsume

\* The commit consumes the cookie and stores its successor in one step.
LEMMA CommitStep ==
    ASSUME IInv, ServedInv, NEW q \in Requests, ReplaceCommit(q)
    PROVE  Writes(q) /\ Undeleted /\ now' = now
  <1>1. Rotates(req[q].hash, req[q].new) /\ req[q].pc = "insert" /\ UNCHANGED <<users, now>>
    BY CommitRotates DEF ReplaceCommit
  <1>2. Goes(q, "insert", "getuser") /\ KeepsTokens(q) /\ req'[q].user = req[q].user
    BY <1>1, GotoGoes DEF ReplaceCommit, IInv
  <1>3. req[q].user \in Users /\ users[req[q].user] = "active"
    <2> DEFINE h == req[q].hash
    <2>1. h \in DOMAIN tokens /\ req[q].user = tokens[h].user_id
      BY <1>1 DEF IInv, LockInv, Unconsumed
    <2>2. tokens[h].user_id \in Users /\ users[tokens[h].user_id] \in {"active", "deleted"}
      BY <2>1 DEF IInv, TypeOK, Row, NoOrphanTokens
    <2> QED BY <2>1, <2>2 DEF ServedInv
  <1> QED BY <1>1, <1>2, <1>3 DEF Writes, Undeleted, ServedInv

\* Loading the user decides between cookies and an error, and writes nothing.
LEMMA GetAvailableStep ==
    ASSUME IInv, ServedInv, NEW q \in Requests, GetAvailable(q)
    PROVE  Proceeds(q) /\ Undeleted /\ now' = now
  <1>1. /\ req[q].pc = "getuser" /\ users[req[q].user] = "active"
        /\ UNCHANGED <<users, tokens, now, family>>
    BY DEF GetAvailable, ServedInv
  <1>2. AnswersToken(q)
    BY <1>1, SetCookiesAnswers DEF GetAvailable, IInv
  <1> QED BY <1>1, <1>2 DEF Proceeds, Undeleted, ServedInv

\* The snapshot of a DELETE changes no row.
LEMMA SnapshotTaken ==
    ASSUME IInv, ServedInv, NEW q \in Requests, DeleteAllRefreshForUser(q) \/ RevokeOtherSessions(q)
    PROVE  Proceeds(q) /\ Undeleted /\ now' = now
  <1>1. /\ req[q] \in Request /\ req \in [Requests -> Request] /\ TypeOK
        /\ UNCHANGED <<users, tokens, now, family>>
    BY DEF DeleteAllRefreshForUser, RevokeOtherSessions, IInv, TypeOK
  <1>2. ASSUME NEW S, NEW a,
               req' = [req EXCEPT ![q] = [@ EXCEPT !.pc = "deleting", !.reply = a, !.rows = S]]
        PROVE  Goes(q, req[q].pc, "deleting") /\ KeepsTokens(q) /\ req'[q].reply = a
    <2>1. req'[q] = [req[q] EXCEPT !.pc = "deleting", !.reply = a, !.rows = S]
      BY <1>1, <1>2
    <2> QED BY <1>1, <2>1 DEF Goes, KeepsTokens, Request
  <1>3. CASE DeleteAllRefreshForUser(q)
    <2>1. req[q].pc = "reuse"
      BY <1>3 DEF DeleteAllRefreshForUser, ServedInv
    <2>2. Goes(q, "reuse", "deleting") /\ KeepsTokens(q) /\ req'[q].reply = "clear"
      BY <1>2, <1>3, <2>1 DEF DeleteAllRefreshForUser
    <2> QED BY <1>1, <2>2 DEF Proceeds, Undeleted, ServedInv
  <1>4. CASE RevokeOtherSessions(q)
    <2>1. req[q].pc = "others"
      BY <1>4 DEF RevokeOtherSessions
    <2>2. \/ Answers(q, "keep")
          \/ Goes(q, "others", "deleting") /\ KeepsTokens(q) /\ req'[q].reply = "keep"
      BY <1>1, <1>2, <1>4, <2>1, ReplyAnswers DEF RevokeOtherSessions
    <2> QED BY <1>1, <2>1, <2>2 DEF Proceeds, Undeleted, ServedInv
  <1> QED BY <1>3, <1>4

\* A DELETE that finishes removes rows, a logout consumes its own; both answer.
LEMMA EndStep ==
    ASSUME IInv, ServedInv, NEW q \in Requests, DeleteFinish(q) \/ Logout(q)
    PROVE  Writes(q) /\ Undeleted /\ now' = now
  <1>1. UNCHANGED <<users, now, family>>
    BY DEF DeleteFinish, Logout
  <1>2. Writes(q)
    BY <1>1, ReplyAnswers DEF DeleteFinish, Logout, Writes, IInv
  <1> QED BY <1>1, <1>2 DEF Undeleted, ServedInv

\* The handlers of a browser's requests make these steps and no others.
LEMMA HandleStep ==
    ASSUME IInv, ServedInv, NEW q \in Requests, Handle(q)
    PROVE  (Proceeds(q) \/ Writes(q)) /\ Undeleted /\ now' = now
  <1>1. ~(GetSessions(q) \/ RevokeSession(q) \/ UserDelete(q) \/ RestoreUser(q)
          \/ PurgeUser(q) \/ PurgeFinish(q))
    BY DEF ServedInv, GetSessions, RevokeSession, UserDelete, RestoreUser, PurgeUser, PurgeFinish
  <1> QED BY <1>1, CallbackStep, IssueStep, RefreshStep, ReplaceStep, CommitStep, GetAvailableStep,
             SnapshotTaken, EndStep DEF Handle

\* A failed statement answers, and sets no cookie.
LEMMA FailStep ==
    ASSUME IInv, ServedInv, NEW q \in Requests, DbError(q)
    PROVE  /\ \E a \in {"clear", "keep"} : Answers(q, a)
           /\ UNCHANGED <<users, tokens, now, family>> /\ req[q].pc \notin {"idle", "done"}
  <1>1. ErrorReply(req[q]) \in {"clear", "keep"}
    BY DEF ErrorReply, ServedInv
  <1> QED BY <1>1, ReplyAnswers DEF DbError, IInv

----------------------------------------------------------------------------
(* The steps of the composition, one shape each.                           *)

Still == UNCHANGED <<users, tokens, now, family>>

Alone(q) == \A p \in Requests \ {q} : req'[p] = req[p]

\* Browser b sends q with its cookie; a login is sent without one.
Sends(b, q) ==
    /\ Still /\ Alone(q) /\ req[q].pc = "idle"
    /\ \/ req'[q].pc = "callback" /\ req'[q].hash = NoHash /\ jar[b] = NoHash
       \/ req'[q].pc \in {"refresh", "logout", "others"} /\ req'[q].hash = jar[b]
    /\ \/ req'[q].pc \in {"callback", "refresh"} /\ req'[q].new \in Fresh
       \/ req'[q].new = NoHash
    /\ jar' = jar /\ origin' = [origin EXCEPT ![q] = b]
    /\ trouble' = IF InFlight(b) = {} THEN trouble ELSE trouble \cup {b}

\* The answer of q leaves the server.
Leaves(q) == Still /\ Alone(q) /\ req[q].pc = "done" /\ req'[q] = Idle

\* A handler runs.
Works(q) ==
    /\ Proceeds(q) \/ Writes(q)
    /\ Alone(q) /\ Undeleted /\ now' = now /\ UNCHANGED <<jar, origin, trouble>>

\* No request moves; rows may be cleaned up and time may pass.
Rests ==
    /\ UNCHANGED <<users, req, family, jar, origin, trouble>>
    /\ \E S : tokens' = DeleteRows(tokens, S)
    /\ now' \in Nat /\ now =< now'

\* Send, as the invariant sees it.
LEMMA SendShape ==
    ASSUME CTypeOK, NEW b \in Browsers, NEW q \in Requests, Send(b, q)
    PROVE  Sends(b, q)
  <1>0. req \in [Requests -> Request]
    BY DEF CTypeOK, TypeOK
  <1>1. ASSUME NEW op, NEW u, NEW c, NEW n, Arrive(q, op, NoUser, u, c, n, {})
        PROVE  /\ Still /\ Alone(q) /\ req[q].pc = "idle"
               /\ req'[q].pc = op /\ req'[q].hash = c /\ req'[q].new = n
    BY <1>0, <1>1 DEF Arrive, Still, Alone
  <1> DEFINE Arrived ==
               /\ Still /\ Alone(q) /\ req[q].pc = "idle"
               /\ \/ req'[q].pc = "callback" /\ req'[q].hash = NoHash /\ jar[b] = NoHash
                  \/ req'[q].pc \in {"refresh", "logout", "others"} /\ req'[q].hash = jar[b]
               /\ \/ req'[q].pc \in {"callback", "refresh"} /\ req'[q].new \in Fresh
                  \/ req'[q].new = NoHash
  <1>2. ASSUME jar[b] = NoHash, NEW n \in Hashes, ArriveCallback(q, Account[b], n)
        PROVE  Arrived
    BY <1>1, <1>2 DEF ArriveCallback
  <1>3. ASSUME NEW n \in Hashes, ArriveRefresh(q, jar[b], n) PROVE Arrived
    BY <1>1, <1>3 DEF ArriveRefresh
  <1>4. ASSUME ArriveLogout(q, jar[b]) \/ ArriveOthers(q, Account[b], jar[b]) PROVE Arrived
    BY <1>1, <1>4 DEF ArriveLogout, ArriveOthers
  <1>5. Arrived
    BY <1>2, <1>3, <1>4 DEF Send
  <1> QED BY <1>5 DEF Send, Sends

\* Respond, as the invariant sees it.
LEMMA RespondShape ==
    ASSUME CTypeOK, NEW q \in Requests, Respond(q) PROVE Leaves(q)
  BY DEF CTypeOK, TypeOK, Respond, Leaves, Still, Alone

\* A statement of a handler, as the invariant sees it.
LEMMA WorkShape ==
    ASSUME IInv, ServedInv, NEW q \in Requests, Handle(q), UNCHANGED <<jar, origin, trouble>>
    PROVE  Works(q)
  BY HandleStep, OthersStay DEF Works, Alone, Moves

\* The cleanup and the clock, as the invariant sees them.
LEMMA RestShape ==
    ASSUME IInv, Cleanup \/ Tick \/ UNCHANGED vars, UNCHANGED <<jar, origin, trouble>>
    PROVE  Rests
  <1>1. now \in Nat /\ Table(tokens)
    BY DEF IInv, TypeOK, Table
  <1>2. tokens = DeleteRows(tokens, {})
    BY <1>1 DEF Table, DeleteRows, Restrict
  <1>3. CASE Cleanup
    BY <1>1, <1>3 DEF Cleanup, Rests
  <1>4. CASE Tick \/ UNCHANGED vars
    <2>1. tokens' = DeleteRows(tokens, {})
      BY <1>2, <1>4 DEF Tick, vars
    <2> QED BY <1>1, <1>4, <2>1 DEF Tick, vars, Rests
  <1> QED BY <1>3, <1>4

\* A statement that fails, as the invariant sees it: its browser is in trouble.
LEMMA FailShape ==
    ASSUME IInv, ServedInv, NEW q \in Requests, Fail(q)
    PROVE  /\ \E a \in {"clear", "keep"} : Answers(q, a)
           /\ Still /\ Alone(q) /\ req[q].pc \notin {"idle", "done"}
           /\ trouble' = trouble \cup {origin[q]} /\ UNCHANGED <<jar, origin>>
  BY FailStep, OthersStay DEF Fail, Still, Alone, Moves

\* Every step has one of these shapes.
LEMMA StepShape ==
    ASSUME IInv, CTypeOK, ServedInv, [CNext]_cvars
    PROVE  \/ \E b \in Browsers, q \in Requests : Sends(b, q)
           \/ \E q \in Requests : Deliver(q) \/ Lose(q) \/ Fail(q)
           \/ \E q \in Requests : Works(q)
           \/ Rests
  <1>1. CASE Server /\ UNCHANGED <<jar, origin, trouble>>
    BY <1>1, WorkShape, RestShape DEF Server
  <1>2. CASE UNCHANGED cvars
    BY <1>2, RestShape DEF cvars
  <1> QED BY <1>1, <1>2, SendShape DEF CNext

----------------------------------------------------------------------------
(* What a step leaves of a row.                                            *)

\* The clock never goes back.
LEMMA Clock == ASSUME IInv, [Next]_vars PROVE now' \in Nat /\ now =< now'
  <1>0. now \in Nat
    BY DEF IInv, TypeOK
  <1>1. ASSUME NEW q \in Requests, Moves(q) PROVE now' = now
    BY <1>1 DEF Moves, Arrival, ArriveCallback, ArriveRefresh, ArriveLogout, ArriveSessions,
       ArriveRevoke, ArriveOthers, ArriveDelete, ArriveAdmin, Arrive, Handle, OAuthCallback,
       IssueSessionTokens, RefreshSession, ReplaceConsume, ReplaceCommit, GetAvailable,
       DeleteAllRefreshForUser, RevokeOtherSessions, DeleteFinish, Logout, GetSessions,
       RevokeSession, UserDelete, RestoreUser, PurgeUser, PurgeFinish, DbError, DeadlockVictim,
       Respond
  <1>2. CASE Cleanup \/ Tick \/ UNCHANGED vars
    BY <1>0, <1>2 DEF Cleanup, Tick, vars
  <1> QED BY <1>0, <1>1, <1>2 DEF Next, Moves

\* The row of h stays as it is for as long as it exists.
Kept(h) == h \in DOMAIN tokens' => h \in DOMAIN tokens /\ tokens'[h] = tokens[h]

\* A row that stays as it is does not become consumed.
LEMMA KeptNotConsumed ==
    ASSUME NEW h, Kept(h), NotConsumed(h) PROVE NotConsumed(h)'
  BY DEF Kept, NotConsumed

\* A DELETE leaves every remaining row as it is.
LEMMA DeleteKeeps ==
    ASSUME NEW S, tokens' = DeleteRows(tokens, S), NEW h PROVE Kept(h)
  BY DEF DeleteRows, Restrict, Kept

\* Only a rotation and a logout consume a token, and only their own.
LEMMA WorkKeeps ==
    ASSUME IInv, NEW q \in Requests, Proceeds(q) \/ Writes(q), NEW h \in Cookies,
           h # req[q].hash \/ req[q].pc \notin {"insert", "logout"}
    PROVE  Kept(h)
  <1>0. h \in Minted \/ (h = NoHash /\ h \notin DOMAIN tokens)
    BY NoValueAssumption DEF Cookies, IInv, TypeOK
  <1>1. CASE Proceeds(q)
    BY <1>1 DEF Proceeds, Kept
  <1>2. CASE Opens(req[q].new)
    BY <1>0, <1>2, NoValueAssumption DEF Opens, Kept
  <1>3. CASE req[q].pc = "insert" /\ Rotates(req[q].hash, req[q].new)
    BY <1>0, <1>3, NoValueAssumption DEF Rotates, Kept
  <1>4. ASSUME NEW S, tokens' = DeleteRows(tokens, S) PROVE Kept(h)
    BY <1>4, DeleteKeeps
  <1>5. CASE /\ req[q].pc = "logout"
             /\ tokens' = ConsumeRefreshTokenByHash(tokens, req[q].hash, now)
    BY <1>5 DEF ConsumeRefreshTokenByHash, Kept
  <1> QED BY <1>1, <1>2, <1>3, <1>4, <1>5 DEF Writes, Goes

\* A cookie that cannot be exchanged any more never can be again.
LEMMA SpentStays ==
    ASSUME IInv, [Next]_vars, NEW h \in Cookies, Spent(h) PROVE Spent(h)'
  <1>0. /\ h \in Minted \/ (h = NoHash /\ h \notin DOMAIN tokens)
        /\ Table(tokens) /\ now \in Nat
    BY NoValueAssumption DEF Cookies, IInv, TypeOK, Table
  <1>1. now' \in Nat /\ now =< now'
    BY Clock
  <1> SUFFICES ASSUME h \in DOMAIN tokens', ~tokens'[h].is_consumed
               PROVE  tokens'[h].expires_at < now'
    BY DEF Spent, Unconsumed, Expired
  <1>2. h \in DOMAIN tokens /\ tokens'[h] = tokens[h]
    <2>1. CASE Shrinks
      BY <2>1 DEF Shrinks
    <2>2. ASSUME NEW n \in Hashes, Opens(n) PROVE h \in DOMAIN tokens /\ tokens'[h] = tokens[h]
      BY <1>0, <2>2, NoValueAssumption DEF Opens
    <2>3. ASSUME NEW x \in Hashes, NEW n \in Hashes, Rotates(x, n)
          PROVE  h \in DOMAIN tokens /\ tokens'[h] = tokens[h]
      BY <1>0, <2>3, NoValueAssumption DEF Rotates
    <2> QED BY <2>1, <2>2, <2>3, StepEffect
  <1>3. tokens[h].expires_at < now /\ tokens[h].expires_at \in Nat
    BY <1>0, <1>2 DEF Spent, Unconsumed, Expired, Table, Row
  <1> QED BY <1>0, <1>1, <1>2, <1>3

----------------------------------------------------------------------------
(* Types, the requests that are served, and who holds which cookie.        *)

CInv == IInv /\ ClientInv

\* The parts of the invariant.
LEMMA CInvParts ==
    ASSUME CInv
    PROVE  /\ IInv /\ CTypeOK /\ ServedInv /\ HoldersInv /\ HandedInv /\ TrustInv /\ TokensAreHeld
           /\ req \in [Requests -> Request] /\ jar \in [Browsers -> Hashes \cup {NoHash}]
           /\ origin \in [Requests -> Browsers \cup {NoBrowser}]
  BY DEF CInv, ClientInv, CTypeOK, TypeOK

\* The stages of a request that works, and what becomes of its tokens.
LEMMA WorkFields ==
    ASSUME NEW q \in Requests, Works(q)
    PROVE  /\ req[q].pc \notin {"idle", "done"} /\ req'[q].pc # "idle"
           /\ req'[q].hash \in {req[q].hash, NoHash} /\ req'[q].new \in {req[q].new, NoHash}
           /\ \A p \in Requests \ {q} : req'[p] = req[p]
  BY DEF Works, Proceeds, Writes, Goes, KeepsTokens, Answers, AnswersToken, Alone

\* Every step keeps the types of jars, origins and requests.
LEMMA ClientTypes == ASSUME CInv, [CNext]_cvars PROVE CTypeOK'
  <1>0. TypeOK'
    BY CInvParts, StepOfSessions, NextInv DEF IInv
  <1>1. ASSUME NEW b \in Browsers, NEW q \in Requests, Sends(b, q) PROVE CTypeOK'
    BY <1>0, <1>1 DEF Sends, CTypeOK, CInv, ClientInv
  <1>2. ASSUME NEW q \in Requests, Deliver(q) \/ Lose(q) \/ Fail(q) PROVE CTypeOK'
    <2>1. origin[q] \in Browsers
      BY <1>2, CInvParts DEF ServedInv, Deliver, Lose, Respond, Fail, DbError
    <2>2. Cookie(jar[origin[q]], req[q]) \in Hashes \cup {NoHash}
      BY <2>1, CInvParts DEF Cookie, Request
    <2> QED BY <1>0, <1>2, <2>1, <2>2 DEF Deliver, Lose, Fail, CTypeOK, CInv, ClientInv
  <1>3. CASE (\E q \in Requests : Works(q)) \/ Rests
    BY <1>0, <1>3 DEF Works, Rests, CTypeOK, CInv, ClientInv
  <1> QED BY <1>1, <1>2, <1>3, CInvParts, StepShape

\* Every step keeps what is known of requests under way.
LEMMA Served == ASSUME CInv, [CNext]_cvars PROVE ServedInv'
  <1>1. ASSUME NEW b \in Browsers, NEW q \in Requests, Sends(b, q) PROVE ServedInv'
    BY <1>1, CInvParts, NoBrowserAssumption DEF Sends, Still, Alone, ServedInv
  <1>2. ASSUME NEW q \in Requests, Deliver(q) \/ Lose(q) PROVE ServedInv'
    <2>1. Leaves(q) /\ origin' = [origin EXCEPT ![q] = NoBrowser]
      BY <1>2, CInvParts, RespondShape DEF Deliver, Lose
    <2> QED BY <2>1, CInvParts DEF Leaves, Still, Alone, ServedInv, Idle
  <1>3. ASSUME NEW q \in Requests, Fail(q) PROVE ServedInv'
    BY <1>3, CInvParts, FailShape DEF Answers, Still, Alone, ServedInv
  <1>4. ASSUME NEW q \in Requests, Works(q) PROVE ServedInv'
    <2>1. ASSUME NEW p \in Requests, p # q
          PROVE  /\ req'[p].pc = "idle" <=> origin'[p] = NoBrowser
                 /\ req'[p].pc \in {"idle", "callback", "issue", "refresh", "replace", "insert",
                            "getuser", "reuse", "logout", "others", "deleting", "done"}
                 /\ req'[p].pc = "getuser" =>
                       req'[p].user \in Users /\ users'[req'[p].user] = "active"
                 /\ req'[p].pc = "deleting" => req'[p].reply \in {"clear", "keep"}
      BY <1>4, <2>1, CInvParts DEF Works, Alone, Undeleted, ServedInv
    <2>2. req'[q].pc = "idle" <=> origin'[q] = NoBrowser
      BY <1>4, CInvParts, WorkFields DEF Works, ServedInv
    <2>3. /\ req'[q].pc \in {"idle", "callback", "issue", "refresh", "replace", "insert",
                             "getuser", "reuse", "logout", "others", "deleting", "done"}
          /\ req'[q].pc = "getuser" =>
                req'[q].user \in Users /\ users'[req'[q].user] = "active"
          /\ req'[q].pc = "deleting" => req'[q].reply \in {"clear", "keep"}
      BY <1>4 DEF Works, Proceeds, Writes, Goes, Answers, AnswersToken
    <2>4. \A u \in Users : users'[u] \in {"absent", "active"}
      BY <1>4 DEF Works, Undeleted
    <2> QED BY <2>1, <2>2, <2>3, <2>4 DEF ServedInv
  <1>5. CASE Rests
    BY <1>5, CInvParts DEF Rests, ServedInv
  <1> QED BY <1>1, <1>2, <1>3, <1>4, <1>5, CInvParts, StepShape

\* Minted hashes stay minted.
LEMMA CookiesStay == ASSUME CInv, [CNext]_cvars PROVE Cookies \subseteq Cookies'
  BY CInvParts, StepOfSessions, RowsStay DEF Cookies

\* The token an answer brings was minted.
LEMMA GivenIsMinted ==
    ASSUME CInv, NEW q \in Requests, req[q].pc = "done", NEW c \in Cookies
    PROVE  Cookie(c, req[q]) \in Cookies
  <1>1. req[q].reply = "set" => req[q].new \in Minted
    BY CInvParts DEF HandedInv, Handed
  <1> QED BY <1>1 DEF Cookie, Cookies

\* No request or browser comes by a token that its browser did not hold, except
\* for the token that a request brings along to be minted.
LEMMA Holdings ==
    ASSUME CInv, [CNext]_cvars
    PROVE  /\ \A b \in Browsers : jar'[b] \in Cookies
           /\ \A q \in Requests : req'[q].hash \in Cookies
           /\ \/ /\ \A b \in Browsers, h \in Hashes : Holds(b, h)' => Holds(b, h)
                 /\ \A q \in Requests : req'[q].new \in {req[q].new, NoHash}
              \/ \E c \in Browsers, q \in Requests :
                    /\ \A b \in Browsers, h \in Hashes :
                          Holds(b, h)' => Holds(b, h) \/ (b = c /\ h \in Fresh)
                    /\ \A p \in Requests \ {q} : req'[p].new = req[p].new
                    /\ req'[q].new \in Fresh \cup {NoHash}
  <1> DEFINE J == \A b \in Browsers : jar'[b] \in Cookies
             H == \A q \in Requests : req'[q].hash \in Cookies
             K == \A b \in Browsers, h \in Hashes : Holds(b, h)' => Holds(b, h)
             N == \A q \in Requests : req'[q].new \in {req[q].new, NoHash}
             F == \E c \in Browsers, q \in Requests :
                    /\ \A b \in Browsers, h \in Hashes :
                          Holds(b, h)' => Holds(b, h) \/ (b = c /\ h \in Fresh)
                    /\ \A p \in Requests \ {q} : req'[p].new = req[p].new
                    /\ req'[q].new \in Fresh \cup {NoHash}
  <1>0. NoHash \notin Hashes /\ NoHash \in Cookies
    BY NoValueAssumption DEF Cookies
  <1>1. ASSUME NEW c \in Browsers, NEW q \in Requests, Sends(c, q) PROVE J /\ H /\ F
    <2>1. J /\ H
      BY <1>0, <1>1, CInvParts DEF Sends, Alone, HoldersInv
    <2>2. \A p \in Requests \ {q} : req'[p].new = req[p].new
      BY <1>1 DEF Sends, Alone
    <2>3. req'[q].new \in Fresh \cup {NoHash}
      BY <1>1 DEF Sends
    <2>4. ASSUME NEW b \in Browsers, NEW h \in Hashes, Holds(b, h)'
          PROVE  Holds(b, h) \/ (b = c /\ h \in Fresh)
      <3>1. CASE jar'[b] = h
        BY <1>1, <3>1 DEF Sends, Holds
      <3>2. ASSUME NEW p \in Requests, p # q, origin'[p] = b, h \in {req'[p].hash, req'[p].new}
            PROVE  Holds(b, h)
        BY <1>1, <3>2, CInvParts DEF Sends, Alone, Holds
      <3>3. ASSUME origin'[q] = b, h \in {req'[q].hash, req'[q].new}
            PROVE  Holds(b, h) \/ (b = c /\ h \in Fresh)
        <4>1. b = c
          BY <1>1, <3>3, CInvParts DEF Sends
        <4>2. CASE h = req'[q].hash
          BY <1>0, <1>1, <4>1, <4>2 DEF Sends, Holds
        <4>3. CASE h = req'[q].new
          BY <1>0, <2>3, <4>1, <4>3
        <4> QED BY <3>3, <4>2, <4>3
      <3> QED BY <2>4, <3>1, <3>2, <3>3 DEF Holds
    <2> QED BY <2>1, <2>2, <2>3, <2>4
  <1>2. ASSUME NEW q \in Requests, req'[q].hash \in {req[q].hash, NoHash},
               req'[q].new \in {req[q].new, NoHash}, \A p \in Requests \ {q} : req'[p] = req[p],
               \A p \in Requests : origin'[p] \in {origin[p], NoBrowser},
               \A b \in Browsers : jar'[b] \in {jar[b], NoHash}
                                   \/ (origin[q] = b /\ jar'[b] = req[q].new)
        PROVE  K /\ N
    <2>1. N
      BY <1>2
    <2>2. ASSUME NEW b \in Browsers, NEW h \in Hashes, Holds(b, h)' PROVE Holds(b, h)
      <3>1. CASE jar'[b] = h
        BY <1>0, <1>2, <3>1 DEF Holds
      <3>2. ASSUME NEW p \in Requests, origin'[p] = b, h \in {req'[p].hash, req'[p].new}
            PROVE  Holds(b, h)
        <4>1. origin[p] = b
          BY <1>2, <3>2, NoBrowserAssumption
        <4>2. h \in {req[p].hash, req[p].new}
          BY <1>0, <1>2, <3>2
        <4> QED BY <4>1, <4>2 DEF Holds
      <3> QED BY <2>2, <3>1, <3>2 DEF Holds
    <2> QED BY <2>1, <2>2
  <1>3. ASSUME NEW q \in Requests, Deliver(q) PROVE J /\ H /\ K /\ N
    <2>1. Leaves(q) /\ origin[q] \in Browsers
      BY <1>3, CInvParts, RespondShape DEF ServedInv, Deliver, Leaves
    <2>2. /\ \A b \in Browsers \ {origin[q]} : jar'[b] = jar[b]
          /\ jar'[origin[q]] = Cookie(jar[origin[q]], req[q])
          /\ origin' = [origin EXCEPT ![q] = NoBrowser]
      BY <1>3, <2>1, CInvParts DEF Deliver
    <2>3. J
      BY <2>1, <2>2, CInvParts, GivenIsMinted DEF HoldersInv, Leaves
    <2>4. /\ req'[q].hash = NoHash /\ req'[q].new = NoHash
          /\ \A p \in Requests \ {q} : req'[p] = req[p]
      BY <2>1 DEF Leaves, Alone, Idle
    <2>5. H
      BY <1>0, <2>4, CInvParts DEF HoldersInv
    <2>6. Cookie(jar[origin[q]], req[q]) \in {jar[origin[q]], NoHash, req[q].new}
      BY DEF Cookie
    <2>7. \A p \in Requests : origin'[p] \in {origin[p], NoBrowser}
      BY <2>2, CInvParts
    <2>8. \A b \in Browsers : jar'[b] \in {jar[b], NoHash}
                              \/ (origin[q] = b /\ jar'[b] = req[q].new)
      BY <2>2, <2>6
    <2>9. K /\ N
      BY <1>2, <2>4, <2>7, <2>8
    <2> QED BY <2>3, <2>5, <2>9
  <1>4. ASSUME NEW q \in Requests, jar' = jar, req'[q].hash \in {req[q].hash, NoHash},
               req'[q].new \in {req[q].new, NoHash}, \A p \in Requests \ {q} : req'[p] = req[p],
               \A p \in Requests : origin'[p] \in {origin[p], NoBrowser}
        PROVE  J /\ H /\ K /\ N
    <2>1. J /\ H
      BY <1>0, <1>4, CInvParts DEF HoldersInv
    <2>2. \A b \in Browsers : jar'[b] \in {jar[b], NoHash}
                              \/ (origin[q] = b /\ jar'[b] = req[q].new)
      BY <1>4
    <2>3. K /\ N
      BY <1>2, <1>4, <2>2
    <2> QED BY <2>1, <2>3
  <1>5. ASSUME NEW q \in Requests, Lose(q) PROVE J /\ H /\ K /\ N
    <2>1. /\ Leaves(q) /\ jar' = jar
          /\ \A p \in Requests : origin'[p] \in {origin[p], NoBrowser}
      BY <1>5, CInvParts, RespondShape DEF Lose
    <2>2. /\ req'[q].hash = NoHash /\ req'[q].new = NoHash
          /\ \A p \in Requests \ {q} : req'[p] = req[p]
      BY <2>1 DEF Leaves, Alone, Idle
    <2> QED BY <1>4, <2>1, <2>2
  <1>6. ASSUME NEW q \in Requests, Fail(q) PROVE J /\ H /\ K /\ N
    <2>1. /\ req'[q].hash = NoHash /\ req'[q].new = NoHash
          /\ \A p \in Requests \ {q} : req'[p] = req[p]
          /\ jar' = jar /\ origin' = origin
      BY <1>6, CInvParts, FailShape DEF Answers, Alone
    <2> QED BY <1>4, <2>1
  <1>7. ASSUME NEW q \in Requests, Works(q) PROVE J /\ H /\ K /\ N
    <2>1. jar' = jar /\ origin' = origin
      BY <1>7 DEF Works
    <2> QED BY <1>4, <1>7, <2>1, WorkFields
  <1>8. CASE Rests
    BY <1>8, CInvParts DEF Rests, HoldersInv, Holds
  <1> QED BY <1>1, <1>3, <1>5, <1>6, <1>7, <1>8, CInvParts, StepShape

\* Every step keeps each token in the hands of one browser.
LEMMA Holders == ASSUME CInv, [CNext]_cvars PROVE HoldersInv'
  <1> DEFINE Apart ==
               /\ \A b, c \in Browsers, h \in Hashes : Holds(b, h)' /\ Holds(c, h)' => b = c
               /\ \A p, q \in Requests : req'[p].new = req'[q].new /\ req'[q].new # NoHash => p = q
  <1>1. /\ \A b \in Browsers : jar'[b] \in Cookies'
        /\ \A q \in Requests : req'[q].hash \in Cookies'
    BY CookiesStay, Holdings
  <1>2. \A b \in Browsers, h \in Fresh : ~Holds(b, h)
    BY CInvParts, NoValueAssumption DEF Holds, HoldersInv, Cookies, Fresh
  <1>3. CASE /\ \A b \in Browsers, h \in Hashes : Holds(b, h)' => Holds(b, h)
             /\ \A q \in Requests : req'[q].new \in {req[q].new, NoHash}
    BY <1>1, <1>3, CInvParts DEF HoldersInv
  <1>4. ASSUME NEW c \in Browsers, NEW q \in Requests,
               \A b \in Browsers, h \in Hashes : Holds(b, h)' => Holds(b, h) \/ (b = c /\ h \in Fresh),
               \A p \in Requests \ {q} : req'[p].new = req[p].new,
               req'[q].new \in Fresh \cup {NoHash}
        PROVE  Apart
    <2>1. \A b, d \in Browsers, h \in Hashes : Holds(b, h)' /\ Holds(d, h)' => b = d
      BY <1>2, <1>4, CInvParts DEF HoldersInv
    <2>2. \A p, r \in Requests : req'[p].new = req'[r].new /\ req'[r].new # NoHash => p = r
      BY <1>4, CInvParts DEF HoldersInv, Fresh
    <2> QED BY <2>1, <2>2
  <1> QED BY <1>1, <1>3, <1>4, Holdings DEF HoldersInv

----------------------------------------------------------------------------
(* Tokens on their way to a browser.                                       *)

\* What HandedInv says of one request and the token it was given.
Safe(n) ==
    /\ n \in Minted /\ NotConsumed(n)
    /\ \A b \in Browsers : jar[b] # n
    /\ \A p \in Requests : req[p].hash # n
    /\ Live(family[n]) \subseteq {n}

\* A token that was handed out and that nobody holds stays safe as long as its row
\* is not touched.
LEMMA SafeStays ==
    ASSUME CInv, [CNext]_cvars, NEW n, Safe(n), Kept(n),
           \A b \in Browsers : jar'[b] # n, \A p \in Requests : req'[p].hash # n
    PROVE  Safe(n)'
  <1>0. IInv /\ [Next]_vars /\ IInv'
    BY CInvParts, StepOfSessions, NextInv
  <1>1. n \in Minted' /\ NotConsumed(n)'
    BY <1>0, RowsStay, KeptNotConsumed DEF Safe
  <1>2. Live(family[n])' \subseteq {n}
    <2>0. n \in Hashes /\ n \in Minted /\ family[n] \in Minted /\ Live(family[n]) \subseteq {n}
      BY <1>0 DEF Safe, Minted, IInv, FamilyInv
    <2>1. CASE Shrinks
      BY <2>0, <2>1 DEF Shrinks, Live
    <2>2. ASSUME NEW m \in Hashes, Opens(m) PROVE Live(family[n])' \subseteq {n}
      <3>1. m # n /\ family'[n] = family[n] /\ family'[m] = m /\ m # family[n]
        BY <1>0, <2>0, <2>2 DEF Opens, IInv, TypeOK
      <3>2. \A x \in DOMAIN tokens' : x = m \/ (x \in DOMAIN tokens /\ tokens'[x] = tokens[x]
                                               /\ family'[x] = family[x])
        BY <1>0, <2>2 DEF Opens, IInv, TypeOK, FamilyInv, Minted
      <3> QED BY <2>0, <3>1, <3>2 DEF Live
    <2>3. ASSUME NEW h \in Hashes, NEW m \in Hashes, Rotates(h, m)
          PROVE  Live(family[n])' \subseteq {n}
      <3>1. m # n /\ family'[n] = family[n] /\ family'[m] = family[h]
        BY <1>0, <2>0, <2>3 DEF Rotates, IInv, TypeOK
      <3>2. \A x \in DOMAIN tokens' :
               \/ x = m \/ x = h
               \/ (x \in DOMAIN tokens /\ tokens'[x] = tokens[x] /\ family'[x] = family[x])
        BY <1>0, <2>3 DEF Rotates, IInv, TypeOK, FamilyInv, Minted
      <3>3. h # n
        BY <2>3 DEF Kept, Rotates, Unconsumed
      <3>4. family[h] # family[n]
        BY <2>0, <2>3, <3>3 DEF Rotates, Unconsumed, Live
      <3>5. tokens'[h].is_consumed
        BY <2>3 DEF Rotates
      <3> QED BY <2>0, <3>1, <3>2, <3>4, <3>5 DEF Live
    <2> QED BY <1>0, <2>1, <2>2, <2>3, StepEffect
  <1> QED BY <1>1, <1>2 DEF Safe

\* Nobody takes a token that is on its way, and nothing touches its row.
LEMMA HandedStays ==
    ASSUME CInv, [CNext]_cvars, NEW p \in Requests, Handed(p), req'[p].new = req[p].new,
           NEW n, n = req[p].new
    PROVE  Safe(n)'
  <1>1. Safe(n) /\ n \in Cookies /\ n \in Hashes /\ n # NoHash
    BY CInvParts, NoValueAssumption DEF HandedInv, Safe, Cookies, Minted
  <1> DEFINE Untaken == /\ Kept(n)
                        /\ \A b \in Browsers : jar'[b] # n
                        /\ \A r \in Requests : req'[r].hash # n
  <1>2. ASSUME NEW b \in Browsers, NEW q \in Requests, Sends(b, q) PROVE Untaken
    BY <1>1, <1>2 DEF Sends, Still, Alone, Safe, Kept
  <1>3. ASSUME NEW q \in Requests, Leaves(q), \A b \in Browsers : jar'[b] \in {jar[b], NoHash}
                                              \/ jar'[b] = req[q].new
        PROVE  Untaken
    <2>1. /\ UNCHANGED tokens /\ req'[q].hash = NoHash /\ req'[q].new = NoHash
          /\ \A r \in Requests \ {q} : req'[r] = req[r]
      BY <1>3 DEF Leaves, Still, Alone, Idle
    <2>2. req[q].new # n
      BY <1>1, <2>1, CInvParts DEF HoldersInv
    <2> QED BY <1>1, <1>3, <2>1, <2>2 DEF Safe, Kept
  <1>4. ASSUME NEW q \in Requests, Deliver(q) PROVE Untaken
    <2>1. Leaves(q)
      BY <1>4, CInvParts, RespondShape DEF Deliver
    <2>2. \A b \in Browsers : jar'[b] = IF b = origin[q] THEN Cookie(jar[b], req[q]) ELSE jar[b]
      BY <1>4, CInvParts DEF Deliver
    <2>3. \A b \in Browsers : Cookie(jar[b], req[q]) \in {jar[b], NoHash, req[q].new}
      BY DEF Cookie
    <2> QED BY <1>3, <2>1, <2>2, <2>3
  <1>5. ASSUME NEW q \in Requests, Lose(q) PROVE Untaken
    <2>1. Leaves(q) /\ jar' = jar
      BY <1>5, CInvParts, RespondShape DEF Lose
    <2> QED BY <1>3, <2>1
  <1>6. ASSUME NEW q \in Requests, Fail(q) PROVE Untaken
    <2>1. /\ UNCHANGED <<tokens, jar>> /\ req'[q].hash = NoHash
          /\ \A r \in Requests \ {q} : req'[r] = req[r]
      BY <1>6, CInvParts, FailShape DEF Still, Alone, Answers
    <2> QED BY <1>1, <2>1 DEF Safe, Kept
  <1>7. ASSUME NEW q \in Requests, Works(q) PROVE Untaken
    <2>1. Kept(n)
      BY <1>1, <1>7, CInvParts, WorkKeeps DEF Works, Safe
    <2>2. jar' = jar /\ \A r \in Requests : req'[r].hash \in {req[r].hash, NoHash}
      BY <1>7, WorkFields DEF Works
    <2> QED BY <1>1, <2>1, <2>2 DEF Safe
  <1>8. ASSUME Rests PROVE Untaken
    BY <1>1, <1>8, DeleteKeeps DEF Rests, Safe
  <1>9. Untaken
    BY <1>2, <1>4, <1>5, <1>6, <1>7, <1>8, CInvParts, StepShape
  <1> QED BY <1>1, <1>9, SafeStays

\* The token of a login or a rotation is handed out by the step that stores it.
LEMMA HandedOut ==
    ASSUME CInv, [CNext]_cvars, NEW q \in Requests, Works(q), Handed(q)', ~Handed(q),
           NEW n, n = req'[q].new
    PROVE  Safe(n)'
  <1>0. IInv /\ IInv'
    BY CInvParts, StepOfSessions, NextInv
  <1>1. n = req[q].new /\ (Opens(n) \/ \E h \in Hashes : Rotates(h, n))
    <2>1. CASE Proceeds(q)
      BY <2>1 DEF Proceeds, Goes, Answers, AnswersToken, Handed
    <2>2. CASE req[q].pc = "issue" /\ AnswersToken(q) /\ Opens(req[q].new)
      BY <2>2 DEF AnswersToken
    <2>3. CASE /\ Goes(q, "insert", "getuser") /\ KeepsTokens(q)
               /\ Rotates(req[q].hash, req[q].new)
      <3>1. req[q].hash \in Hashes
        BY <1>0, <2>3 DEF Rotates, Unconsumed, IInv, TypeOK
      <3> QED BY <2>3, <3>1 DEF KeepsTokens
    <2>4. ~(req[q].pc = "deleting" /\ Answers(q, req[q].reply))
      BY CInvParts DEF Answers, Handed, ServedInv
    <2>5. ~(req[q].pc = "logout" /\ Answers(q, "clear"))
      BY DEF Answers, Handed
    <2> QED BY <2>1, <2>2, <2>3, <2>4, <2>5 DEF Works, Writes
  <1>2. /\ n \in Hashes \ Minted /\ n \in DOMAIN tokens' /\ ~tokens'[n].is_consumed
        /\ family'[n] \in Hashes
    BY <1>0, <1>1 DEF Opens, Rotates, Unconsumed, IInv, TypeOK, FamilyInv, Minted
  <1>3. n \in Minted' /\ NotConsumed(n)'
    BY <1>2, NoValueAssumption DEF Minted, NotConsumed
  <1>4. /\ \A b \in Browsers : jar'[b] # n
        /\ \A p \in Requests : req'[p].hash # n
    BY <1>2, NoValueAssumption, Holdings DEF Cookies
  <1>5. Live(family[n])' \subseteq {n}
    BY <1>0, <1>2 DEF IInv, OneTokenPerSession, Live
  <1> QED BY <1>3, <1>4, <1>5 DEF Safe

\* A request that has been handed a token got it in this step or had it before.
LEMMA HandedOnce ==
    ASSUME CInv, [CNext]_cvars, NEW p \in Requests
    PROVE  /\ Pending(p)' \/ Handed(p)' \/ req'[p].new = NoHash
           /\ Handed(p)' => (Handed(p) /\ req'[p].new = req[p].new) \/ (Works(p) /\ ~Handed(p))
  <1> DEFINE G == /\ Pending(p)' \/ Handed(p)' \/ req'[p].new = NoHash
                  /\ Handed(p)' => (Handed(p) /\ req'[p].new = req[p].new) \/ (Works(p) /\ ~Handed(p))
  <1>1. CASE req'[p] = req[p]
    BY <1>1, CInvParts DEF HandedInv, Handed, Pending
  <1>2. ASSUME NEW b \in Browsers, Sends(b, p) PROVE G
    BY <1>2 DEF Sends, Handed, Pending
  <1>3. CASE Leaves(p)
    BY <1>3 DEF Leaves, Idle, Handed
  <1>4. CASE Fail(p)
    BY <1>4, CInvParts, FailShape DEF Answers, Handed
  <1>5. CASE Works(p)
    <2>1. CASE Proceeds(p)
      BY <1>5, <2>1, CInvParts
         DEF Proceeds, Goes, KeepsTokens, Answers, AnswersToken, Handed, HandedInv, Pending
    <2>2. CASE Writes(p)
      BY <1>5, <2>2, CInvParts
         DEF Writes, Goes, KeepsTokens, Answers, AnswersToken, Handed, HandedInv, Pending, ServedInv
    <2> QED BY <1>5, <2>1, <2>2 DEF Works
  <1>6. ASSUME NEW q \in Requests, q # p, Alone(q) PROVE req'[p] = req[p]
    BY <1>6 DEF Alone
  <1>7. ASSUME NEW q \in Requests, Deliver(q) \/ Lose(q) PROVE Leaves(q)
    BY <1>7, CInvParts, RespondShape DEF Deliver, Lose
  <1>8. ASSUME NEW q \in Requests, Deliver(q) \/ Lose(q) \/ Fail(q) PROVE G
    BY <1>1, <1>3, <1>4, <1>6, <1>7, <1>8, CInvParts, FailShape DEF Leaves
  <1>9. ASSUME NEW b \in Browsers, NEW q \in Requests, Sends(b, q) PROVE G
    BY <1>1, <1>2, <1>6, <1>9 DEF Sends
  <1>10. ASSUME NEW q \in Requests, Works(q) PROVE G
    BY <1>1, <1>5, <1>6, <1>10 DEF Works
  <1>11. CASE Rests
    BY <1>1, <1>11 DEF Rests
  <1> QED BY <1>8, <1>9, <1>10, <1>11, CInvParts, StepShape

\* Every step keeps a token on its way to its browser unconsumed and nobody's cookie.
LEMMA HandedIsSafe == ASSUME CInv, [CNext]_cvars PROVE HandedInv'
  <1>1. ASSUME NEW p \in Requests, Handed(p)', NEW n, n = req'[p].new PROVE Safe(n)'
    BY <1>1, HandedOnce, HandedStays, HandedOut
  <1>2. ASSUME NEW p \in Requests, Handed(p)'
        PROVE  /\ req'[p].new \in Minted' /\ NotConsumed(req[p].new)'
               /\ \A b \in Browsers : jar'[b] # req'[p].new
               /\ \A q \in Requests : req'[q].hash # req'[p].new
               /\ Live(family[req[p].new])' \subseteq {req'[p].new}
    <2>1. PICK n : n = req'[p].new
      OBVIOUS
    <2>2. Safe(n)'
      BY <1>1, <1>2, <2>1
    <2> QED BY <2>1, <2>2 DEF Safe, NotConsumed, Live
  <1> QED BY <1>2, HandedOnce DEF HandedInv

----------------------------------------------------------------------------
(* What an undisturbed browser knows of its cookie.                        *)

\* A browser whose requests and cookie stand still keeps what it knows, if nobody
\* consumes its cookie.
LEMMA TrustStays ==
    ASSUME CInv, [CNext]_cvars, NEW b \in Browsers, Trusts(b),
           jar'[b] = jar[b], Kept(jar[b]), InFlight(b)' = InFlight(b),
           \A q \in InFlight(b) : req'[q] = req[q]
    PROVE  Trusts(b)'
  <1> PICK c : c = jar[b]
    OBVIOUS
  <1>1. c \in Cookies /\ jar'[b] = c /\ Kept(c)
    BY CInvParts DEF HoldersInv
  <1>2. NotConsumed(c) => NotConsumed(c)'
    BY <1>1, KeptNotConsumed
  <1>3. Spent(c) => Spent(c)'
    BY <1>1, CInvParts, StepOfSessions, SpentStays
  <1>4. /\ NotConsumed(jar[b]) => NotConsumed(jar[b])'
        /\ Spent(jar[b]) => Spent(jar[b])'
    BY <1>1, <1>2, <1>3 DEF NotConsumed, Spent
  <1>5. InFlight(b)' = {} => NotConsumed(jar[b])'
    BY <1>4 DEF Trusts
  <1>6. ASSUME NEW q \in InFlight(b)'
        PROVE  /\ req'[q] = req[q] /\ q \in InFlight(b)
               /\ (KeepsCookie(req[q]))' = KeepsCookie(req[q])
    BY <1>6 DEF KeepsCookie
  <1>7. ASSUME NEW q \in InFlight(b)'
        PROVE  /\ req'[q].pc \in {"callback", "issue"} => jar'[b] = NoHash
               /\ req'[q].pc \in {"refresh", "replace", "insert", "logout", "others"} =>
                     req'[q].hash = jar'[b]
               /\ req'[q].pc = "done" => req'[q].reply \in {"set", "clear", "keep"}
    BY <1>6, <1>7 DEF Trusts
  <1>8. ASSUME NEW q \in InFlight(b)'
        PROVE  IF KeepsCookie(req[q])' THEN NotConsumed(jar[b])' ELSE Spent(jar[b])'
    BY <1>4, <1>6, <1>8 DEF Trusts
  <1>9. \A p, q \in InFlight(b)' : p = q
    BY <1>6 DEF Trusts
  <1> QED BY <1>5, <1>7, <1>8, <1>9 DEF Trusts

\* A browser that has sent a single request knows what its current state means.
Knows(b, q) ==
    /\ req[q].pc \in {"callback", "issue"} => jar[b] = NoHash
    /\ req[q].pc \in {"refresh", "replace", "insert", "logout", "others"} => req[q].hash = jar[b]
    /\ req[q].pc = "done" => req[q].reply \in {"set", "clear", "keep"}
    /\ IF KeepsCookie(req[q]) THEN NotConsumed(jar[b]) ELSE Spent(jar[b])

\* With one request under way, trust in its browser is what that request knows.
LEMMA TrustsKnows ==
    ASSUME NEW b \in Browsers, NEW q \in Requests, InFlight(b) = {q}
    PROVE  Trusts(b) <=> Knows(b, q)
  BY DEF Trusts, Knows

\* Another browser's request does not touch the cookie of b.
LEMMA OtherBrowser ==
    ASSUME CInv, [CNext]_cvars, NEW q \in Requests, Works(q), NEW b \in Browsers, origin[q] # b
    PROVE  Kept(jar[b])
  <1>1. origin[q] \in Browsers /\ jar[b] \in Cookies
    BY CInvParts, WorkFields DEF ServedInv, HoldersInv
  <1>2. CASE jar[b] = NoHash
    <2>1. TypeOK'
      BY CInvParts, StepOfSessions, NextInv DEF IInv
    <2> QED BY <1>2, <2>1, NoValueAssumption DEF TypeOK, Kept
  <1>3. CASE jar[b] # NoHash
    <2>1. jar[b] \in Hashes
      BY <1>1, <1>3 DEF Cookies, Minted
    <2>2. jar[b] # req[q].hash
      BY <1>1, <2>1, CInvParts DEF HoldersInv, Holds
    <2> QED BY <1>1, <2>2, CInvParts, WorkKeeps DEF Works
  <1> QED BY <1>2, <1>3

\* The browser that waits for q knows what its next state means.
LEMMA OwnWork ==
    ASSUME CInv, [CNext]_cvars, NEW q \in Requests, Works(q),
           NEW b \in Browsers \ trouble, origin[q] = b, Knows(b, q)
    PROVE  Knows(b, q)'
  <1>0. /\ TypeOK' /\ NoHash \notin DOMAIN tokens' /\ jar' = jar
        /\ jar[b] \in Cookies /\ [Next]_vars /\ IInv
    BY CInvParts, StepOfSessions, NextInv, NoValueAssumption DEF IInv, TypeOK, Works, HoldersInv
  <1>1. Spent(jar[b]) => Spent(jar[b])'
    <2>1. PICK c : c = jar[b]
      OBVIOUS
    <2>2. Spent(c) => Spent(c)'
      BY <1>0, <2>1, SpentStays
    <2> QED BY <1>0, <2>1, <2>2 DEF Spent
  <1>2. ASSUME tokens' = tokens, NotConsumed(jar[b]) PROVE NotConsumed(jar[b])'
    BY <1>0, <1>2 DEF NotConsumed
  <1>3. ASSUME req'[q].pc \in {"refresh", "replace", "insert", "logout", "others"},
               req'[q].hash = jar[b], NotConsumed(jar[b])'
        PROVE  Knows(b, q)'
    BY <1>0, <1>3 DEF Knows, KeepsCookie
  <1>4. ASSUME req'[q].pc = "done", req'[q].reply \in {"set", "clear"}, Spent(jar[b])'
        PROVE  Knows(b, q)'
    BY <1>0, <1>4 DEF Knows, KeepsCookie
  <1>5. ASSUME req'[q].pc \in {"done", "deleting"}, req'[q].reply = "keep", NotConsumed(jar[b])'
        PROVE  Knows(b, q)'
    BY <1>0, <1>5 DEF Knows, KeepsCookie
  <1>6. ASSUME req'[q].pc \in {"getuser", "reuse"}, Spent(jar[b])'
        PROVE  Knows(b, q)'
    BY <1>0, <1>6 DEF Knows, KeepsCookie
  <1>7. CASE Proceeds(q)
    <2>0. tokens' = tokens
      BY <1>7 DEF Proceeds
    <2>1. CASE Goes(q, "callback", "issue") /\ KeepsTokens(q)
      BY <1>0, <1>2, <2>0, <2>1 DEF Goes, Knows, KeepsCookie
    <2>2. CASE req[q].pc = "refresh" /\ Answers(q, "clear") /\ Spent(req[q].hash)
      BY <1>1, <1>4, <2>2 DEF Answers, Knows
    <2>3. CASE req[q].pc = "refresh" /\ ~NotConsumed(req[q].hash)
      BY <2>3 DEF Knows, KeepsCookie
    <2>4. CASE \/ Goes(q, "refresh", "replace") /\ KeepsTokens(q)
               \/ Goes(q, "replace", "insert") /\ KeepsTokens(q)
      <3>1. req[q].hash = jar[b] /\ NotConsumed(jar[b])
        BY <2>4 DEF Goes, Knows, KeepsCookie
      <3> QED BY <1>2, <1>3, <2>0, <2>4, <3>1 DEF Goes, KeepsTokens
    <2>5. CASE Goes(q, "replace", "reuse") /\ ~Unconsumed(tokens, req[q].hash)
      <3>1. Spent(jar[b])
        BY <2>5 DEF Goes, Knows, Spent
      <3> QED BY <1>1, <1>6, <2>5, <3>1 DEF Goes
    <2>6. CASE req[q].pc = "getuser" /\ AnswersToken(q)
      <3>1. Spent(jar[b])
        BY <2>6 DEF Knows, KeepsCookie
      <3> QED BY <1>1, <1>4, <2>6, <3>1 DEF AnswersToken
    <2>7. CASE Goes(q, "reuse", "deleting") /\ req'[q].reply = "clear"
      <3>1. Spent(jar[b])'
        BY <1>1, <2>7 DEF Goes, Knows, KeepsCookie
      <3> QED BY <1>0, <2>7, <3>1 DEF Goes, Knows, KeepsCookie
    <2>8. CASE \/ req[q].pc = "others" /\ Answers(q, "keep")
               \/ Goes(q, "others", "deleting") /\ req'[q].reply = "keep"
      <3>1. NotConsumed(jar[b])
        BY <2>8 DEF Goes, Knows, KeepsCookie
      <3> QED BY <1>2, <1>5, <2>0, <2>8, <3>1 DEF Goes, Answers
    <2> QED BY <1>7, <2>1, <2>2, <2>3, <2>4, <2>5, <2>6, <2>7, <2>8 DEF Proceeds, Goes
  <1>8. CASE Writes(q)
    <2>1. CASE req[q].pc = "issue" /\ AnswersToken(q)
      <3>1. Spent(jar[b])'
        BY <1>0, <2>1 DEF Knows, Spent, Unconsumed
      <3> QED BY <1>4, <2>1, <3>1 DEF AnswersToken
    <2>2. CASE Goes(q, "insert", "getuser") /\ Rotates(req[q].hash, req[q].new)
      <3>1. Spent(jar[b])'
        BY <1>0, <2>2 DEF Goes, Knows, Rotates, Spent, Unconsumed
      <3> QED BY <1>6, <2>2, <3>1 DEF Goes
    <2>3. CASE req[q].pc = "deleting" /\ Answers(q, req[q].reply) /\ \E S : tokens' = DeleteRows(tokens, S)
      <3>1. CASE req[q].reply = "clear"
        <4>1. Spent(jar[b])'
          BY <1>1, <2>3, <3>1 DEF Knows, KeepsCookie
        <4> QED BY <1>4, <2>3, <3>1, <4>1 DEF Answers
      <3>2. CASE req[q].reply = "keep"
        <4>1. NotConsumed(jar[b])
          BY <2>3, <3>2 DEF Knows, KeepsCookie
        <4>2. PICK c : c = jar[b]
          OBVIOUS
        <4>3. NotConsumed(c)'
          BY <2>3, <4>1, <4>2, DeleteKeeps, KeptNotConsumed
        <4>4. NotConsumed(jar[b])'
          BY <1>0, <4>2, <4>3 DEF NotConsumed
        <4> QED BY <1>5, <2>3, <3>2, <4>4 DEF Answers
      <3> QED BY <2>3, <3>1, <3>2, CInvParts DEF ServedInv
    <2>4. CASE /\ req[q].pc = "logout" /\ Answers(q, "clear")
               /\ tokens' = ConsumeRefreshTokenByHash(tokens, req[q].hash, now)
      <3>1. req[q].hash = jar[b]
        BY <2>4 DEF Knows
      <3>2. ~Unconsumed(tokens', jar[b])
        <4>1. Table(tokens) /\ now \in Nat
          BY CInvParts DEF IInv, TypeOK, Table
        <4> QED BY <2>4, <3>1, <4>1, ConsumeTable DEF Unconsumed
      <3>3. Spent(jar[b])'
        BY <1>0, <3>2 DEF Spent
      <3> QED BY <1>4, <2>4, <3>3 DEF Answers
    <2> QED BY <1>8, <2>1, <2>2, <2>3, <2>4 DEF Writes
  <1> QED BY <1>7, <1>8 DEF Works

\* Every step keeps the trust in browsers that met no trouble.
LEMMA Trusted == ASSUME CInv, [CNext]_cvars PROVE TrustInv'
  <1> SUFFICES ASSUME NEW b \in Browsers, b \notin trouble' PROVE Trusts(b)'
    BY DEF TrustInv
  <1>0. b \notin trouble => Trusts(b)
    BY CInvParts DEF TrustInv
  <1>1. ASSUME NEW c \in Browsers, NEW q \in Requests, Sends(c, q) PROVE Trusts(b)'
    <2>1. b \notin trouble /\ tokens' = tokens /\ jar' = jar
      BY <1>1 DEF Sends, Still
    <2>2. CASE b = c
      <3>1. InFlight(b) = {}
        BY <1>1, <2>1, <2>2 DEF Sends
      <3>2. InFlight(b)' = {q}
        BY <1>1, <2>2, <3>1, CInvParts DEF Sends, InFlight
      <3>3. NotConsumed(jar[b])'
        BY <1>0, <2>1, <3>1 DEF Trusts, NotConsumed
      <3>4. Knows(b, q)'
        BY <1>1, <2>1, <2>2, <3>3 DEF Sends, Knows, KeepsCookie
      <3> QED BY <3>2, <3>4 DEF Trusts, Knows
    <2>3. CASE b # c
      <3>1. q \notin InFlight(b)
        BY <1>1, CInvParts, NoBrowserAssumption DEF Sends, InFlight, ServedInv
      <3>2. InFlight(b)' = InFlight(b) /\ \A p \in InFlight(b) : req'[p] = req[p]
        BY <1>1, <2>3, <3>1, CInvParts DEF Sends, InFlight, Alone
      <3> QED BY <1>0, <2>1, <3>2, TrustStays DEF Kept
    <2> QED BY <2>2, <2>3
  <1>2. ASSUME NEW q \in Requests, Leaves(q), origin' = [origin EXCEPT ![q] = NoBrowser],
               b # origin[q], jar'[b] = jar[b], b \notin trouble
        PROVE  Trusts(b)'
    <2>1. InFlight(b)' = InFlight(b) /\ \A p \in InFlight(b) : req'[p] = req[p]
      BY <1>2, CInvParts, NoBrowserAssumption DEF Leaves, InFlight, Alone
    <2> QED BY <1>0, <1>2, <2>1, TrustStays DEF Leaves, Still, Kept
  <1>3. ASSUME NEW q \in Requests, Deliver(q) PROVE Trusts(b)'
    <2>1. /\ Leaves(q) /\ origin' = [origin EXCEPT ![q] = NoBrowser] /\ b \notin trouble
          /\ jar' = [jar EXCEPT ![origin[q]] = Cookie(jar[origin[q]], req[q])]
          /\ tokens' = tokens
      BY <1>3, CInvParts, RespondShape DEF Deliver, Leaves, Still
    <2>2. CASE b # origin[q]
      BY <1>2, <2>1, <2>2, CInvParts
    <2>3. CASE b = origin[q]
      <3>1. InFlight(b) = {q}
        BY <1>0, <2>1, <2>3 DEF Trusts, InFlight
      <3>2. InFlight(b)' = {}
        BY <2>1, <3>1, CInvParts, NoBrowserAssumption DEF InFlight
      <3>3. Knows(b, q)
        BY <1>0, <2>1, <3>1, TrustsKnows
      <3>4. jar'[b] = Cookie(jar[b], req[q])
        BY <2>1, <2>3, CInvParts
      <3>5. NotConsumed(jar'[b])
        <4>1. CASE req[q].reply = "set"
          BY <2>1, <3>4, <4>1, CInvParts DEF Leaves, Cookie, HandedInv, Handed
        <4>2. CASE req[q].reply = "clear"
          BY <3>4, <4>2, CInvParts, NoValueAssumption DEF Cookie, NotConsumed, CTypeOK, TypeOK
        <4>3. CASE req[q].reply = "keep"
          BY <2>1, <3>3, <3>4, <4>3 DEF Leaves, Knows, KeepsCookie, Cookie
        <4> QED BY <2>1, <3>3, <4>1, <4>2, <4>3 DEF Leaves, Knows
      <3>6. NotConsumed(jar[b])'
        BY <2>1, <3>5 DEF NotConsumed
      <3> QED BY <3>2, <3>6 DEF Trusts
    <2> QED BY <2>2, <2>3
  <1>4. ASSUME NEW q \in Requests, Lose(q) PROVE Trusts(b)'
    <2>1. /\ Leaves(q) /\ origin' = [origin EXCEPT ![q] = NoBrowser] /\ jar' = jar
          /\ b # origin[q] /\ b \notin trouble
      BY <1>4, CInvParts, RespondShape DEF Lose
    <2> QED BY <1>2, <2>1
  <1>5. ASSUME NEW q \in Requests, Fail(q) PROVE Trusts(b)'
    <2>1. /\ Still /\ Alone(q) /\ jar' = jar /\ origin' = origin
          /\ b # origin[q] /\ b \notin trouble
      BY <1>5, CInvParts, FailShape
    <2>2. InFlight(b)' = InFlight(b) /\ \A p \in InFlight(b) : req'[p] = req[p]
      BY <2>1 DEF InFlight, Alone
    <2> QED BY <1>0, <2>1, <2>2, TrustStays DEF Still, Kept
  <1>6. ASSUME NEW q \in Requests, Works(q) PROVE Trusts(b)'
    <2>1. Alone(q) /\ jar' = jar /\ origin' = origin /\ b \notin trouble
      BY <1>6 DEF Works
    <2>2. InFlight(b)' = InFlight(b)
      BY <2>1 DEF InFlight
    <2>3. CASE b # origin[q]
      <3>1. \A p \in InFlight(b) : req'[p] = req[p]
        BY <2>1, <2>3 DEF InFlight, Alone
      <3>2. Kept(jar[b])
        BY <1>6, <2>3, OtherBrowser
      <3> QED BY <1>0, <2>1, <2>2, <3>1, <3>2, TrustStays
    <2>4. CASE b = origin[q]
      <3>1. InFlight(b) = {q}
        BY <1>0, <2>1, <2>4 DEF Trusts, InFlight
      <3>2. Knows(b, q)
        BY <1>0, <2>1, <3>1, TrustsKnows
      <3>3. Knows(b, q)'
        BY <1>6, <2>1, <2>4, <3>2, OwnWork
      <3> QED BY <2>2, <3>1, <3>3 DEF Trusts, Knows
    <2> QED BY <2>3, <2>4
  <1>7. CASE Rests
    <2>1. Kept(jar[b]) /\ jar' = jar /\ req' = req /\ origin' = origin /\ b \notin trouble
      BY <1>7, DeleteKeeps DEF Rests
    <2>2. InFlight(b)' = InFlight(b)
      BY <2>1 DEF InFlight
    <2> QED BY <1>0, <2>1, <2>2, TrustStays
  <1> QED BY <1>1, <1>3, <1>4, <1>5, <1>6, <1>7, CInvParts, StepShape

----------------------------------------------------------------------------
(* No session is left behind.                                              *)

\* A row that can still be exchanged after a step was there before it, just as
\* exchangeable, unless the step stored the token that a request brought along.
LEMMA RowsThatCount ==
    ASSUME CInv, [CNext]_cvars, NEW h \in DOMAIN tokens', ~tokens'[h].is_consumed,
           ~Expired(tokens'[h], now')
    PROVE  \/ h \in DOMAIN tokens /\ ~tokens[h].is_consumed /\ ~Expired(tokens[h], now)
           \/ \E q \in Requests : req'[q].new = h
  <1>0. /\ IInv /\ [Next]_vars /\ Table(tokens) /\ now \in Nat /\ now' \in Nat /\ now =< now'
    BY CInvParts, StepOfSessions, Clock DEF IInv, TypeOK, Table
  <1>1. ASSUME h \in DOMAIN tokens
        PROVE  ~tokens[h].is_consumed /\ ~Expired(tokens[h], now)
    <2>1. ~tokens[h].is_consumed /\ tokens'[h] = tokens[h]
      BY <1>0, <1>1, StepEffect DEF Shrinks, Opens, Rotates, Unconsumed
    <2>2. tokens[h].expires_at \in Nat
      BY <1>0, <1>1 DEF Table, Row
    <2> QED BY <1>0, <2>1, <2>2 DEF Expired
  <1>2. ASSUME h \notin DOMAIN tokens PROVE \E q \in Requests : req'[q].new = h
    <2>1. ASSUME NEW q \in Requests, Works(q) PROVE req'[q].new = h
      BY <1>0, <1>2, <2>1 DEF Works, Proceeds, Writes, Opens, Rotates, AnswersToken, KeepsTokens,
         DeleteRows, Restrict, ConsumeRefreshTokenByHash
    <2>2. ~Kept(h)
      BY <1>2 DEF Kept
    <2>3. ~Rests /\ ~Still
      BY <1>2, <2>2, DeleteKeeps DEF Rests, Still
    <2> QED BY <2>1, <2>3, CInvParts, StepShape, RespondShape, FailShape
         DEF Sends, Leaves, Deliver, Lose
  <1> QED BY <1>1, <1>2

\* Every step keeps exchangeable tokens in reach of a browser without trouble.
LEMMA Held == ASSUME CInv, [CNext]_cvars PROVE TokensAreHeld'
  <1> SUFFICES ASSUME trouble' = {}, NEW h \in DOMAIN tokens', ~tokens'[h].is_consumed,
                      ~Expired(tokens'[h], now')
               PROVE  (\E b \in Browsers : jar'[b] = h) \/ (\E q \in Requests : req'[q].new = h)
    BY DEF TokensAreHeld
  <1>0. trouble = {}
    <2>1. trouble \subseteq trouble'
      BY CInvParts, StepShape, FailShape DEF Sends, Deliver, Lose, Works, Rests
    <2> QED BY <2>1
  <1>1. CASE \E q \in Requests : req'[q].new = h
    BY <1>1
  <1>2. CASE h \in DOMAIN tokens /\ ~tokens[h].is_consumed /\ ~Expired(tokens[h], now)
    <2>0. h \in Minted /\ h # NoHash /\ ~Spent(h)
      BY <1>2, CInvParts, NoValueAssumption DEF IInv, FamilyInv, Minted, Spent, Unconsumed
    <2>1. CASE \E b \in Browsers : jar[b] = h
      <3>1. PICK b \in Browsers : jar[b] = h
        BY <2>1
      <3>2. Trusts(b)
        BY <1>0, CInvParts DEF TrustInv
      <3>3. ASSUME NEW q \in Requests, Deliver(q) PROVE jar'[b] = h
        <4>1. CASE b # origin[q]
          BY <3>1, <3>3, <4>1, CInvParts DEF Deliver
        <4>2. CASE b = origin[q]
          <5>1. req[q].pc = "done" /\ KeepsCookie(req[q])
            BY <2>0, <3>1, <3>2, <3>3, <4>2 DEF Trusts, InFlight, Deliver, Respond
          <5> QED BY <3>1, <3>3, <4>2, <5>1, CInvParts DEF KeepsCookie, Deliver, Cookie
        <4> QED BY <4>1, <4>2
      <3>4. jar'[b] = h
        BY <3>1, <3>3, CInvParts, StepShape, FailShape DEF Sends, Lose, Works, Rests
      <3> QED BY <3>4
    <2>2. CASE \E q \in Requests : req[q].new = h
      <3>1. PICK q \in Requests : req[q].new = h
        BY <2>2
      <3>2. Handed(q)
        BY <2>0, <3>1, CInvParts DEF HandedInv, IInv, PendingInv
      <3>3. CASE req'[q] = req[q]
        BY <3>1, <3>3
      <3>4. CASE Deliver(q)
        <4>1. origin[q] \in Browsers /\ req[q].reply = "set"
          BY <3>2, <3>4, CInvParts DEF Deliver, Respond, ServedInv, Handed
        <4>2. jar'[origin[q]] = h
          BY <3>1, <3>4, <4>1, CInvParts DEF Deliver, Cookie
        <4> QED BY <4>1, <4>2
      <3>5. ~Lose(q) /\ ~Fail(q)
        BY FailShape, CInvParts DEF Lose
      <3>6. CASE Works(q)
        <4>1. req'[q].new = h
          BY <3>1, <3>2, <3>6 DEF Works, Proceeds, Writes, Goes, Handed, AnswersToken
        <4> QED BY <4>1
      <3>7. \A b \in Browsers : ~Sends(b, q)
        BY <3>2 DEF Sends, Handed
      <3>8. ASSUME NEW p \in Requests, p # q, Alone(p) PROVE req'[q] = req[q]
        BY <3>8 DEF Alone
      <3>9. ASSUME NEW p \in Requests, Deliver(p) \/ Lose(p) \/ Fail(p) PROVE Alone(p)
        BY <3>9, CInvParts, RespondShape, FailShape DEF Deliver, Lose, Leaves
      <3>10. CASE Rests
        BY <3>3, <3>10 DEF Rests
      <3>11. ASSUME NEW p \in Requests, p # q,
                    (\E b \in Browsers : Sends(b, p)) \/ Deliver(p) \/ Lose(p) \/ Fail(p) \/ Works(p)
             PROVE  req'[q] = req[q]
        BY <3>8, <3>9, <3>11 DEF Sends, Works
      <3> QED BY <3>3, <3>4, <3>5, <3>6, <3>7, <3>10, <3>11, CInvParts, StepShape
    <2> QED BY <1>0, <1>2, <2>1, <2>2, CInvParts DEF TokensAreHeld
  <1> QED BY <1>1, <1>2, RowsThatCount

----------------------------------------------------------------------------
(* The theorems.                                                           *)

\* The invariant holds when no browser has a cookie.
LEMMA ClientStart == ASSUME CInit PROVE CInv
  <1>0. IInv /\ req = [q \in Requests |-> Idle] /\ DOMAIN tokens = {}
    BY InitInv DEF CInit, Init
  <1>1. CTypeOK /\ TokensAreHeld
    BY <1>0 DEF CInit, CTypeOK, TokensAreHeld, IInv
  <1>2. ServedInv
    BY <1>0 DEF CInit, Init, ServedInv, Idle
  <1>3. HoldersInv
    BY <1>0, NoValueAssumption DEF CInit, HoldersInv, Holds, Idle, Cookies
  <1>4. HandedInv
    BY <1>0 DEF HandedInv, Handed, Pending, Idle
  <1>5. TrustInv
    BY <1>0, NoBrowserAssumption DEF CInit, TrustInv, Trusts, InFlight, NotConsumed
  <1> QED BY <1>0, <1>1, <1>2, <1>3, <1>4, <1>5 DEF CInv, ClientInv

\* Every step keeps the invariant.
LEMMA ClientStep == ASSUME CInv, [CNext]_cvars PROVE CInv'
  <1>1. IInv'
    BY CInvParts, StepOfSessions, NextInv
  <1> QED BY <1>1, ClientTypes, Served, Holders, HandedIsSafe, Trusted, Held DEF CInv, ClientInv

\* What browsers hold, what is on its way to them and what they know of it.
THEOREM ClientInvariance == CSpec => []CInv
  <1>1. CInit => CInv
    BY ClientStart
  <1>2. CInv /\ [CNext]_cvars => CInv'
    BY ClientStep
  <1> QED BY <1>1, <1>2, PTL DEF CSpec

\* The invariant that a run checks.
THEOREM BrowserInvariance == CSpec => []ClientInv
  <1>1. CInv => ClientInv
    BY DEF CInv
  <1> QED BY <1>1, ClientInvariance, PTL

\* Cookies are hashes of tokens and requests belong to browsers.
THEOREM ClientTypeCorrectness == CSpec => []CTypeOK
  <1>1. CInv => CTypeOK
    BY CInvParts
  <1> QED BY <1>1, ClientInvariance, PTL

\* While no browser is in trouble, every session that can go on is somebody's.
THEOREM NoSessionLeftBehind == CSpec => []TokensAreHeld
  <1>1. CInv => TokensAreHeld
    BY CInvParts
  <1> QED BY <1>1, ClientInvariance, PTL

\* The composition restricts Sessions to the requests of honest browsers and adds
\* nothing to what the server does.
THEOREM Composition == CSpec => Spec
  <1>1. CInit => Init
    BY DEF CInit
  <1>2. CInv /\ [CNext]_cvars => [Next]_vars
    BY StepOfSessions, CInvParts
  <1> QED BY <1>1, <1>2, ClientInvariance, PTL DEF CSpec, Spec

\* Rotation spends a token for these browsers too.
THEOREM ClientRotation == CSpec => []OneTokenPerSession
  BY Composition, Rotation, PTL

\* No session of theirs is revived.
THEOREM ClientNoRevival == CSpec => EndedSessionStaysEnded
  BY Composition, NoRevival, PTL

\* No second refresh or retry of theirs restarts a grace period.
THEOREM ClientGrace == CSpec => GraceRunsOnce
  BY Composition, Grace, PTL

\* The theft alarm of a browser without trouble means that its row was deleted
\* under its refresh: its cookie cannot have been consumed by anybody else.
THEOREM AlarmCause == CSpec => AlarmHasCause
  <1> DEFINE A == \A q \in Requests :
                     req[q].pc \in {"refresh", "replace"} /\ req'[q].pc = "reuse" =>
                        origin[q] \in trouble \/ req[q].hash \notin DOMAIN tokens
  <1>1. ASSUME CInv, [CNext]_cvars PROVE A
    <2> SUFFICES ASSUME NEW q \in Requests, req[q].pc \in {"refresh", "replace"},
                        req'[q].pc = "reuse", origin[q] \notin trouble
                 PROVE  req[q].hash \notin DOMAIN tokens
      OBVIOUS
    <2>1. Works(q)
      <3>1. ASSUME NEW p \in Requests, Alone(p) PROVE p = q
        BY <3>1 DEF Alone
      <3>2. ~Leaves(q) /\ ~Rests /\ \A b \in Browsers : ~Sends(b, q)
        BY DEF Leaves, Rests, Sends
      <3>3. ~Fail(q)
        BY <1>1, CInvParts, FailShape DEF Answers
      <3> QED BY <1>1, <3>1, <3>2, <3>3, CInvParts, StepShape, RespondShape, FailShape
           DEF Sends, Leaves, Deliver, Lose, Works
    <2>2. origin[q] \in Browsers \ trouble
      BY <1>1, CInvParts DEF ServedInv
    <2>3. NotConsumed(req[q].hash)
      BY <1>1, <2>2, CInvParts DEF TrustInv, Trusts, InFlight, KeepsCookie
    <2>4. ~Unconsumed(tokens, req[q].hash)
      BY <2>1, <2>3 DEF Works, Proceeds, Writes, Goes, Answers, AnswersToken
    <2> QED BY <2>3, <2>4 DEF NotConsumed, Unconsumed
  <1>2. CInv /\ [CNext]_cvars => [A]_cvars
    BY <1>1
  <1> QED BY <1>2, ClientInvariance, PTL DEF CSpec, AlarmHasCause

\* An answer that arrives late or out of order brings the only token of its session
\* that can be exchanged, so the cookie it replaces is a spent one.
THEOREM CookieProgress == CSpec => CookieNeverGoesBack
  <1> DEFINE A == \A b \in Browsers :
                     /\ jar[b] \in Hashes /\ jar'[b] \in Hashes /\ jar'[b] # jar[b]
                     /\ family[jar[b]] = family[jar'[b]]
                     => ~Unconsumed(tokens, jar[b])
  <1>1. ASSUME CInv, [CNext]_cvars PROVE A
    <2> SUFFICES ASSUME NEW b \in Browsers, jar[b] \in Hashes, jar'[b] \in Hashes,
                        jar'[b] # jar[b], family[jar[b]] = family[jar'[b]]
                 PROVE  ~Unconsumed(tokens, jar[b])
      OBVIOUS
    <2>1. PICK q \in Requests : Deliver(q)
      BY <1>1, CInvParts, StepShape, FailShape DEF Sends, Lose, Works, Rests
    <2>2. jar'[b] = req[q].new /\ Handed(q)
      BY <1>1, <2>1, CInvParts, NoValueAssumption DEF Deliver, Respond, Cookie, Handed
    <2>3. Live(family[jar[b]]) \subseteq {jar'[b]}
      BY <1>1, <2>2, CInvParts DEF HandedInv
    <2> QED BY <2>3 DEF Live, Unconsumed
  <1>2. CInv /\ [CNext]_cvars => [A]_cvars
    BY <1>1
  <1> QED BY <1>2, ClientInvariance, PTL DEF CSpec, CookieNeverGoesBack

=============================================================================
