--------------------------- MODULE RefreshTokens ---------------------------
(***************************************************************************)
(* The refresh_tokens table and the queries the API runs on it             *)
(* (internal/platform/database/sqlc/tokens.sql.go), as operators on a      *)
(* table value.  A table T is a function whose domain is the set of token  *)
(* hashes that have a row: token_hash is UNIQUE, so a hash also stands for *)
(* the row's id.  The columns ip, ua, location and created_at are only     *)
(* ever displayed and are left out.                                        *)
(*                                                                         *)
(* Times are natural numbers.  updated_at is NULL until the row is         *)
(* consumed and only read on consumed rows; NULL is written 0.             *)
(***************************************************************************)
EXTENDS Naturals, Functions

Row(Users) ==
    [user_id : Users, is_consumed : BOOLEAN, updated_at : Nat, expires_at : Nat]

----------------------------------------------------------------------------
(* Predicates the WHERE clauses and the service read off one row.          *)

\* expires_at < NOW(), and ExpiresAt.Before(time.Now()) in the service.
Expired(row, t) == row.expires_at < t

\* The second disjunct of the cleanup query's WHERE clause.
LongConsumed(row, t, retention) ==
    row.is_consumed /\ row.updated_at + retention < t

\* A row a refresh would exchange: it exists and is not consumed.
Unconsumed(T, h) == h \in DOMAIN T /\ ~T[h].is_consumed

UserRows(T, u) == {h \in DOMAIN T : T[h].user_id = u}

----------------------------------------------------------------------------
(* Queries.                                                                *)

\* A plausible slip: two parameters of the INSERT are swapped.
CreateSwapped(T, h, u, expires) ==
    [x \in DOMAIN T \cup {h} |->
        IF x = h THEN [user_id |-> h, is_consumed |-> FALSE,
                       updated_at |-> 0, expires_at |-> expires]
                 ELSE T[x]]

CreateRefreshToken(T, h, u, expires) ==
    [x \in DOMAIN T \cup {h} |->
        IF x = h THEN [user_id |-> u, is_consumed |-> FALSE,
                       updated_at |-> 0, expires_at |-> expires]
                 ELSE T[x]]

\* A plausible slip: the WHERE clause loses "AND is_consumed = false".
ConsumeAgain(T, h, t) ==
    IF h \in DOMAIN T
    THEN [T EXCEPT ![h] = [@ EXCEPT !.is_consumed = TRUE, !.updated_at = t]]
    ELSE T

\* UPDATE ... WHERE token_hash = h AND is_consumed = false.  It affects one
\* row exactly when Unconsumed(T, h).
ConsumeRefreshTokenByHash(T, h, t) ==
    IF Unconsumed(T, h)
    THEN [T EXCEPT ![h] = [@ EXCEPT !.is_consumed = TRUE, !.updated_at = t]]
    ELSE T

\* The rows of DELETE ... WHERE user_id = u.
AllRefreshTokensForUser(T, u) == UserRows(T, u)

\* The rows of DELETE ... WHERE user_id = u AND token_hash != h.
OtherRefreshTokensForUser(T, u, h) == UserRows(T, u) \ {h}

\* A plausible slip: the WHERE clause loses "AND user_id = u".
AnyRefreshTokenByID(T, u, h) == DOMAIN T \cap {h}

\* The rows of DELETE ... WHERE id = h AND user_id = u.
RefreshTokenByID(T, u, h) == UserRows(T, u) \cap {h}

\* The rows of GET /auth/sessions.
GetActiveRefreshTokensForUser(T, u, t) ==
    {h \in UserRows(T, u) : ~T[h].is_consumed /\ T[h].expires_at > t}

\* The rows of the cleanup worker's DELETE.
CleanupRefreshTokens(T, t, retention) ==
    {h \in DOMAIN T : Expired(T[h], t) \/ LongConsumed(T[h], t, retention)}

\* What a DELETE of the rows in S leaves.
DeleteRows(T, S) == Restrict(T, DOMAIN T \ S)

=============================================================================
