------------------------------ MODULE Gateway ------------------------------
(***************************************************************************)
(* The middleware every request passes before its handler                  *)
(* (cmd/api/middleware.go, in the order of mount in main.go and the groups *)
(* of routes.go):                                                          *)
(*                                                                         *)
(*   RealIP                                         on every request       *)
(*   CheckXHeaders, CheckOrigin, ParseAccessToken   on every request       *)
(*   RateLimit                                      with the group's rule  *)
(*   RequireAuthentication or RequireRole           in some groups         *)
(*                                                                         *)
(* All but the limiter look at nothing but the request, so the first four  *)
(* are one step, and the last belongs to that of the limiter, when Redis   *)
(* has answered.  Request ids, logs, languages, security headers and ETags *)
(* have no influence on where a request goes or whose budget it spends,    *)
(* and are left out.  So are the preflights that CORS answers itself.  A   *)
(* panic that Recoverer catches ends in an answer like any other error.    *)
(***************************************************************************)
EXTENDS RateLimit

CONSTANTS
    Slots,          \* slots for concurrent requests
    Accounts,       \* users with a valid access token
    Admins,         \* those whose token carries the admin role
    Addresses,      \* IP addresses a proxy header may name
    Peers,          \* remote ends of connections, ip:port
    Routes,         \* the kinds of request that arrive
    CheckHeaders, CheckOrigin,   \* cfg.Security
    MaxRequests,    \* bound on the number of requests
    None            \* no cookie, no claims, no error

\* A UUID is not an IP address, and neither is ip:port: RealIP drops a header that
\* does not parse as an IP address.
ASSUME CallersAssumption ==
    /\ Accounts \cup Addresses \cup Peers \subseteq Callers
    /\ Accounts \cap (Addresses \cup Peers) = {} /\ Addresses \cap Peers = {}
    /\ Admins \subseteq Accounts
ASSUME SecurityAssumption == CheckHeaders \in BOOLEAN /\ CheckOrigin \in BOOLEAN
ASSUME RequestsAssumption == MaxRequests \in Nat
ASSUME NoneAssumption ==
    /\ None \notin Callers /\ "dead" \notin Callers
    /\ None \notin {"dead", "no_security_header", "invalid_origin", "access_token_expired",
                   "no_claims", "no_permission"}

VARIABLES
    requests,       \* requests[q]: the request in slot q
    arrived         \* number of requests so far

gvars == <<requests, arrived>>

\* The groups of routes.go: the rule of the group, whether the method is safe,
\* what the group requires, and whether ParseAccessToken lets a dead token pass.
Group(rule, safe, requires, excepted) ==
    [rule |-> rule, safe |-> safe, requires |-> requires, excepted |-> excepted]

RouteTable ==
    [provider |-> Group("auth", TRUE, "nothing", TRUE),
     callback |-> Group("auth", TRUE, "nothing", TRUE),
     logout   |-> Group("auth", FALSE, "nothing", TRUE),
     others   |-> Group("auth", FALSE, "claims", FALSE),
     sessions |-> Group("auth", TRUE, "claims", FALSE),
     revoke   |-> Group("auth", FALSE, "claims", FALSE),
     refresh  |-> Group("refresh", FALSE, "nothing", TRUE),
     get      |-> Group("get", TRUE, "nothing", FALSE),
     modify   |-> Group("modify", FALSE, "claims", FALSE),
     admin    |-> Group("admin", FALSE, "role", FALSE)]

ASSUME RoutesAssumption ==
    Routes \subseteq DOMAIN RouteTable /\ \A route \in Routes : RouteTable[route].rule \in Rules

\* A request as it comes in: the access token in its cookie, whether
\* X-Requested-With is XMLHttpRequest and whether Origin (or Referer) is allowed.
Sent == [route : Routes, cookie : Accounts \cup {"dead", None}, xhr : BOOLEAN,
         origin : BOOLEAN]

Request == [pc : {"idle", "connected", "screened", "handler"},
            sent : Sent \cup {None}, remoteAddr : Addresses \cup Peers \cup {None},
            claims : Accounts \cup {None}]

NoRequest == [pc |-> "idle", sent |-> None, remoteAddr |-> None, claims |-> None]

GInit ==
    /\ RInit
    /\ requests = [q \in Slots |-> NoRequest]
    /\ arrived = 0

----------------------------------------------------------------------------
\* The net/http server accepts a connection or reads the next request of one (slots
\* are interchangeable, one choice will do); the client may also go away.
Connect(q) ==
    /\ requests[q].pc = "idle"
    /\ q = CHOOSE p \in Slots : requests[p].pc = "idle"
    /\ arrived < MaxRequests
    /\ arrived' = arrived + 1
    /\ requests' = [requests EXCEPT ![q] = [NoRequest EXCEPT !.pc = "connected"]]
    /\ UNCHANGED rvars

Disconnect(q) ==
    /\ requests[q].pc = "connected"
    /\ requests' = [requests EXCEPT ![q] = NoRequest]
    /\ UNCHANGED <<arrived, rvars>>

\* The checks that need the request only.  A dead token is an error, and its
\* cookie is unset, except where the client comes to replace or to drop it.
Rejection(sent) ==
    LET route == RouteTable[sent.route] IN
    IF CheckHeaders /\ ~route.safe /\ ~sent.xhr THEN "no_security_header"
    ELSE IF CheckOrigin /\ ~route.safe /\ ~sent.origin THEN "invalid_origin"
    ELSE IF sent.cookie = "dead" /\ ~route.excepted THEN "access_token_expired"
    ELSE None

\* A plausible slip: the error of ParseAccess is ignored.
ClaimsOfAnyCookie(sent) == sent.cookie

Claims(sent) == IF sent.cookie \in Accounts THEN sent.cookie ELSE None

\* r.RemoteAddr is the remote end of the connection, until RealIP puts the IP
\* address there that True-Client-IP, X-Real-IP or X-Forwarded-For names.
RealIP(peer, named) == IF named = None THEN peer ELSE named

\* Two connections have different remote ends.
Arrive(q) ==
    /\ requests[q].pc = "connected"
    /\ \E sent \in Sent, named \in Addresses \cup {None},
          peer \in Peers \ {requests[p].remoteAddr : p \in Slots} :
          requests' = [requests EXCEPT ![q] =
              IF Rejection(sent) # None THEN NoRequest
              ELSE [@ EXCEPT !.pc = "screened", !.sent = sent,
                             !.remoteAddr = RealIP(peer, named), !.claims = Claims(sent)]]
    /\ UNCHANGED <<arrived, rvars>>

\* A plausible slip: the limiter does not know the claims yet.
IdentifierIsAddress(request) == request.remoteAddr

\* The user id if there are claims, otherwise the remote address.
Identifier(request) == IF request.claims = None THEN request.remoteAddr ELSE request.claims

\* A plausible slip: RequireRole looks for claims and forgets the role.
DeniedToGuests(request) ==
    IF RouteTable[request.sent.route].requires # "nothing" /\ request.claims = None
    THEN "no_claims" ELSE None

\* RequireAuthentication and RequireRole.
Denied(request) ==
    LET requires == RouteTable[request.sent.route].requires IN
    CASE requires # "nothing" /\ request.claims = None -> "no_claims"
      [] requires = "role" /\ request.claims \in Accounts \ Admins -> "no_permission"
      [] OTHER -> None

\* The middleware RateLimit: let through to the checks of the group, 429, or 500
\* because Redis failed.  Redis may have run the script although its reply was
\* lost, and its client tries again before it gives up: a request can be charged
\* more than once.
Allow(q) ==
    LET k == <<RouteTable[requests[q].sent.route].rule, Identifier(requests[q])>> IN
    /\ requests[q].pc = "screened"
    /\ \/ /\ Admit(k)
          /\ requests' = [requests EXCEPT ![q] =
                 IF Denied(@) = None THEN [@ EXCEPT !.pc = "handler"] ELSE NoRequest]
       \/ Refuses(k) /\ requests' = [requests EXCEPT ![q] = NoRequest] /\ UNCHANGED rvars
       \/ Admit(k) /\ UNCHANGED requests
       \/ requests' = [requests EXCEPT ![q] = NoRequest] /\ UNCHANGED rvars
    /\ UNCHANGED arrived

\* The handler returns and its response is written (middleware.Timeout cancels its
\* context, no more).
Handle(q) ==
    /\ requests[q].pc = "handler"
    /\ requests' = [requests EXCEPT ![q] = NoRequest]
    /\ UNCHANGED <<arrived, rvars>>

----------------------------------------------------------------------------
\* A handler runs only for a request that may have it: what its group requires is
\* met by a token the request carries, and if it may change something it comes
\* from the frontend.
OnlyEntitledAreHandled ==
    \A q \in Slots : requests[q].pc = "handler" =>
       LET sent == requests[q].sent
           route == RouteTable[sent.route] IN
       /\ requests[q].claims \in {sent.cookie, None}
       /\ route.requires = "claims" => sent.cookie \in Accounts
       /\ route.requires = "role" => sent.cookie \in Admins
       /\ ~route.safe => (CheckHeaders => sent.xhr) /\ (CheckOrigin => sent.origin)

\* The budget of a user is spent only by requests that carry a live token of that
\* user and, where they may change something, come from the frontend: not by a
\* dead token, and not by what a header names.  A request with a live token leaves
\* all other budgets alone; guests spend that of the address their header names,
\* or else that of their connection.
UserBudgetsAreOwn ==
    [][\A k \in Key : Len(admitted'[k]) > Len(admitted[k]) =>
          \E q \in Slots :
             LET sent == requests[q].sent
                 route == RouteTable[sent.route] IN
             /\ requests[q].pc = "screened"
             /\ route.rule = k[1]
             /\ k[2] = IF sent.cookie \in Accounts THEN sent.cookie ELSE requests[q].remoteAddr
             /\ k[2] \in Accounts <=> sent.cookie \in Accounts
             /\ ~route.safe => (CheckHeaders => sent.xhr) /\ (CheckOrigin => sent.origin)]_<<rvars, gvars>>

=============================================================================
