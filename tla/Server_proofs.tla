--------------------------- MODULE Server_proofs ---------------------------
(***************************************************************************)
(* Proofs about Server and its Gateway, for any number of slots, accounts, *)
(* addresses and connections, any choice of routes and any limits.         *)
(*                                                                         *)
(* The invariant follows a request through the middleware: what each stage *)
(* has established about the request that was sent still holds when the    *)
(* next one looks at it.  With it, every step of the server is a step of   *)
(* the rate limiter or none at all, so what RateLimit_proofs shows of the  *)
(* limiter alone holds in the server.                                      *)
(***************************************************************************)
EXTENDS Server, RateLimit_proofs

\* A request that has passed the stage of its pc.
Passed(q) ==
    /\ requests[q].pc \in {"screened", "handler"} =>
          /\ requests[q].sent \in Sent
          /\ Rejection(requests[q].sent) = None
          /\ requests[q].claims = Claims(requests[q].sent)
          /\ requests[q].remoteAddr \in Addresses \cup Peers
    /\ requests[q].pc = "handler" => Denied(requests[q]) = None

GIInv == requests \in [Slots -> Request] /\ \A q \in Slots : Passed(q)

\* Only the requests in the middleware change, or nothing does.
GStep == \E q \in Slots : Connect(q) \/ Disconnect(q) \/ Arrive(q) \/ Allow(q) \/ Handle(q)

----------------------------------------------------------------------------
\* A free slot is well typed.
LEMMA NoRequestType == NoRequest \in Request /\ NoRequest.pc = "idle"
BY DEF NoRequest, Request

\* Changing one request leaves what the others have passed.
LEMMA OneRequest ==
    ASSUME GIInv, NEW q \in Slots, NEW r \in Request, requests' = [requests EXCEPT ![q] = r],
           r.pc \in {"screened", "handler"} =>
              /\ r.sent \in Sent /\ Rejection(r.sent) = None /\ r.claims = Claims(r.sent)
              /\ r.remoteAddr \in Addresses \cup Peers,
           r.pc = "handler" => Denied(r) = None
    PROVE  GIInv'
<1>1. requests' \in [Slots -> Request] /\ requests'[q] = r
      /\ \A p \in Slots \ {q} : requests'[p] = requests[p]
  BY DEF GIInv
<1>2. Passed(q)'
  BY <1>1 DEF Passed, Rejection, Claims, Denied
<1>3. ASSUME NEW p \in Slots \ {q} PROVE Passed(p)'
  BY <1>1 DEF GIInv, Passed, Rejection, Claims, Denied
<1>. QED
  BY <1>1, <1>2, <1>3 DEF GIInv

\* Claims name an account, if the access token is live.
LEMMA ClaimsType == \A sent \in Sent : Claims(sent) \in Accounts \cup {None}
BY DEF Claims

\* Every step of the middleware keeps the invariant.
LEMMA GStepInvariant == GIInv /\ GStep => GIInv'
<1>. SUFFICES ASSUME GIInv, NEW q \in Slots,
                     Connect(q) \/ Disconnect(q) \/ Arrive(q) \/ Allow(q) \/ Handle(q)
              PROVE  GIInv'
  BY DEF GStep
<1>0. requests[q] \in Request /\ Passed(q)
  BY DEF GIInv
<1>1. CASE Connect(q)
  <2>1. [NoRequest EXCEPT !.pc = "connected"] \in Request
    BY DEF NoRequest, Request
  <2>2. [NoRequest EXCEPT !.pc = "connected"].pc = "connected"
    BY DEF NoRequest
  <2>. QED
    BY <1>1, <2>1, <2>2, OneRequest DEF Connect
<1>2. CASE Disconnect(q)
  BY <1>2, NoRequestType, OneRequest DEF Disconnect
<1>3. CASE Arrive(q)
  <2>1. PICK sent \in Sent, named \in Addresses \cup {None}, peer \in Peers :
           requests' = [requests EXCEPT ![q] =
              IF Rejection(sent) # None THEN NoRequest
              ELSE [@ EXCEPT !.pc = "screened", !.sent = sent,
                             !.remoteAddr = RealIP(peer, named), !.claims = Claims(sent)]]
    BY <1>3 DEF Arrive
  <2>2. CASE Rejection(sent) # None
    BY <2>1, <2>2, NoRequestType, OneRequest
  <2>3. CASE Rejection(sent) = None
    <3>. DEFINE r == [requests[q] EXCEPT !.pc = "screened", !.sent = sent,
                         !.remoteAddr = RealIP(peer, named), !.claims = Claims(sent)]
    <3>0. RealIP(peer, named) \in Addresses \cup Peers
      BY DEF RealIP
    <3>1. /\ r \in Request /\ r.pc = "screened" /\ r.sent = sent /\ r.claims = Claims(sent)
          /\ r.remoteAddr = RealIP(peer, named)
      BY <1>0, <3>0, ClaimsType DEF Request
    <3>2. requests' = [requests EXCEPT ![q] = r]
      BY <2>1, <2>3
    <3>. HIDE DEF r
    <3>. QED
      BY <2>3, <3>0, <3>1, <3>2, OneRequest
  <2>. QED
    BY <2>2, <2>3
<1>4. CASE Allow(q)
  <2>1. CASE requests' = [requests EXCEPT ![q] = NoRequest]
    BY <2>1, NoRequestType, OneRequest
  <2>2. CASE requests' = [requests EXCEPT ![q] =
                 IF Denied(@) = None THEN [@ EXCEPT !.pc = "handler"] ELSE NoRequest]
    <3>1. CASE Denied(requests[q]) # None
      BY <2>1, <2>2, <3>1
    <3>2. CASE Denied(requests[q]) = None
      <4>. DEFINE r == [requests[q] EXCEPT !.pc = "handler"]
      <4>1. /\ r \in Request /\ r.pc = "handler" /\ r.sent = requests[q].sent
            /\ r.claims = requests[q].claims /\ r.remoteAddr = requests[q].remoteAddr
        BY <1>0 DEF Request
      <4>2. requests[q].pc = "screened" /\ requests' = [requests EXCEPT ![q] = r]
        BY <1>4, <2>2, <3>2 DEF Allow
      <4>. HIDE DEF r
      <4>3. Denied(r) = None
        BY <3>2, <4>1 DEF Denied
      <4>. QED
        BY <1>0, <4>1, <4>2, <4>3, OneRequest DEF Passed
    <3>. QED
      BY <3>1, <3>2
  <2>3. CASE UNCHANGED requests
    BY <2>3 DEF GIInv, Passed, Rejection, Claims, Denied
  <2>. QED
    BY <1>4, <2>1, <2>2, <2>3 DEF Allow
<1>5. CASE Handle(q)
  BY <1>5, NoRequestType, OneRequest DEF Handle
<1>. QED
  BY <1>1, <1>2, <1>3, <1>4, <1>5

\* An exchange over HTTP is a step of the middleware.
LEMMA GStepOfServer == Exchange \/ HandleRequest => GStep
BY DEF Exchange, HandleRequest, GStep

\* What a step of the server does to requests and counters.
LEMMA StepOfServer ==
    ASSUME [SNext]_allvars
    PROVE  \/ GStep
           \/ RTick /\ requests' = requests
           \/ UNCHANGED rvars /\ requests' = requests
           \/ UNCHANGED rvars /\ requests' = [q \in Slots |-> NoRequest]
<1>1. CASE UNCHANGED allvars
  BY <1>1 DEF allvars, gvars
<1>2. CASE Exchange \/ HandleRequest
  BY <1>2, GStepOfServer
<1>3. CASE FinishJob \/ StartCleanup \/ EndCleanup \/ StopWorker \/ Signal
           \/ ShutdownReturns \/ ClosePool \/ Return
  BY <1>3 DEF FinishJob, StartCleanup, EndCleanup, StopWorker, Signal, ShutdownReturns, ClosePool,
              Return, gvars
<1>4. CASE ListenFails \/ ShutdownTimesOut
  BY <1>4 DEF ListenFails, ShutdownTimesOut, Abort
<1>5. CASE RTick /\ UNCHANGED <<gvars, svars>>
  BY <1>5 DEF gvars
<1>. QED
  BY <1>1, <1>2, <1>3, <1>4, <1>5 DEF SNext

\* What the middleware has established about a request holds while it is served.
THEOREM RequestInvariance == SSpec => []GIInv
<1>1. SInit => GIInv
  BY NoRequestType DEF SInit, GInit, GIInv, Passed
<1>2. GIInv /\ [SNext]_allvars => GIInv'
  <2>. SUFFICES ASSUME GIInv, [SNext]_allvars PROVE GIInv'
    OBVIOUS
  <2>1. CASE GStep
    BY <2>1, GStepInvariant
  <2>2. CASE requests' = requests
    BY <2>2 DEF GIInv, Passed, Rejection, Claims, Denied
  <2>3. CASE requests' = [q \in Slots |-> NoRequest]
    BY <2>3, NoRequestType DEF GIInv, Passed
  <2>. QED
    BY <2>1, <2>2, <2>3, StepOfServer
<1>. QED
  BY <1>1, <1>2, PTL DEF SSpec

----------------------------------------------------------------------------
(* The limiter in the server.                                              *)

\* The counter a request is charged to.
Charged(q) == <<RouteTable[requests[q].sent.route].rule, Identifier(requests[q])>>

\* A screened request is charged to a counter there is.
LEMMA ChargedIsKey ==
    ASSUME GIInv, NEW q \in Slots, requests[q].pc = "screened" PROVE Charged(q) \in Key
<1>1. requests[q] \in Request /\ requests[q].sent \in Sent
  BY DEF GIInv, Passed
<1>2. RouteTable[requests[q].sent.route].rule \in Rules
  BY <1>1, RoutesAssumption DEF Sent
<1>3. Identifier(requests[q]) \in Callers
  <2>1. requests[q].remoteAddr \in Addresses \cup Peers /\ requests[q].claims \in Accounts \cup {None}
    BY <1>1 DEF GIInv, Passed, Request
  <2>. QED
    BY <2>1, CallersAssumption DEF Identifier
<1>. QED
  BY <1>2, <1>3 DEF Charged, Key

\* Every step of the server is a step of the limiter, or leaves it alone.
LEMMA StepOfLimiter ==
    ASSUME GIInv, [SNext]_allvars
    PROVE  \/ UNCHANGED rvars
           \/ RTick
           \/ \E q \in Slots : /\ requests[q].pc = "screened"
                              /\ Charged(q) \in Key /\ Admit(Charged(q))
<1>1. ASSUME NEW q \in Slots, Allow(q)
      PROVE  \/ UNCHANGED rvars
             \/ requests[q].pc = "screened" /\ Charged(q) \in Key /\ Admit(Charged(q))
  <2>1. requests[q].pc = "screened" /\ Charged(q) \in Key
    BY <1>1, ChargedIsKey DEF Allow
  <2>. QED
    BY <1>1, <2>1 DEF Allow, Charged
<1>2. CASE GStep
  BY <1>1, <1>2 DEF GStep, Connect, Disconnect, Arrive, Handle
<1>. QED
  BY <1>2, StepOfServer

\* The server implements the limiter: whatever else it does, each of its steps is
\* one of RateLimit or a stutter (the middleware RateLimit and its place in the
\* chain).
THEOREM LimiterInServer == SSpec => RSpec
<1>1. SInit => RInit
  BY DEF SInit, GInit
<1>2. GIInv /\ [SNext]_allvars => [RNext]_rvars
  BY StepOfLimiter DEF RNext
<1>. QED
  BY <1>1, <1>2, RequestInvariance, PTL DEF SSpec, RSpec

\* No identifier gets more than twice its limit into one window, whatever the other
\* requests, the background jobs and the shutdown do.
THEOREM ServerTwiceTheLimit == SSpec => []AtMostTwiceTheLimit
BY LimiterInServer, TwiceTheLimit, PTL

\* A 429 is never due to what was charged to other identifiers, or more than a
\* window ago.
THEOREM ServerRefusalIsEarned == SSpec => []RefusedOnlyWhenSpent
BY LimiterInServer, RefusalIsEarned, PTL

----------------------------------------------------------------------------
(* Who is served, and who pays.                                            *)

\* What a request that was not rejected is known to be.
LEMMA Admissible ==
    ASSUME NEW sent \in Sent, Rejection(sent) = None
    PROVE  ~RouteTable[sent.route].safe => (CheckHeaders => sent.xhr) /\ (CheckOrigin => sent.origin)
BY NoneAssumption DEF Rejection

\* No handler runs for a request that does not meet what its group of routes
\* requires.
THEOREM Entitlement == SSpec => []OnlyEntitledAreHandled
<1>1. GIInv => OnlyEntitledAreHandled
  <2>. SUFFICES ASSUME GIInv, NEW q \in Slots, requests[q].pc = "handler"
                PROVE  LET sent == requests[q].sent
                           route == RouteTable[sent.route] IN
                       /\ requests[q].claims \in {sent.cookie, None}
                       /\ route.requires = "claims" => sent.cookie \in Accounts
                       /\ route.requires = "role" => sent.cookie \in Admins
                       /\ ~route.safe => (CheckHeaders => sent.xhr) /\ (CheckOrigin => sent.origin)
    BY DEF OnlyEntitledAreHandled
  <2>. DEFINE sent == requests[q].sent
              route == RouteTable[sent.route]
  <2>1. /\ sent \in Sent /\ Rejection(sent) = None
        /\ requests[q].claims = Claims(sent) /\ Denied(requests[q]) = None
    BY DEF GIInv, Passed
  <2>2. requests[q].claims = IF sent.cookie \in Accounts THEN sent.cookie ELSE None
    BY <2>1 DEF Claims
  <2>3. route.requires # "nothing" => requests[q].claims # None
    BY <2>1, NoneAssumption DEF Denied
  <2>4. route.requires = "role" => requests[q].claims \notin Accounts \ Admins
    BY <2>1, <2>3, NoneAssumption DEF Denied
  <2>5. ~route.safe => (CheckHeaders => sent.xhr) /\ (CheckOrigin => sent.origin)
    BY <2>1, Admissible
  <2>. QED
    BY <2>2, <2>3, <2>4, <2>5
<1>. QED
  BY <1>1, RequestInvariance, PTL

\* An admission is charged to the user of the live token its request carries and to
\* no other user, whatever address the request names; without a live token it is
\* charged to no user (RateLimit after RealIP and ParseAccessToken).
THEOREM UserBudgets == SSpec => UserBudgetsAreOwn
<1>. DEFINE Paid(k) ==
       \E q \in Slots :
          LET sent == requests[q].sent
              route == RouteTable[sent.route] IN
          /\ requests[q].pc = "screened"
          /\ route.rule = k[1]
          /\ k[2] = IF sent.cookie \in Accounts THEN sent.cookie ELSE requests[q].remoteAddr
          /\ k[2] \in Accounts <=> sent.cookie \in Accounts
          /\ ~route.safe => (CheckHeaders => sent.xhr) /\ (CheckOrigin => sent.origin)
<1>1. ASSUME GIInv, RIInv, [SNext]_allvars, NEW k \in Key, Len(admitted'[k]) > Len(admitted[k])
      PROVE  Paid(k)
  <2>1. admitted'[k] # admitted[k]
    BY <1>1, KeyTypes DEF RIInv
  <2>2. ~UNCHANGED rvars /\ ~RTick
    BY <2>1 DEF rvars, RTick
  <2>3. PICK q \in Slots : requests[q].pc = "screened" /\ Charged(q) \in Key /\ Admit(Charged(q))
    BY <1>1, <2>2, StepOfLimiter
  <2>4. k = Charged(q)
    BY <1>1, <2>1, <2>3 DEF Admit, RIInv, RTypeOK
  <2>. DEFINE sent == requests[q].sent
              route == RouteTable[sent.route]
  <2>5. /\ sent \in Sent /\ Rejection(sent) = None /\ requests[q].claims = Claims(sent)
        /\ requests[q].remoteAddr \in Addresses \cup Peers
    BY <1>1, <2>3 DEF GIInv, Passed
  <2>6. route.rule = k[1] /\ k[2] = Identifier(requests[q])
    BY <2>4 DEF Charged
  <2>7. Identifier(requests[q]) =
           IF sent.cookie \in Accounts THEN sent.cookie ELSE requests[q].remoteAddr
    BY <2>5, NoneAssumption, CallersAssumption DEF Identifier, Claims
  <2>8. k[2] \in Accounts <=> sent.cookie \in Accounts
    BY <2>5, <2>6, <2>7, CallersAssumption
  <2>9. ~route.safe => (CheckHeaders => sent.xhr) /\ (CheckOrigin => sent.origin)
    BY <2>5, Admissible
  <2>. QED
    BY <2>3, <2>6, <2>7, <2>8, <2>9
<1>2. GIInv /\ RIInv /\ [SNext]_allvars =>
         [\A k \in Key : Len(admitted'[k]) > Len(admitted[k]) => Paid(k)]_<<rvars, gvars>>
  BY <1>1
<1>. QED
  BY <1>2, RequestInvariance, LimiterInServer, RateInvariance, PTL DEF SSpec, UserBudgetsAreOwn

----------------------------------------------------------------------------
(* The end of the process.                                                 *)

PhaseType ==
    /\ arrived \in 0 .. MaxRequests
    /\ phase \in {"running", "draining", "closing", "closed", "exited"}
    /\ pool \in {"open", "closing", "closed"} /\ redis \in {"open", "closed"}
    /\ cleaner \in {"waiting", "cleaning", "stopped"} /\ lost \in BOOLEAN
    /\ jobs \in 0 .. MaxJobs
    /\ code \in {0, 1, None}

\* Nothing is closed while requests may be under way, and nothing is under way
\* once the closing has begun.
Orderly ==
    /\ phase \in {"running", "draining"} => pool = "open" /\ redis = "open"
    /\ phase \in {"closing", "closed", "exited"} => Active = {}
    /\ redis = "closed" => cleaner # "cleaning" /\ pool = "closed"

\* The middleware keeps the bound on the number of requests.
LEMMA GStepArrivals ==
    ASSUME arrived \in 0 .. MaxRequests, GStep PROVE arrived' \in 0 .. MaxRequests
<1>1. arrived' = arrived \/ (arrived < MaxRequests /\ arrived' = arrived + 1)
  BY DEF GStep, Connect, Disconnect, Arrive, Allow, Handle
<1>. QED
  BY <1>1, RequestsAssumption

\* The types of the phases hold at the start.
LEMMA PhaseTypeInit == SInit => PhaseType
<1>. SUFFICES ASSUME SInit PROVE PhaseType
  OBVIOUS
<1>1. jobs \in 0 .. MaxJobs /\ arrived \in 0 .. MaxRequests
  BY JobsAssumption, RequestsAssumption DEF SInit, GInit
<1>2. lost \in BOOLEAN
  BY DEF SInit
<1>. QED
  BY <1>1, <1>2 DEF SInit, PhaseType

\* Every step keeps the types of the phases.
LEMMA PhaseTypeStep == PhaseType /\ [SNext]_allvars => PhaseType'
<1>. SUFFICES ASSUME PhaseType, [SNext]_allvars PROVE PhaseType'
  OBVIOUS
<1>1. CASE UNCHANGED allvars
  BY <1>1 DEF allvars, gvars, svars, PhaseType
<1>2. CASE Exchange
  BY <1>2, GStepOfServer, GStepArrivals DEF Exchange, svars, PhaseType
<1>3. CASE HandleRequest
  <2>1. jobs' \in 0 .. MaxJobs
    BY <1>3, JobsAssumption DEF HandleRequest, PhaseType
  <2>. QED
    BY <1>3, <2>1, GStepOfServer, GStepArrivals DEF HandleRequest, PhaseType
<1>4. CASE FinishJob
  <2>1. jobs' \in 0 .. MaxJobs
    BY <1>4, JobsAssumption DEF FinishJob, PhaseType
  <2>2. lost' \in BOOLEAN
    BY <1>4 DEF FinishJob
  <2>. QED
    BY <1>4, <2>1, <2>2 DEF FinishJob, gvars, PhaseType
<1>5. CASE StartCleanup \/ EndCleanup \/ StopWorker
  BY <1>5 DEF StartCleanup, EndCleanup, StopWorker, gvars, PhaseType
<1>6. CASE ListenFails \/ ShutdownTimesOut
  <2>1. jobs' \in 0 .. MaxJobs
    BY <1>6, JobsAssumption DEF ListenFails, ShutdownTimesOut, Abort
  <2>2. lost' \in BOOLEAN
    BY <1>6 DEF ListenFails, ShutdownTimesOut, Abort
  <2>. QED
    BY <1>6, <2>1, <2>2 DEF ListenFails, ShutdownTimesOut, Abort, PhaseType
<1>7. CASE Signal \/ ShutdownReturns \/ ClosePool \/ Return
  BY <1>7 DEF Signal, ShutdownReturns, ClosePool, Return, gvars, PhaseType
<1>8. CASE RTick /\ UNCHANGED <<gvars, svars>>
  BY <1>8 DEF gvars, svars, PhaseType
<1>. QED
  BY <1>1, <1>2, <1>3, <1>4, <1>5, <1>6, <1>7, <1>8 DEF SNext

\* Every step keeps the order in which the process ends.
LEMMA OrderlyStep ==
    ASSUME GIInv, PhaseType, Orderly, [SNext]_allvars PROVE Orderly'
<1>1. CASE UNCHANGED <<gvars, svars>>
  BY <1>1 DEF gvars, svars, Orderly, Active
<1>2. CASE Exchange \/ HandleRequest
  <2>1. phase \in {"running", "draining"}
    <3>1. CASE phase = "running"
      BY <3>1
    <3>2. CASE phase # "running"
      <4>1. Active # {}
        BY <1>2, <3>2 DEF Exchange, HandleRequest, Active, Disconnect, Arrive, Allow, Handle
      <4>. QED
        BY <4>1 DEF Orderly, PhaseType
    <3>. QED
      BY <3>1, <3>2
  <2>2. UNCHANGED <<phase, pool, redis, cleaner>>
    BY <1>2 DEF Exchange, HandleRequest, svars
  <2>. QED
    BY <2>1, <2>2 DEF Orderly
<1>3. CASE FinishJob \/ EndCleanup \/ StopWorker \/ Signal
  BY <1>3 DEF FinishJob, EndCleanup, StopWorker, Signal, gvars, Orderly, Active, PhaseType
<1>4. CASE StartCleanup
  BY <1>4 DEF StartCleanup, gvars, Orderly, Active
<1>5. CASE ListenFails \/ ShutdownTimesOut
  <2>1. Active' = {}
    BY <1>5, NoRequestType DEF ListenFails, ShutdownTimesOut, Abort, Active
  <2>. QED
    BY <1>5, <2>1 DEF ListenFails, ShutdownTimesOut, Abort, Orderly
<1>6. CASE ShutdownReturns
  BY <1>6 DEF ShutdownReturns, gvars, Orderly, Active
<1>7. CASE ClosePool \/ Return
  BY <1>7 DEF ClosePool, Return, gvars, Orderly, Active
<1>8. CASE UNCHANGED allvars
  BY <1>1, <1>8 DEF allvars
<1>. QED
  BY <1>1, <1>2, <1>3, <1>4, <1>5, <1>6, <1>7, <1>8 DEF SNext

\* run() closes the pool only after the last request, and Redis only after the
\* cleanup as well (main.go).
THEOREM Graceful == SSpec => []GracefulExit
<1>1. SInit => PhaseType /\ Orderly
  BY PhaseTypeInit DEF SInit, Orderly
<1>2. GIInv /\ PhaseType /\ Orderly /\ [SNext]_allvars => PhaseType' /\ Orderly'
  BY PhaseTypeStep, OrderlyStep
<1>3. PhaseType /\ Orderly => GracefulExit
  BY DEF PhaseType, Orderly, GracefulExit
<1>. QED
  BY <1>1, <1>2, <1>3, RequestInvariance, PTL DEF SSpec

\* Every variable of the server keeps its type.
THEOREM ServerTypes == SSpec => []STypeOK
<1>1. GIInv /\ PhaseType /\ RIInv => STypeOK
  BY DEF GIInv, PhaseType, RIInv, STypeOK
<1>. QED
  BY <1>1, PhaseTypeInit, PhaseTypeStep, RequestInvariance, LimiterInServer, RateInvariance, PTL DEF SSpec

=============================================================================
