--------------------------- MODULE SessionClients ---------------------------
(***************************************************************************)
(* Sessions composed with the browsers that use it.  Every request carries *)
(* the refresh cookie its browser holds when it is sent; the response      *)
(* changes the cookie when it is delivered.  The browsers are honest: they *)
(* send what they were given and nothing else, and log in only when they   *)
(* hold no session.                                                        *)
(*                                                                         *)
(* The browser is external code, modelled from the cookies the handlers    *)
(* read and set (internal/platform/cookies).                               *)
(***************************************************************************)
EXTENDS Sessions

CONSTANTS
    Browsers,
    Account,        \* Account[b]: the user who logs in with browser b
    Tabs,           \* requests a browser may have under way at a time
    Lossy,          \* TRUE: a response may get lost on its way
    NoBrowser

ASSUME AccountAssumption == Account \in [Browsers -> Users]
ASSUME TabsAssumption == Tabs \in Nat \ {0}
ASSUME LossyAssumption == Lossy \in BOOLEAN
ASSUME NoBrowserAssumption == NoBrowser \notin Browsers

VARIABLES
    jar,            \* jar[b]: hash of the refresh cookie of b
    origin,         \* origin[q]: the browser that waits for request q
    trouble         \* history: the browsers that lost a response, had two
                    \* requests under way or met a failed statement

cvars == <<vars, jar, origin, trouble>>

CTypeOK ==
    /\ TypeOK
    /\ jar \in [Browsers -> Hashes \cup {NoHash}]
    /\ origin \in [Requests -> Browsers \cup {NoBrowser}]
    /\ trouble \subseteq Browsers

CInit ==
    /\ Init
    /\ jar = [b \in Browsers |-> NoHash]
    /\ origin = [q \in Requests |-> NoBrowser]
    /\ trouble = {}

InFlight(b) == {q \in Requests : origin[q] = b}

Send(b, q) ==
    /\ Cardinality(InFlight(b)) < Tabs
    /\ \/ jar[b] = NoHash /\ \E n \in Hashes : ArriveCallback(q, Account[b], n)
       \/ jar[b] # NoHash /\ \E n \in Hashes : ArriveRefresh(q, jar[b], n)
       \/ ArriveLogout(q, jar[b])
       \/ jar[b] # NoHash /\ ArriveOthers(q, Account[b], jar[b])
    /\ origin' = [origin EXCEPT ![q] = b]
    /\ trouble' = IF InFlight(b) = {} THEN trouble ELSE trouble \cup {b}
    /\ UNCHANGED jar

\* A plausible slip: only the access cookie is set after a rotation.
CookieKept(old, r) ==
    CASE r.reply = "set" -> IF old = NoHash THEN r.new ELSE old
      [] r.reply = "clear" -> NoHash
      [] OTHER -> old

\* SetRefreshCookie, UnsetRefreshCookie, or neither.
Cookie(old, r) ==
    CASE r.reply = "set" -> r.new
      [] r.reply = "clear" -> NoHash
      [] OTHER -> old

\* The response arrives and the browser applies its Set-Cookie headers.
Deliver(q) ==
    /\ Respond(q)
    /\ jar' = [jar EXCEPT ![origin[q]] = Cookie(@, req[q])]
    /\ origin' = [origin EXCEPT ![q] = NoBrowser]
    /\ UNCHANGED trouble

\* The connection breaks after the handler has finished.
Lose(q) ==
    /\ Lossy
    /\ Respond(q)
    /\ origin' = [origin EXCEPT ![q] = NoBrowser]
    /\ trouble' = trouble \cup {origin[q]}
    /\ UNCHANGED jar

Fail(q) ==
    /\ DbError(q)
    /\ trouble' = trouble \cup {origin[q]}
    /\ UNCHANGED <<jar, origin>>

Server == (\E q \in Requests : Handle(q)) \/ Cleanup \/ Tick

CNext ==
    \/ \E b \in Browsers, q \in Requests : Send(b, q)
    \/ \E q \in Requests : Deliver(q) \/ Lose(q) \/ Fail(q)
    \/ Server /\ UNCHANGED <<jar, origin, trouble>>

CSpec == CInit /\ [][CNext]_cvars

----------------------------------------------------------------------------
\* The theft alarm of an honest browser has a cause of its own: that browser lost
\* a response or had two requests under way, or the row was deleted under its
\* refresh.  What happens to another browser of the user never makes a
\* browser's cookie look stolen.
AlarmHasCause ==
    [][\A q \in Requests :
          req[q].pc \in {"refresh", "replace"} /\ req'[q].pc = "reuse" =>
             origin[q] \in trouble \/ req[q].hash \notin DOMAIN tokens]_cvars

\* No session is left behind: as long as no browser is in trouble, a token that
\* can still be exchanged is the cookie of a browser or on its way to one.
TokensAreHeld ==
    trouble = {} =>
       \A h \in DOMAIN tokens :
          ~tokens[h].is_consumed /\ ~Expired(tokens[h], now) =>
             (\E b \in Browsers : jar[b] = h) \/ (\E q \in Requests : req[q].new = h)

\* However responses overtake each other, get lost or follow an error, none puts
\* back a spent cookie: when a browser swaps a cookie for another one of the
\* same session, the old one can no longer be exchanged.
CookieNeverGoesBack ==
    [][\A b \in Browsers :
          /\ jar[b] \in Hashes /\ jar'[b] \in Hashes /\ jar'[b] # jar[b]
          /\ family[jar[b]] = family[jar'[b]]
          => ~Unconsumed(tokens, jar[b])]_cvars

----------------------------------------------------------------------------
(* The invariant behind these properties.                                  *)

\* Nobody but the browsers' requests is served: users are never deleted, and every
\* request under way has a browser that waits for it.
ServedInv ==
    /\ \A u \in Users : users[u] \in {"absent", "active"}
    /\ \A q \in Requests :
          /\ req[q].pc = "idle" <=> origin[q] = NoBrowser
          /\ req[q].pc \in {"idle", "callback", "issue", "refresh", "replace", "insert",
                            "getuser", "reuse", "logout", "others", "deleting", "done"}
          /\ req[q].pc = "getuser" => req[q].user \in Users /\ users[req[q].user] = "active"
          /\ req[q].pc = "deleting" => req[q].reply \in {"clear", "keep"}

\* A browser has h as its cookie or in a request of its own.
Holds(b, h) ==
    jar[b] = h \/ \E q \in Requests : origin[q] = b /\ h \in {req[q].hash, req[q].new}

\* Cookies were minted, no two browsers hold the same one, and no two requests were
\* given the same new one.
HoldersInv ==
    /\ \A b \in Browsers : jar[b] \in Cookies
    /\ \A q \in Requests : req[q].hash \in Cookies
    /\ \A b, c \in Browsers, h \in Hashes : Holds(b, h) /\ Holds(c, h) => b = c
    /\ \A p, q \in Requests : req[p].new = req[q].new /\ req[q].new # NoHash => p = q

NotConsumed(h) == h \in DOMAIN tokens => ~tokens[h].is_consumed
Spent(h) == Unconsumed(tokens, h) => Expired(tokens[h], now)

\* A token on its way to its browser is nobody's cookie yet: it cannot be consumed,
\* and no other token of its session can be exchanged.
Handed(q) == req[q].pc = "getuser" \/ (req[q].pc = "done" /\ req[q].reply = "set")

HandedInv ==
    \A q \in Requests :
       /\ Pending(q) \/ Handed(q) \/ req[q].new = NoHash
       /\ Handed(q) =>
             LET n == req[q].new IN
             /\ n \in Minted /\ NotConsumed(n)
             /\ \A b \in Browsers : jar[b] # n
             /\ \A p \in Requests : req[p].hash # n
             /\ Live(family[n]) \subseteq {n}

\* Whether the request of a browser leaves it the cookie it has.
KeepsCookie(r) ==
    \/ r.pc \in {"callback", "issue", "refresh", "replace", "insert", "logout", "others"}
    \/ r.pc \in {"deleting", "done"} /\ r.reply = "keep"

\* What a browser without trouble knows: its cookie has not been consumed, except by
\* the request it waits for, and that one will replace it.
Trusts(b) ==
    /\ \A p, q \in InFlight(b) : p = q
    /\ InFlight(b) = {} => NotConsumed(jar[b])
    /\ \A q \in InFlight(b) :
          LET r == req[q] IN
          /\ r.pc \in {"callback", "issue"} => jar[b] = NoHash
          /\ r.pc \in {"refresh", "replace", "insert", "logout", "others"} => r.hash = jar[b]
          /\ r.pc = "done" => r.reply \in {"set", "clear", "keep"}
          /\ IF KeepsCookie(r) THEN NotConsumed(jar[b]) ELSE Spent(jar[b])

TrustInv == \A b \in Browsers \ trouble : Trusts(b)

ClientInv == /\ CTypeOK
             /\ ServedInv
             /\ HoldersInv
             /\ HandedInv
             /\ TrustInv
             /\ TokensAreHeld

----------------------------------------------------------------------------
(* What the documentation says and the code does not do.                   *)

\* README, "preventing false-positive token theft detections and race
\* conditions": browsers that send only what they were given never trigger
\* reuse detection.
NoFalseTheftAlarm == \A q \in Requests : req[q].pc # "reuse"

=============================================================================
