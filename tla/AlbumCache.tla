----------------------------- MODULE AlbumCache -----------------------------
(***************************************************************************)
(* Albums in PostgreSQL and their cache in Redis                           *)
(* (internal/domain/albums/repository.go and service.go).                  *)
(*                                                                         *)
(* The cache has three kinds of keys: the entity (c:a:<id>), the slug      *)
(* mapper (c:a_m:<user>:<slug>) and the direct token mapper                *)
(* (c:a_dtm:<token>).  A read looks in the cache, and on a miss joins a    *)
(* singleflight call that queries the database.  Filling and invalidating  *)
(* the cache is left to background goroutines ("fire and forget"), each of *)
(* them a short sequence of Redis commands that interleaves with           *)
(* everything else.                                                        *)
(*                                                                         *)
(* Titles, covers, dates and the atlas are left out, and so is the         *)
(* deletion of the owner's account.  With Failures, a key may reach its    *)
(* TTL, a Redis command may be lost and a query may fail.                  *)
(***************************************************************************)
EXTENDS Naturals, Sequences, FiniteSets

CONSTANTS
    Users, Albums,
    Owner,          \* Owner[a]: the user who creates album a; never changes
    Slugs, Links,   \* album slugs; direct tokens
    IsActive,       \* values of is_active in the album form
    Readers,        \* slots for concurrent read requests
    Writers,        \* slots for concurrent direct token updates
    Goroutines,     \* slots for background cache jobs
    Reads, Writes,  \* the kinds of request that arrive
    MaxWrites,      \* bound on the number of writes
    Serial,         \* TRUE: a request starts when everything before is done
    Failures,       \* TRUE: commands and queries may time out, keys may expire
    None            \* no row, no key, no token

ASSUME OwnerAssumption == Owner \in [Albums -> Users]
ASSUME FlagsAssumption == Serial \in BOOLEAN /\ Failures \in BOOLEAN /\ IsActive \subseteq BOOLEAN
ASSUME ReadsAssumption == Reads \subseteq {"slug", "id", "link"}
ASSUME WritesAssumption ==
    /\ Writes \subseteq {"create", "update", "toggle", "token", "delete", "restore",
                         "purge", "purgeuser"}
    /\ MaxWrites \in Nat
ASSUME NoneAssumption == None \notin Albums \cup Links \cup Slugs \cup Users \cup Readers

VARIABLES
    db,             \* db[a]: the row of album a
    entity,         \* entity[a]: the cached row of a, or None
    mapper,         \* mapper[<<u, s>>]: the album slug s of u leads to
    linkmap,        \* linkmap[l]: the album direct token l leads to
    jobs,           \* jobs[g]: the commands goroutine g still has to run
    reads,          \* reads[r]: a read request
    tokenreq,       \* tokenreq[w]: a direct token update between its statements
    made,           \* the direct tokens that were generated
    writes          \* number of writes so far

vars == <<db, entity, mapper, linkmap, jobs, reads, tokenreq, made, writes>>
cache == <<entity, mapper, linkmap>>

\* status: "absent" before the INSERT, "trashed" with deleted_at set,
\* "purged" once the row is gone.  guests are the users that access and
\* shared_emails admit besides the owner: everyone if the album is public,
\* nobody if it is private.
Row == [status : {"absent", "present", "trashed", "purged"}, slug : Slugs \cup {None},
        active : BOOLEAN, guests : SUBSET Users, link : Links \cup {None}]

NoRow == [status |-> "absent", slug |-> None, active |-> FALSE, guests |-> {}, link |-> None]

\* The key of a read is the key of its singleflight call.
Keys == ({"slug"} \X Users \X Slugs) \cup ({"id"} \X Albums) \cup ({"link"} \X Links)

NoRead == [pc |-> "idle", key |-> None, viewer |-> None, leader |-> None,
           album |-> None, row |-> None]

Init ==
    /\ db = [a \in Albums |-> NoRow]
    /\ entity = [a \in Albums |-> None]
    /\ mapper = [k \in Users \X Slugs |-> None]
    /\ linkmap = [l \in Links |-> None]
    /\ jobs = [g \in Goroutines |-> <<>>]
    /\ reads = [r \in Readers |-> NoRead]
    /\ tokenreq = [w \in Writers |-> None]
    /\ made = {}
    /\ writes = 0

----------------------------------------------------------------------------
(* Background jobs.                                                        *)

\* setAlbumToCache.
SetAlbumToCache(a, row) ==
    <<[op |-> "set_entity", album |-> a, row |-> row],
      [op |-> "set_mapper", album |-> a, slug |-> row.slug]>>
    \o IF row.link # None THEN <<[op |-> "set_link", album |-> a, link |-> row.link]>> ELSE <<>>

\* invalidateAlbumCache: one UNLINK for entity and slug mapper, one for the token.
InvalidateAlbumCache(a, row) ==
    <<[op |-> "unlink_album", album |-> a, slug |-> row.slug]>>
    \o IF row.link # None THEN <<[op |-> "unlink_link", link |-> row.link]>> ELSE <<>>

InvalidateAlbumMapper(a, slug) == <<[op |-> "unlink_mapper", album |-> a, slug |-> slug]>>

\* A plausible slip: the mapper stores the slug where the id belongs.
RunStoresSlug(c) ==
    /\ mapper' = IF c.op = "set_mapper"
                 THEN [mapper EXCEPT ![<<Owner[c.album], c.slug>>] = c.slug] ELSE mapper
    /\ UNCHANGED <<entity, linkmap>>

\* The effect of one Redis command.
Run(c) ==
    /\ entity' = CASE c.op = "set_entity" -> [entity EXCEPT ![c.album] = c.row]
                   [] c.op = "unlink_album" -> [entity EXCEPT ![c.album] = None]
                   [] OTHER -> entity
    /\ mapper' = CASE c.op = "set_mapper" -> [mapper EXCEPT ![<<Owner[c.album], c.slug>>] = c.album]
                   [] c.op \in {"unlink_album", "unlink_mapper"} ->
                         [mapper EXCEPT ![<<Owner[c.album], c.slug>>] = None]
                   [] OTHER -> mapper
    /\ linkmap' = CASE c.op = "set_link" -> [linkmap EXCEPT ![c.link] = c.album]
                    [] c.op = "unlink_link" -> [linkmap EXCEPT ![c.link] = None]
                    [] OTHER -> linkmap

\* go func() { ... }(): the job starts in a free slot (the bound on goroutines).
Spawn(commands) ==
    \E g \in Goroutines : jobs[g] = <<>> /\ jobs' = [jobs EXCEPT ![g] = commands]

\* A goroutine runs its next command; errors are ignored.
Background(g) ==
    /\ jobs[g] # <<>>
    /\ jobs' = [jobs EXCEPT ![g] = Tail(@)]
    /\ \/ Run(Head(jobs[g]))
       \/ Failures /\ UNCHANGED cache
    /\ UNCHANGED <<db, reads, tokenreq, made, writes>>

\* A key reaches its TTL.
Expire ==
    /\ Failures
    /\ \/ \E a \in Albums : entity[a] # None /\ entity' = [entity EXCEPT ![a] = None]
                            /\ UNCHANGED <<mapper, linkmap>>
       \/ \E k \in Users \X Slugs : mapper[k] # None /\ mapper' = [mapper EXCEPT ![k] = None]
                            /\ UNCHANGED <<entity, linkmap>>
       \/ \E l \in Links : linkmap[l] # None /\ linkmap' = [linkmap EXCEPT ![l] = None]
                            /\ UNCHANGED <<entity, mapper>>
    /\ UNCHANGED <<db, jobs, reads, tokenreq, made, writes>>

Quiet == /\ \A g \in Goroutines : jobs[g] = <<>>
         /\ \A r \in Readers : reads[r].pc = "idle"
         /\ \A w \in Writers : tokenreq[w] = None

----------------------------------------------------------------------------
(* Writes by the owner.  A statement that matches no row or breaks the     *)
(* unique index changes nothing and is left out.                           *)

\* UNIQUE (user_id, slug) WHERE deleted_at IS NULL.
SlugFree(a, s) ==
    \A b \in Albums \ {a} :
       ~(Owner[b] = Owner[a] /\ db[b].status = "present" /\ db[b].slug = s)

StartWrite(kind) ==
    /\ kind \in Writes
    /\ writes < MaxWrites
    /\ Serial => Quiet
    /\ writes' = writes + 1

\* The statement stores row and a goroutine runs the commands.
Store(a, row, commands) ==
    /\ db' = [db EXCEPT ![a] = row]
    /\ Spawn(commands)
    /\ UNCHANGED <<cache, reads, tokenreq, made>>

Create(a, s, active, guests) ==
    LET row == [status |-> "present", slug |-> s, active |-> active, guests |-> guests,
                link |-> None] IN
    /\ StartWrite("create")
    /\ db[a].status = "absent" /\ SlugFree(a, s)
    /\ Store(a, row, SetAlbumToCache(a, row))

\* A plausible slip: the mapper of the old slug is left in the cache.
UpdateKeepsMapper(a, s, active, guests) ==
    LET row == [db[a] EXCEPT !.slug = s, !.active = active, !.guests = guests] IN
    /\ StartWrite("update")
    /\ db[a].status = "present" /\ SlugFree(a, s)
    /\ Store(a, row, SetAlbumToCache(a, row))

Update(a, s, active, guests) ==
    LET row == [db[a] EXCEPT !.slug = s, !.active = active, !.guests = guests] IN
    /\ StartWrite("update")
    /\ db[a].status = "present" /\ SlugFree(a, s)
    /\ Store(a, row, (IF s # db[a].slug THEN InvalidateAlbumMapper(a, db[a].slug) ELSE <<>>)
                     \o SetAlbumToCache(a, row))

ToggleActive(a, active) ==
    LET row == [db[a] EXCEPT !.active = active] IN
    /\ StartWrite("toggle")
    /\ db[a].status = "present"
    /\ Store(a, row, SetAlbumToCache(a, row))

Delete(a) ==
    LET row == [db[a] EXCEPT !.status = "trashed"] IN
    /\ StartWrite("delete")
    /\ db[a].status = "present"
    /\ Store(a, row, InvalidateAlbumCache(a, row))

\* The slug gets a random suffix if it is taken.  The cache is not touched.
Restore(a) ==
    /\ StartWrite("restore")
    /\ db[a].status = "trashed"
    /\ \E s \in Slugs :
          /\ IF SlugFree(a, db[a].slug)
             THEN s = db[a].slug
             ELSE s # db[a].slug /\ SlugFree(a, s)
          /\ db' = [db EXCEPT ![a] = [@ EXCEPT !.status = "present", !.slug = s]]
    /\ UNCHANGED <<cache, jobs, reads, tokenreq, made>>

\* The cache is not touched: the album was invalidated when it was deleted.
Purge(a) ==
    /\ StartWrite("purge")
    /\ db[a].status = "trashed"
    /\ db' = [db EXCEPT ![a] = [NoRow EXCEPT !.status = "purged"]]
    /\ UNCHANGED <<cache, jobs, reads, tokenreq, made>>

\* DELETE FROM users: ON DELETE CASCADE removes the albums, nothing the cached
\* ones.
PurgeUser(u) ==
    /\ StartWrite("purgeuser")
    /\ \E a \in Albums : Owner[a] = u /\ db[a].status \in {"present", "trashed"}
    /\ db' = [a \in Albums |-> IF Owner[a] = u THEN [NoRow EXCEPT !.status = "purged"] ELSE db[a]]
    /\ UNCHANGED <<cache, jobs, reads, tokenreq, made>>

\* GenerateDirectToken (uuid.New never repeats) and RevokeDirectToken (l = None):
\* the statement ...
UpdateDirectToken(w, a, l) ==
    /\ StartWrite("token")
    /\ tokenreq[w] = None
    /\ db[a].status = "present"
    /\ l \notin made
    /\ made' = made \cup ({l} \ {None})
    /\ db' = [db EXCEPT ![a] = [@ EXCEPT !.link = l]]
    /\ tokenreq' = [tokenreq EXCEPT ![w] =
           [album |-> a, old |-> db[a].link, row |-> [db[a] EXCEPT !.link = l]]]
    /\ UNCHANGED <<cache, jobs, reads>>

\* ... then the synchronous UNLINK of the old token, and the refill.
UnlinkOldToken(w) ==
    /\ tokenreq[w] # None
    /\ \/ tokenreq[w].old # None /\ Run([op |-> "unlink_link", link |-> tokenreq[w].old])
       \/ (tokenreq[w].old = None \/ Failures) /\ UNCHANGED cache
    /\ Spawn(SetAlbumToCache(tokenreq[w].album, tokenreq[w].row))
    /\ tokenreq' = [tokenreq EXCEPT ![w] = None]
    /\ UNCHANGED <<db, reads, made, writes>>

----------------------------------------------------------------------------
(* Reads.                                                                  *)

\* A read by direct token looks at no claims.
Viewers(key) == IF key[1] = "link" THEN {None} ELSE Users

StartRead(r, key, v) ==
    /\ key[1] \in Reads
    /\ reads[r].pc = "idle"
    /\ Serial => Quiet
    /\ reads' = [reads EXCEPT ![r] = [NoRead EXCEPT !.pc = "lookup", !.key = key, !.viewer = v]]
    /\ UNCHANGED <<db, cache, jobs, tokenreq, made, writes>>

\* The album a key leads to in the cache: GET, or the Lua script that follows
\* the mapper.
CachedAlbum(key) ==
    CASE key[1] = "slug" -> mapper[<<key[2], key[3]>>]
      [] key[1] = "id" -> key[2]
      [] key[1] = "link" -> linkmap[key[2]]

\* Whether the repository answers from the cache.
Hit(a, key, v) ==
    /\ a # None
    /\ entity[a] # None
    /\ key[1] = "id" => Owner[a] = v
    /\ key[1] = "link" => entity[a].active /\ entity[a].link = key[2]

\* Access.CanAccess.
CanAccess(a, row, v) == Owner[a] = v \/ v \in row.guests

\* A plausible slip: the caller of a shared singleflight call trusts its result.
PermitsShared(a, row, key, v) ==
    CASE key[1] = "slug" -> (row.active \/ Owner[a] = v) /\ CanAccess(a, row, v)
      [] key[1] = "id" -> TRUE
      [] key[1] = "link" -> row.active

\* The checks of the service on what the repository returned: GetAvailable,
\* GetOwned and GetByDirectToken.
Permits(a, row, key, v) ==
    CASE key[1] = "slug" -> (row.active \/ Owner[a] = v) /\ CanAccess(a, row, v)
      [] key[1] = "id" -> Owner[a] = v
      [] key[1] = "link" -> row.active

\* A read that ends with the album a, or with 404 if a is None.
Answer(read, a, row) ==
    LET ok == a # None /\ Permits(a, row, read.key, read.viewer) IN
    [read EXCEPT !.pc = "done", !.leader = None,
                 !.album = IF ok THEN a ELSE None, !.row = IF ok THEN row ELSE None]

Lookup(r) ==
    LET key == reads[r].key
        a == CachedAlbum(key) IN
    /\ reads[r].pc = "lookup"
    /\ \/ /\ Hit(a, key, reads[r].viewer)
          /\ reads' = [reads EXCEPT ![r] = Answer(@, a, entity[a])]
       \/ /\ ~Hit(a, key, reads[r].viewer) \/ Failures
          /\ reads' = [reads EXCEPT ![r] = [@ EXCEPT !.pc = "miss"]]
    /\ UNCHANGED <<db, cache, jobs, tokenreq, made, writes>>

\* sf.Do: wait for a call with the same key, or make it.
Singleflight(r) ==
    LET calls == {p \in Readers :
                    reads[p].pc \in {"query", "fetched"} /\ reads[p].key = reads[r].key} IN
    /\ reads[r].pc = "miss"
    /\ \/ \E p \in calls : reads' = [reads EXCEPT ![r] = [@ EXCEPT !.pc = "wait", !.leader = p]]
       \/ calls = {} /\ reads' = [reads EXCEPT ![r] = [@ EXCEPT !.pc = "query"]]
    /\ UNCHANGED <<db, cache, jobs, tokenreq, made, writes>>

\* GetAlbumBySlug, GetAlbum and GetAlbumByDirectToken.
Matches(a, key, v) ==
    CASE key[1] = "slug" -> Owner[a] = key[2] /\ db[a].slug = key[3] /\ db[a].status = "present"
      [] key[1] = "id" -> a = key[2] /\ Owner[a] = v /\ db[a].status \in {"present", "trashed"}
      [] key[1] = "link" -> db[a].link = key[2] /\ db[a].active /\ db[a].status = "present"

\* The function of the call runs in the context of the request that made it: it
\* queries and starts the refill.  Others may still join before it returns.
Query(r) ==
    LET found == {a \in Albums : Matches(a, reads[r].key, reads[r].viewer)} IN
    /\ reads[r].pc = "query"
    /\ \/ \E a \in found :
             /\ reads' = [reads EXCEPT ![r] = [@ EXCEPT !.pc = "fetched", !.album = a, !.row = db[a]]]
             /\ IF db[a].status = "present"
                THEN Spawn(SetAlbumToCache(a, db[a]))
                ELSE UNCHANGED jobs
       \/ /\ found = {} \/ Failures
          /\ reads' = [reads EXCEPT ![r] = [@ EXCEPT !.pc = "fetched"]]
          /\ UNCHANGED jobs
    /\ UNCHANGED <<db, cache, tokenreq, made, writes>>

\* The call returns, to its maker and to everyone who waits for it.
Return(r) ==
    /\ reads[r].pc = "fetched"
    /\ reads' = [p \in Readers |->
                    IF p = r \/ reads[p].leader = r
                    THEN Answer(reads[p], reads[r].album, reads[r].row) ELSE reads[p]]
    /\ UNCHANGED <<db, cache, jobs, tokenreq, made, writes>>

EndRead(r) ==
    /\ reads[r].pc = "done"
    /\ reads' = [reads EXCEPT ![r] = NoRead]
    /\ UNCHANGED <<db, cache, jobs, tokenreq, made, writes>>

----------------------------------------------------------------------------
\* The owner fills in the album form or manages the direct token.
Edit ==
    \/ \E a \in Albums, s \in Slugs, active \in IsActive :
          \E guests \in SUBSET (Users \ {Owner[a]}) :
             Create(a, s, active, guests) \/ Update(a, s, active, guests)
    \/ \E w \in Writers, a \in Albums, l \in Links \cup {None} : UpdateDirectToken(w, a, l)
    \/ \E w \in Writers : UnlinkOldToken(w)

\* The owner switches the album on or off, or moves it through the trash.
Toggle ==
    \/ \E a \in Albums, active \in BOOLEAN : ToggleActive(a, active)
    \/ \E a \in Albums : Delete(a) \/ Restore(a) \/ Purge(a)

Write == Edit \/ Toggle \/ \E u \in Users : PurgeUser(u)

Read ==
    \E r \in Readers :
       \/ \E key \in Keys : \E v \in Viewers(key) : StartRead(r, key, v)
       \/ Lookup(r) \/ Singleflight(r) \/ Query(r) \/ Return(r) \/ EndRead(r)

Next == Write \/ Read \/ Expire \/ \E g \in Goroutines : Background(g)

Spec == Init /\ [][Next]_vars

----------------------------------------------------------------------------
\* The commands a job may hold, and the requests under way.
Command ==
    [op : {"set_entity"}, album : Albums, row : Row]
    \cup [op : {"set_mapper", "unlink_album", "unlink_mapper"}, album : Albums,
          slug : Slugs \cup {None}]
    \cup [op : {"set_link"}, album : Albums, link : Links]
    \cup [op : {"unlink_link"}, link : Links]

ReadRequest ==
    [pc : {"idle", "lookup", "miss", "wait", "query", "fetched", "done"},
     key : Keys \cup {None}, viewer : Users \cup {None}, leader : Readers \cup {None},
     album : Albums \cup {None}, row : Row \cup {None}]

TokenRequest == [album : Albums, old : Links \cup {None}, row : Row]

\* Every variable keeps its type.
TypeOK ==
    /\ db \in [Albums -> Row]
    /\ entity \in [Albums -> Row \cup {None}]
    /\ mapper \in [Users \X Slugs -> Albums \cup {None}]
    /\ linkmap \in [Links -> Albums \cup {None}]
    /\ jobs \in [Goroutines -> Seq(Command)]
    /\ reads \in [Readers -> ReadRequest]
    /\ tokenreq \in [Writers -> TokenRequest \cup {None}]
    /\ made \subseteq Links
    /\ writes \in 0 .. MaxWrites

\* Whatever is stale in the cache and whoever shares a singleflight call, an
\* answer is a row the request may have: by slug an album of that user which
\* admits the viewer, by id an album of the viewer, by direct token an active
\* album that has the token.
AnswersAreAuthorised ==
    \A r \in Readers : reads[r].pc = "done" /\ reads[r].album # None =>
       LET key == reads[r].key
           a == reads[r].album IN
       /\ key[1] = "slug" => /\ Owner[a] = key[2]
                             /\ \/ Owner[a] = reads[r].viewer
                                \/ reads[r].row.active /\ reads[r].viewer \in reads[r].row.guests
       /\ key[1] = "id" => Owner[a] = reads[r].viewer
       /\ key[1] = "link" => reads[r].row.active /\ reads[r].row.link = key[2]

\* What makes it inductive: a slug mapper leads to an album of the user in its key,
\* whoever waits for a call has the key of its maker, and what a call has fetched
\* is what its key asks for.
MapperInv == \A k \in Users \X Slugs : mapper[k] # None => Owner[mapper[k]] = k[1]

CallInv ==
    \A r \in Readers :
       /\ reads[r].pc # "idle" => reads[r].key \in Keys
       /\ reads[r].pc \notin {"fetched", "done"} => reads[r].album = None
       /\ reads[r].pc # "wait" => reads[r].leader = None
       /\ reads[r].pc = "wait" =>
             /\ reads[r].leader \in Readers
             /\ reads[reads[r].leader].pc \in {"query", "fetched"}
             /\ reads[reads[r].leader].key = reads[r].key
       /\ reads[r].pc = "fetched" /\ reads[r].album # None =>
             LET key == reads[r].key
                 row == reads[r].row IN
             /\ row \in Row
             /\ key[1] = "slug" => Owner[reads[r].album] = key[2]
             /\ key[1] = "link" => row.active /\ row.link = key[2]

IInv == /\ TypeOK
        /\ MapperInv
        /\ CallInv
        /\ AnswersAreAuthorised

\* With no request and no job under way, each key agrees with the row in the
\* database; albums in S may be stale.
CoherentExcept(S) ==
    Quiet =>
       /\ \A a \in Albums \ S : entity[a] # None => entity[a] = db[a] /\ db[a].status = "present"
       /\ \A k \in Users \X Slugs : mapper[k] \notin S \cup {None} =>
             Owner[mapper[k]] = k[1] /\ db[mapper[k]].slug = k[2] /\ db[mapper[k]].status = "present"
       /\ \A l \in Links : linkmap[l] \notin S \cup {None} => db[linkmap[l]].link = l

----------------------------------------------------------------------------
(* What comments and documentation say and the code does not do under      *)
(* every interleaving.                                                     *)

\* "We need to update the cache synchronously because the direct token is used to
\* fetch the album": once its update is over, a replaced or revoked direct
\* token does not open the album.
RevokedLinkIsDead ==
    \A r \in Readers : reads[r].pc = "lookup" /\ reads[r].key[1] = "link" =>
       LET l == reads[r].key[2]
           a == linkmap[l] IN
       Hit(a, reads[r].key, reads[r].viewer) =>
          db[a].link = l \/ \E w \in Writers : tokenreq[w] # None /\ tokenreq[w].album = a

\* "Authenticated user any album": an owner who makes or waits for a call gets the
\* album if it is in the database when the query of the call runs.
OwnerFindsAlbum ==
    [][\A r, p \in Readers :
          LET a == reads[r].key[2] IN
          /\ reads[r].pc = "query" /\ reads'[r].pc = "fetched" /\ reads[r].key[1] = "id"
          /\ p = r \/ reads[p].leader = r
          /\ Owner[a] = reads[p].viewer /\ db[a].status \in {"present", "trashed"}
          => reads'[r].album = a]_vars

=============================================================================
