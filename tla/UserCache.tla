------------------------------ MODULE UserCache ------------------------------
(***************************************************************************)
(* Users in PostgreSQL and their cache in Redis (internal/domain/users).   *)
(*                                                                         *)
(* A user is cached under two keys: the entity (c:u:<id>) and the slug     *)
(* mapper (c:u_m:<slug>).  Writes change the row and leave the cache to a  *)
(* background goroutine; reads fill it the same way.  A Redis command may  *)
(* be lost (the goroutine has 100 ms), keys reach their TTL, and requests  *)
(* and goroutines interleave freely.                                       *)
(*                                                                         *)
(* Of the columns, slug and avatar are kept.  The refresh tokens that go   *)
(* with a deleted user are in module Sessions.                             *)
(***************************************************************************)
EXTENDS Naturals, Sequences

CONSTANTS
    Users, Slugs,
    Avatars,        \* sanitised avatar URLs; None is the empty string
    Readers,        \* slots for reads that query the database
    Goroutines,     \* slots for background cache jobs
    Registered,     \* the tables a run may find: functions from Users to Row
    MaxWrites,      \* bound on the number of writes
    None            \* no key, no value

ASSUME WritesAssumption == MaxWrites \in Nat
ASSUME NoneAssumption == None \notin Users \cup Slugs \cup Avatars

VARIABLES
    db,             \* db[u]: the row of user u
    entity,         \* entity[u]: the cached row of u, or None
    mapper,         \* mapper[s]: the user slug s leads to, or None
    jobs,           \* jobs[g]: the commands goroutine g still has to run
    reads,          \* reads[r]: a read that missed the cache
    writes,         \* number of writes so far
    held,           \* history: <<u, row>> for every row u had while active
    disturbed       \* history: a request overlapped another or the moment between two
                    \* expiries, or a command was lost

vars == <<db, entity, mapper, jobs, reads, writes, held, disturbed>>
cache == <<entity, mapper>>

\* "deleted" with deleted_at set, "purged" once the row is gone.
Row == [status : {"absent", "active", "deleted", "purged"}, slug : Slugs \cup {None},
        avatar : Avatars \cup {None}]

ASSUME RegisteredAssumption == Registered \subseteq [Users -> Row]

NoRow == [status |-> "absent", slug |-> None, avatar |-> None]
NoRead == [pc |-> "idle", key |-> None, user |-> None, row |-> None]

\* What a request asks for; for a slug it is the key of the singleflight call.
Keys == ({"id"} \X Users) \cup ({"slug"} \X Slugs)

\* The process finds the users of earlier runs and an empty cache.
Init ==
    /\ db \in Registered
    /\ entity = [u \in Users |-> None]
    /\ mapper = [s \in Slugs |-> None]
    /\ jobs = [g \in Goroutines |-> <<>>]
    /\ reads = [r \in Readers |-> NoRead]
    /\ writes = 0
    /\ held = {<<u, [db[u] EXCEPT !.status = "active"]>> : u \in {v \in Users : db[v] # NoRow}}
    /\ disturbed = FALSE

Quiet == /\ \A g \in Goroutines : jobs[g] = <<>>
         /\ \A r \in Readers : reads[r].pc = "idle"

\* A mapper is set a moment after its entity and expires a moment later.
Parted == \E s \in Slugs : mapper[s] # None /\ entity[mapper[s]] = None

----------------------------------------------------------------------------
(* Background jobs.                                                        *)

\* setUserToCache.
SetUserToCache(u, row) ==
    <<[op |-> "set_entity", user |-> u, row |-> row],
      [op |-> "set_mapper", user |-> u, slug |-> row.slug]>>

\* invalidate_user_with_mapper.lua: the slug comes from the cached entity, and
\* without one nothing is done.
InvalidateUserWithMapper(u) ==
    IF entity[u] = None THEN UNCHANGED cache
    ELSE /\ entity' = [entity EXCEPT ![u] = None]
         /\ mapper' = [mapper EXCEPT ![entity[u].slug] = None]

\* A plausible slip: the mapper stores the slug where the id belongs.
RunStoresSlug(c) ==
    /\ c.op = "set_mapper"
    /\ mapper' = [mapper EXCEPT ![c.slug] = c.slug]
    /\ UNCHANGED entity

\* The effect of one Redis command.
Run(c) ==
    \/ /\ c.op = "set_entity"
       /\ entity' = [entity EXCEPT ![c.user] = c.row]
       /\ UNCHANGED mapper
    \/ /\ c.op \in {"set_mapper", "unlink_mapper"}
       /\ mapper' = [mapper EXCEPT ![c.slug] = IF c.op = "set_mapper" THEN c.user ELSE None]
       /\ UNCHANGED entity
    \/ /\ c.op = "invalidate"
       /\ InvalidateUserWithMapper(c.user)

\* go func() { ... }(): the job starts in a free slot (the bound on goroutines).
\* Slots are interchangeable, so one choice will do.
Spawn(commands) ==
    LET free == {g \in Goroutines : jobs[g] = <<>>} IN
    /\ free # {}
    /\ jobs' = [jobs EXCEPT ![CHOOSE g \in free : TRUE] = commands]

\* A goroutine runs its next command; errors are ignored.
Background(g) ==
    /\ jobs[g] # <<>>
    /\ jobs' = [jobs EXCEPT ![g] = Tail(@)]
    /\ \/ Run(Head(jobs[g])) /\ UNCHANGED disturbed
       \/ UNCHANGED cache /\ disturbed' = TRUE
    /\ UNCHANGED <<db, reads, writes, held>>

\* Manager.Set gives every key a TTL.
ExpireEntity(u) ==
    /\ entity[u] # None
    /\ entity' = [entity EXCEPT ![u] = None]
    /\ UNCHANGED <<db, mapper, jobs, reads, writes, held, disturbed>>

\* A plausible slip: the mapper is stored without a TTL.
ExpireMapperNever(s) == FALSE /\ s \in Slugs /\ UNCHANGED vars

ExpireMapper(s) ==
    /\ mapper[s] # None
    /\ mapper' = [mapper EXCEPT ![s] = None]
    /\ UNCHANGED <<db, entity, jobs, reads, writes, held, disturbed>>

----------------------------------------------------------------------------
(* Writes.  A statement that matches no row or breaks the unique index     *)
(* changes nothing and is left out.                                        *)

\* UNIQUE (slug) WHERE deleted_at IS NULL.
SlugFree(u, s) == \A v \in Users \ {u} : ~(db[v].status = "active" /\ db[v].slug = s)

\* A random slug or suffix: nobody has or had it.
SlugFresh(s) == \A h \in held : h[2].slug # s

\* The statement stores row.
Store(u, row) ==
    /\ writes < MaxWrites
    /\ writes' = writes + 1
    /\ db' = [db EXCEPT ![u] = row]
    /\ held' = IF row.status = "active" THEN held \cup {<<u, row>>} ELSE held
    /\ disturbed' = (disturbed \/ ~Quiet \/ Parted)
    /\ UNCHANGED <<cache, reads>>

\* A login: a new user gets a random slug, a deleted one is refused.
Upsert(u, s, avatar) ==
    LET row == IF db[u].status = "active" THEN [db[u] EXCEPT !.avatar = avatar]
               ELSE [status |-> "active", slug |-> s, avatar |-> avatar] IN
    /\ \/ db[u].status = "absent" /\ SlugFresh(s)
       \/ db[u].status = "active" /\ s = db[u].slug
    /\ Store(u, row)
    /\ Spawn(SetUserToCache(u, row))

\* Development only: the slug is given.
Create(u, s, avatar) ==
    LET row == [status |-> "active", slug |-> s, avatar |-> avatar] IN
    /\ db[u].status = "absent" /\ SlugFree(u, s)
    /\ Store(u, row)
    /\ Spawn(SetUserToCache(u, row))

\* A plausible slip: the mapper of the old slug stays in the cache.
UpdateKeepsMapper(u, s, avatar) ==
    LET row == [db[u] EXCEPT !.slug = s, !.avatar = avatar] IN
    /\ db[u].status = "active" /\ SlugFree(u, s)
    /\ Store(u, row)
    /\ Spawn(SetUserToCache(u, row))

\* The handler goes on after it has refused an avatar: what is stored then is
\* the empty string ValidateAndSanitizeURL returned with its error.
Update(u, s, avatar) ==
    LET row == [db[u] EXCEPT !.slug = s, !.avatar = avatar] IN
    /\ db[u].status = "active" /\ SlugFree(u, s)
    /\ Store(u, row)
    /\ Spawn((IF s # db[u].slug THEN <<[op |-> "unlink_mapper", slug |-> db[u].slug]>> ELSE <<>>)
             \o SetUserToCache(u, row))

Delete(u) ==
    /\ db[u].status = "active"
    /\ Store(u, [db[u] EXCEPT !.status = "deleted"])
    /\ Spawn(<<[op |-> "invalidate", user |-> u]>>)

PurgeUser(u) ==
    /\ db[u].status \in {"active", "deleted"}
    /\ Store(u, [NoRow EXCEPT !.status = "purged"])
    /\ Spawn(<<[op |-> "invalidate", user |-> u]>>)

\* The slug gets a random suffix if it is taken.  The cache is not touched.
RestoreUser(u, s) ==
    /\ db[u].status = "deleted"
    /\ IF SlugFree(u, db[u].slug) THEN s = db[u].slug ELSE SlugFresh(s)
    /\ Store(u, [db[u] EXCEPT !.status = "active", !.slug = s])
    /\ UNCHANGED jobs

Write ==
    \E u \in Users :
       \/ \E s \in Slugs, avatar \in Avatars \cup {None} :
             Upsert(u, s, avatar) \/ Create(u, s, avatar) \/ Update(u, s, avatar)
       \/ \E s \in Slugs : RestoreUser(u, s)
       \/ Delete(u) \/ PurgeUser(u)

----------------------------------------------------------------------------
(* Reads.  A request that finds its user in the cache is answered at once, *)
(* one that finds a call with its key waits for it; neither changes        *)
(* anything, and what they get is in the properties below.                 *)

\* GET, or get_user_by_slug.lua that follows the mapper.
CachedUser(key) == IF key[1] = "id" THEN key[2] ELSE mapper[key[2]]

\* The cached row is trusted as it is.
Hit(key) == CachedUser(key) # None /\ entity[CachedUser(key)] # None

\* A plausible slip: the key of the call does not hold the slug.
SharesAll(key, r) == reads[r].pc # "idle" /\ reads[r].key[1] = "slug" /\ key[1] = "slug"

\* sf.Do: the request for key waits for call r and gets its answer.  Only lookups
\* by slug share calls.
Shares(key, r) == reads[r].pc # "idle" /\ key[1] = "slug" /\ reads[r].key = key

\* GetAvailable and GetAvailableBySlug did not find the user in the cache, or
\* Redis failed, and there is no call to wait for.
Miss(r, key) ==
    /\ reads[r].pc = "idle"
    /\ r = CHOOSE p \in Readers : reads[p].pc = "idle"
    /\ \A p \in Readers : ~Shares(key, p)
    /\ reads' = [reads EXCEPT ![r] = [NoRead EXCEPT !.pc = "query", !.key = key]]
    /\ disturbed' = (disturbed \/ ~Quiet \/ Parted)
    /\ UNCHANGED <<db, cache, jobs, writes, held>>

\* GetAvailableUser and GetAvailableUserBySlug, and the refill.  If there
\* is no such user or the query fails, the error is returned at once.
Query(r) ==
    LET found == {u \in Users : db[u].status = "active"
                                /\ reads[r].key \in {<<"id", u>>, <<"slug", db[u].slug>>}} IN
    /\ reads[r].pc = "query"
    /\ \/ \E u \in found :
             /\ reads' = [reads EXCEPT ![r] = [@ EXCEPT !.pc = "fetched", !.user = u, !.row = db[u]]]
             /\ Spawn(SetUserToCache(u, db[u]))
       \/ reads' = [reads EXCEPT ![r] = NoRead] /\ UNCHANGED jobs
    /\ UNCHANGED <<db, cache, writes, held, disturbed>>

\* The call returns, to its maker and to everyone who waits for it.
Return(r) ==
    /\ reads[r].pc = "fetched"
    /\ reads' = [reads EXCEPT ![r] = NoRead]
    /\ UNCHANGED <<db, cache, jobs, writes, held, disturbed>>

Read ==
    \E r \in Readers :
       \/ \E key \in Keys : Miss(r, key)
       \/ Query(r) \/ Return(r)

----------------------------------------------------------------------------
Next ==
    \/ Write
    \/ Read
    \/ \E g \in Goroutines : Background(g)
    \/ \E u \in Users : ExpireEntity(u)
    \/ \E s \in Slugs : ExpireMapper(s)

\* A goroutine ends within its timeout and every key expires.  Nobody has to send
\* a request.
Fairness ==
    /\ \A g \in Goroutines : WF_vars(Background(g))
    /\ \A u \in Users : WF_vars(ExpireEntity(u))
    /\ \A s \in Slugs : WF_vars(ExpireMapper(s))

Spec == Init /\ [][Next]_vars /\ Fairness

----------------------------------------------------------------------------
\* The commands a job may hold, and the reads under way.
Command ==
    [op : {"set_entity"}, user : Users, row : Row]
    \cup [op : {"set_mapper"}, user : Users, slug : Slugs \cup {None}]
    \cup [op : {"unlink_mapper"}, slug : Slugs \cup {None}]
    \cup [op : {"invalidate"}, user : Users]

ReadRequest == [pc : {"idle", "query", "fetched"}, key : Keys \cup {None},
                user : Users \cup {None}, row : Row \cup {None}]

\* Every variable keeps its type.
TypeOK ==
    /\ db \in [Users -> Row]
    /\ entity \in [Users -> Row \cup {None}]
    /\ mapper \in [Slugs -> Users \cup {None}]
    /\ jobs \in [Goroutines -> Seq(Command)]
    /\ reads \in [Readers -> ReadRequest]
    /\ \A r \in Readers : reads[r].pc # "idle" => reads[r].key \in Keys
    /\ writes \in 0 .. MaxWrites
    /\ held \subseteq Users \X Row
    /\ disturbed \in BOOLEAN

\* What the cache answers is what the database would answer.
HitsAgree ==
    /\ \A u \in Users : entity[u] # None => entity[u] = db[u] /\ db[u].status = "active"
    /\ \A s \in Slugs : mapper[s] # None /\ entity[mapper[s]] # None => entity[mapper[s]].slug = s

\* As long as requests do not overlap and Redis commands arrive, the cache agrees
\* with the database after each of them, whatever expires meanwhile.  Between the
\* expiry of an entity and that of its mapper no request may come: a deletion would
\* leave the mapper, and a refill after the slug went to another user revive it.
CacheIsCoherent == Quiet /\ ~disturbed => HitsAgree

HadSlug(u, s) == \E h \in held : h[1] = u /\ h[2].slug = s

\* The row is one that user really had, and by slug it is a user who had that slug.
Genuine(key, u, row) ==
    /\ <<u, row>> \in held
    /\ IF key[1] = "id" THEN u = key[2] ELSE HadSlug(u, key[2])

\* Under every interleaving the answers from the cache and from a shared call are
\* genuine: nobody is answered with a row no user had, nor by slug with a user who
\* never had it (a former holder of the slug it may be).
AnswersAreGenuine ==
    /\ \A key \in Keys : Hit(key) => Genuine(key, CachedUser(key), entity[CachedUser(key)])
    /\ \A r \in Readers : reads[r].pc = "fetched" =>
          \A key \in {reads[r].key} \cup {k \in Keys : Shares(k, r)} :
             Genuine(key, reads[r].user, reads[r].row)

\* What makes it inductive: the cache, the jobs that will write to it and the calls
\* under way hold nothing but rows and slugs users had.
GenuineCommands ==
    {c \in Command : /\ c.op = "set_entity" => <<c.user, c.row>> \in held
                     /\ c.op = "set_mapper" => HadSlug(c.user, c.slug)}

GenuineInv ==
    /\ \A u \in Users : db[u].status = "active" => <<u, db[u]>> \in held
    /\ \A u \in Users : entity[u] # None => <<u, entity[u]>> \in held
    /\ \A s \in Slugs : mapper[s] # None => HadSlug(mapper[s], s)
    /\ \A g \in Goroutines : jobs[g] \in Seq(GenuineCommands)
    /\ \A r \in Readers :
          reads[r].pc = "fetched" => Genuine(reads[r].key, reads[r].user, reads[r].row)

\* What makes CacheIsCoherent inductive: undisturbed, one job runs at a time.  Only
\* the user it is about is out of step, by what the job has still to do; and
\* while a read queries, every mapper is right.
EntityAgrees(u) == entity[u] # None => entity[u] = db[u] /\ db[u].status = "active"

MapperAgrees(s) ==
    mapper[s] # None => db[mapper[s]].status = "active" /\ db[mapper[s]].slug = s

OthersAgree(u) ==
    /\ \A v \in Users \ {u} : EntityAgrees(v)
    /\ \A s \in Slugs : mapper[s] # u => MapperAgrees(s)

OnlySlug(u, slug) == \A s \in Slugs : mapper[s] = u => s = slug

Refills(commands, u) ==
    /\ db[u].status = "active"
    /\ \/ commands = SetUserToCache(u, db[u]) /\ OnlySlug(u, db[u].slug)
       \/ /\ commands = Tail(SetUserToCache(u, db[u])) /\ OnlySlug(u, db[u].slug)
          /\ EntityAgrees(u)
       \/ \E old \in Slugs \cup {None} :
             /\ commands = <<[op |-> "unlink_mapper", slug |-> old]>> \o SetUserToCache(u, db[u])
             /\ OnlySlug(u, old)

JobsEmpty == \A g \in Goroutines : jobs[g] = <<>>

OneAtATime ==
    /\ \A g, h \in Goroutines : jobs[g] # <<>> /\ jobs[h] # <<>> => g = h
    /\ \A r, q \in Readers : reads[r].pc # "idle" /\ reads[q].pc # "idle" => r = q
    /\ \A r \in Readers : reads[r].pc = "query" => JobsEmpty

CoherentInv ==
    ~disturbed =>
       /\ OneAtATime
       /\ JobsEmpty => HitsAgree
       /\ \A g \in Goroutines : jobs[g] # <<>> =>
             \E u \in Users :
                /\ OthersAgree(u)
                /\ Refills(jobs[g], u) \/ jobs[g] = <<[op |-> "invalidate", user |-> u]>>
       /\ \A r \in Readers : reads[r].pc = "query" => \A s \in Slugs : MapperAgrees(s)

IInv == /\ TypeOK
        /\ GenuineInv
        /\ CoherentInv

\* However requests overlapped and whatever was lost, the cache is wrong only for
\* a time: once writes stop, jobs end and stale keys reach their TTL.
EventuallyCoherent == <>[]HitsAgree

=============================================================================
