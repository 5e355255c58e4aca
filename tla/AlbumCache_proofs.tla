------------------------- MODULE AlbumCache_proofs -------------------------
(***************************************************************************)
(* Proofs about AlbumCache, for every set of users, albums, slugs, direct  *)
(* tokens, concurrent requests and goroutines.                             *)
(***************************************************************************)
EXTENDS AlbumCache, SequenceTheorems, TLAPS

----------------------------------------------------------------------------
(* Commands and jobs.                                                      *)

\* The constants that types are built from.
LEMMA NoRowType == NoRow \in Row /\ [NoRow EXCEPT !.status = "purged"] \in Row
  BY DEF NoRow, Row

\* A reader that asks for nothing is well typed.
LEMMA NoReadType == NoRead \in ReadRequest
  BY DEF NoRead, ReadRequest

\* A refill is a sequence of commands.
LEMMA SetAlbumToCacheType ==
    ASSUME NEW a \in Albums, NEW row \in Row
    PROVE  SetAlbumToCache(a, row) \in Seq(Command)
  <1> DEFINE e == [op |-> "set_entity", album |-> a, row |-> row]
             m == [op |-> "set_mapper", album |-> a, slug |-> row.slug]
             l == [op |-> "set_link", album |-> a, link |-> row.link]
  <1>1. e \in Command
    BY DEF Command
  <1>2. m \in Command
    BY DEF Command, Row
  <1>3. row.link # None => l \in Command
    BY DEF Command, Row
  <1> HIDE DEF e, m, l
  <1>4. <<e, m>> \in Seq(Command)
    BY <1>1, <1>2
  <1>5. (IF row.link # None THEN <<l>> ELSE <<>>) \in Seq(Command)
    BY <1>3
  <1>6. <<e, m>> \o (IF row.link # None THEN <<l>> ELSE <<>>) \in Seq(Command)
    BY <1>4, <1>5, ConcatProperties
  <1> QED BY <1>6 DEF SetAlbumToCache, e, m, l

\* So is an invalidation.
LEMMA InvalidateAlbumCacheType ==
    ASSUME NEW a \in Albums, NEW row \in Row
    PROVE  InvalidateAlbumCache(a, row) \in Seq(Command)
  <1> DEFINE u == [op |-> "unlink_album", album |-> a, slug |-> row.slug]
             l == [op |-> "unlink_link", link |-> row.link]
  <1>1. u \in Command
    BY DEF Command, Row
  <1>2. row.link # None => l \in Command
    BY DEF Command, Row
  <1> HIDE DEF u, l
  <1>3. <<u>> \in Seq(Command)
    BY <1>1
  <1>4. (IF row.link # None THEN <<l>> ELSE <<>>) \in Seq(Command)
    BY <1>2
  <1>5. <<u>> \o (IF row.link # None THEN <<l>> ELSE <<>>) \in Seq(Command)
    BY <1>3, <1>4, ConcatProperties
  <1> QED BY <1>5 DEF InvalidateAlbumCache, u, l

\* And what an update runs, whether the slug changed or not.
LEMMA UpdateCommandsType ==
    ASSUME NEW a \in Albums, NEW old \in Row, NEW row \in Row, NEW changed \in BOOLEAN
    PROVE  (IF changed THEN InvalidateAlbumMapper(a, old.slug) ELSE <<>>)
           \o SetAlbumToCache(a, row) \in Seq(Command)
  <1>1. [op |-> "unlink_mapper", album |-> a, slug |-> old.slug] \in Command
    BY DEF Command, Row
  <1>2. (IF changed THEN InvalidateAlbumMapper(a, old.slug) ELSE <<>>) \in Seq(Command)
    BY <1>1 DEF InvalidateAlbumMapper
  <1> QED BY <1>2, SetAlbumToCacheType, ConcatProperties

\* A goroutine that starts is a goroutine with commands.
LEMMA SpawnType ==
    ASSUME jobs \in [Goroutines -> Seq(Command)], NEW cs \in Seq(Command), Spawn(cs)
    PROVE  jobs' \in [Goroutines -> Seq(Command)]
  BY DEF Spawn

\* The types of the three kinds of cache keys.
CacheType ==
    /\ entity \in [Albums -> Row \cup {None}]
    /\ mapper \in [Users \X Slugs -> Albums \cup {None}]
    /\ linkmap \in [Links -> Albums \cup {None}]

\* A command keeps the cache typed, and lets a slug mapper lead only to an album
\* of the user whose slug it is.
LEMMA RunCache ==
    ASSUME NEW c \in Command, CacheType, MapperInv, Run(c)
    PROVE  CacheType' /\ MapperInv'
  <1>1. CASE c \in [op : {"set_entity"}, album : Albums, row : Row]
    BY <1>1 DEF Run, CacheType, MapperInv
  <1>2. CASE c \in [op : {"set_mapper", "unlink_album", "unlink_mapper"}, album : Albums,
                    slug : Slugs \cup {None}]
    <2> DEFINE k == <<Owner[c.album], c.slug>>
    <2>1. c.album \in Albums /\ linkmap' = linkmap
      BY <1>2 DEF Run
    <2>2. entity' = entity \/ entity' = [entity EXCEPT ![c.album] = None]
      BY <1>2 DEF Run
    <2>3. \E x \in {c.album, None} : mapper' = [mapper EXCEPT ![k] = x]
      BY <1>2 DEF Run
    <2>4. PICK x \in {c.album, None} : mapper' = [mapper EXCEPT ![k] = x]
      BY <2>3
    <2>5. k[1] = Owner[c.album]
      OBVIOUS
    <2> HIDE DEF k
    <2>6. CacheType'
      BY <2>1, <2>2, <2>4 DEF CacheType
    <2>7. MapperInv'
      BY <2>4, <2>5 DEF CacheType, MapperInv
    <2> QED BY <2>6, <2>7
  <1>3. CASE c \in [op : {"set_link"}, album : Albums, link : Links]
    BY <1>3 DEF Run, CacheType, MapperInv
  <1>4. CASE c \in [op : {"unlink_link"}, link : Links]
    BY <1>4 DEF Run, CacheType, MapperInv
  <1> QED BY <1>1, <1>2, <1>3, <1>4 DEF Command

----------------------------------------------------------------------------
(* Steps that leave the reads alone: writes, jobs and expiring keys.       *)

\* The parts of the invariant about reads do not look at the rest of the state.
LEMMA ReadsStand ==
    ASSUME IInv, UNCHANGED reads PROVE CallInv' /\ AnswersAreAuthorised'
  BY DEF IInv, CallInv, AnswersAreAuthorised

\* A step that keeps reads and cache needs to keep the other types only.
LEMMA WriteStep ==
    ASSUME IInv, UNCHANGED <<cache, reads>>,
           db' \in [Albums -> Row], jobs' \in [Goroutines -> Seq(Command)],
           tokenreq' \in [Writers -> TokenRequest \cup {None}],
           made' \subseteq Links, writes' \in 0 .. MaxWrites
    PROVE  IInv'
  <1>1. TypeOK' /\ MapperInv'
    BY DEF IInv, TypeOK, MapperInv, cache
  <1> QED BY <1>1, ReadsStand DEF IInv

\* The bound on the writes is kept by its guard.
LEMMA StartWriteType ==
    ASSUME TypeOK, NEW kind, StartWrite(kind) PROVE writes' \in 0 .. MaxWrites
  BY WritesAssumption DEF TypeOK, StartWrite

\* A write that stores a row and starts a job.
LEMMA StoreInv ==
    ASSUME IInv, NEW kind, StartWrite(kind), NEW a \in Albums, NEW row \in Row,
           NEW cs \in Seq(Command), Store(a, row, cs)
    PROVE  IInv'
  <1>1. /\ db' \in [Albums -> Row] /\ jobs' \in [Goroutines -> Seq(Command)]
        /\ UNCHANGED <<cache, reads, tokenreq, made>>
    BY SpawnType DEF Store, IInv, TypeOK
  <1>2. writes' \in 0 .. MaxWrites
    BY StartWriteType DEF IInv
  <1> QED BY <1>1, <1>2, WriteStep DEF IInv, TypeOK

\* A write that touches nothing but rows.
LEMMA RowsInv ==
    ASSUME IInv, NEW kind, StartWrite(kind), db' \in [Albums -> Row],
           UNCHANGED <<cache, jobs, reads, tokenreq, made>>
    PROVE  IInv'
  <1>1. writes' \in 0 .. MaxWrites
    BY StartWriteType DEF IInv
  <1> QED BY <1>1, WriteStep DEF IInv, TypeOK

\* The album form.
LEMMA EditInv ==
    ASSUME IInv, NEW a \in Albums, NEW s \in Slugs, NEW active \in IsActive,
           NEW guests \in SUBSET (Users \ {Owner[a]}),
           Create(a, s, active, guests) \/ Update(a, s, active, guests)
    PROVE  IInv'
  <1>0. active \in BOOLEAN /\ db[a] \in Row
    BY FlagsAssumption DEF IInv, TypeOK
  <1>1. CASE Create(a, s, active, guests)
    <2> DEFINE row == [status |-> "present", slug |-> s, active |-> active, guests |-> guests,
                       link |-> None]
    <2>1. row \in Row
      BY <1>0 DEF Row
    <2>2. StartWrite("create") /\ Store(a, row, SetAlbumToCache(a, row))
      BY <1>1 DEF Create
    <2> HIDE DEF row
    <2> QED BY <2>1, <2>2, SetAlbumToCacheType, StoreInv
  <1>2. CASE Update(a, s, active, guests)
    <2> DEFINE row == [db[a] EXCEPT !.slug = s, !.active = active, !.guests = guests]
               changed == s # db[a].slug
               cs == (IF changed THEN InvalidateAlbumMapper(a, db[a].slug) ELSE <<>>)
                     \o SetAlbumToCache(a, row)
    <2>1. row \in Row
      BY <1>0 DEF Row
    <2>2. StartWrite("update") /\ Store(a, row, cs)
      BY <1>2 DEF Update
    <2> HIDE DEF row
    <2>3. cs \in Seq(Command)
      BY <1>0, <2>1, UpdateCommandsType
    <2> QED BY <2>1, <2>2, <2>3, StoreInv
  <1> QED BY <1>1, <1>2

\* Switching an album on or off and moving it through the trash.
LEMMA ToggleInv == ASSUME IInv, Toggle PROVE IInv'
  <1>0. db \in [Albums -> Row]
    BY DEF IInv, TypeOK
  <1>1. ASSUME NEW a \in Albums, NEW active \in BOOLEAN, ToggleActive(a, active) PROVE IInv'
    <2>1. [db[a] EXCEPT !.active = active] \in Row
      BY <1>0 DEF Row
    <2> QED BY <1>1, <2>1, SetAlbumToCacheType, StoreInv DEF ToggleActive
  <1>2. ASSUME NEW a \in Albums, Delete(a) PROVE IInv'
    <2>1. [db[a] EXCEPT !.status = "trashed"] \in Row
      BY <1>0 DEF Row
    <2> QED BY <1>2, <2>1, InvalidateAlbumCacheType, StoreInv DEF Delete
  <1>3. ASSUME NEW a \in Albums, Restore(a) PROVE IInv'
    <2>1. PICK s \in Slugs : db' = [db EXCEPT ![a] = [@ EXCEPT !.status = "present", !.slug = s]]
      BY <1>3 DEF Restore
    <2>2. [db[a] EXCEPT !.status = "present", !.slug = s] \in Row
      BY <1>0 DEF Row
    <2>3. db' \in [Albums -> Row]
      BY <1>0, <2>1, <2>2
    <2> QED BY <1>3, <2>3, RowsInv DEF Restore
  <1>4. ASSUME NEW a \in Albums, Purge(a) PROVE IInv'
    <2>1. db' \in [Albums -> Row]
      BY <1>0, <1>4, NoRowType DEF Purge
    <2> QED BY <1>4, <2>1, RowsInv DEF Purge
  <1> QED BY <1>1, <1>2, <1>3, <1>4 DEF Toggle

\* The cascade of a purged user.
LEMMA PurgeUserInv == ASSUME IInv, NEW u \in Users, PurgeUser(u) PROVE IInv'
  <1>1. db' \in [Albums -> Row]
    BY NoRowType DEF PurgeUser, IInv, TypeOK
  <1> QED BY <1>1, RowsInv DEF PurgeUser

\* The direct token: the statement, then the UNLINK and the refill.
LEMMA UpdateDirectTokenInv ==
    ASSUME IInv, NEW w \in Writers, NEW a \in Albums, NEW l \in Links \cup {None},
           UpdateDirectToken(w, a, l)
    PROVE  IInv'
  <1>0. db \in [Albums -> Row] /\ db[a] \in Row
    BY DEF IInv, TypeOK
  <1> DEFINE row == [db[a] EXCEPT !.link = l]
             token == [album |-> a, old |-> db[a].link, row |-> row]
  <1>1. row \in Row
    BY <1>0 DEF Row
  <1>2. token \in TokenRequest
    BY <1>0, <1>1 DEF TokenRequest, Row
  <1>3. /\ db' = [db EXCEPT ![a] = row] /\ tokenreq' = [tokenreq EXCEPT ![w] = token]
        /\ made' = made \cup ({l} \ {None}) /\ UNCHANGED <<cache, jobs, reads>>
    BY DEF UpdateDirectToken
  <1> HIDE DEF row, token
  <1>4. writes' \in 0 .. MaxWrites
    BY StartWriteType DEF UpdateDirectToken, IInv
  <1>5. /\ db' \in [Albums -> Row] /\ tokenreq' \in [Writers -> TokenRequest \cup {None}]
        /\ made' \subseteq Links /\ jobs' \in [Goroutines -> Seq(Command)]
    BY <1>1, <1>2, <1>3 DEF IInv, TypeOK
  <1> QED BY <1>3, <1>4, <1>5, WriteStep

\* A step of the cache that leaves rows and reads alone.
LEMMA CacheStep ==
    ASSUME IInv, CacheType', MapperInv', UNCHANGED <<db, reads, made, writes>>,
           jobs' \in [Goroutines -> Seq(Command)],
           tokenreq' \in [Writers -> TokenRequest \cup {None}]
    PROVE  IInv'
  <1>1. TypeOK'
    BY DEF IInv, TypeOK, CacheType
  <1> QED BY <1>1, ReadsStand DEF IInv

\* UNLINK of the old direct token; whether it is lost or not, the request ends.
LEMMA UnlinkOldTokenInv ==
    ASSUME IInv, NEW w \in Writers, UnlinkOldToken(w) PROVE IInv'
  <1> DEFINE t == tokenreq[w]
             c == [op |-> "unlink_link", link |-> t.old]
  <1>1. t \in TokenRequest /\ UNCHANGED <<db, reads, made, writes>>
    BY DEF UnlinkOldToken, IInv, TypeOK
  <1>2. tokenreq' \in [Writers -> TokenRequest \cup {None}]
    BY DEF UnlinkOldToken, IInv, TypeOK
  <1>3. SetAlbumToCache(t.album, t.row) \in Seq(Command)
    BY <1>1, SetAlbumToCacheType DEF TokenRequest
  <1>4. jobs' \in [Goroutines -> Seq(Command)]
    BY <1>3, SpawnType DEF UnlinkOldToken, IInv, TypeOK
  <1>5. CacheType /\ MapperInv
    BY DEF IInv, TypeOK, CacheType
  <1>6. CASE t.old # None /\ Run(c)
    <2>1. c \in Command
      BY <1>1, <1>6 DEF TokenRequest, Command
    <2> QED BY <1>1, <1>2, <1>4, <1>5, <1>6, <2>1, RunCache, CacheStep
  <1>7. CASE UNCHANGED cache
    BY <1>1, <1>2, <1>4, <1>5, <1>7, CacheStep DEF cache, CacheType, MapperInv
  <1> QED BY <1>6, <1>7 DEF UnlinkOldToken

\* A job runs a command or loses it.
LEMMA BackgroundInv ==
    ASSUME IInv, NEW g \in Goroutines, Background(g) PROVE IInv'
  <1>1. /\ jobs[g] \in Seq(Command) /\ jobs[g] # <<>>
        /\ jobs' = [jobs EXCEPT ![g] = Tail(jobs[g])]
        /\ UNCHANGED <<db, reads, tokenreq, made, writes>>
    BY DEF Background, IInv, TypeOK
  <1>2. Head(jobs[g]) \in Command /\ Tail(jobs[g]) \in Seq(Command)
    BY <1>1, HeadTailProperties
  <1>3. jobs' \in [Goroutines -> Seq(Command)]
    BY <1>1, <1>2 DEF IInv, TypeOK
  <1>4. CacheType /\ MapperInv /\ tokenreq' \in [Writers -> TokenRequest \cup {None}]
    BY <1>1 DEF IInv, TypeOK, CacheType
  <1>5. CASE Run(Head(jobs[g]))
    BY <1>1, <1>2, <1>3, <1>4, <1>5, RunCache, CacheStep
  <1>6. CASE UNCHANGED cache
    BY <1>1, <1>3, <1>4, <1>6, CacheStep DEF cache, CacheType, MapperInv
  <1> QED BY <1>5, <1>6 DEF Background

\* A key that expires leads nowhere.
LEMMA ExpireInv == ASSUME IInv, Expire PROVE IInv'
  <1>1. CacheType' /\ MapperInv'
    BY DEF Expire, IInv, TypeOK, CacheType, MapperInv
  <1> QED BY <1>1, CacheStep DEF Expire, IInv, TypeOK

----------------------------------------------------------------------------
(* Reads.                                                                  *)

\* What a key is made of.
LEMMA KeyParts ==
    ASSUME NEW key \in Keys
    PROVE  /\ key[1] \in {"slug", "id", "link"}
           /\ key[1] = "slug" => key[2] \in Users /\ <<key[2], key[3]>> \in Users \X Slugs
           /\ key[1] = "id" => key[2] \in Albums
           /\ key[1] = "link" => key[2] \in Links
  BY DEF Keys

\* What the checks of the service let through is an authorised answer, if the album
\* is what the key asks for.
Authorised(read) ==
    LET key == read.key
        a == read.album IN
    /\ key[1] = "slug" => /\ Owner[a] = key[2]
                          /\ \/ Owner[a] = read.viewer
                             \/ read.row.active /\ read.viewer \in read.row.guests
    /\ key[1] = "id" => Owner[a] = read.viewer
    /\ key[1] = "link" => read.row.active /\ read.row.link = key[2]

\* The service's checks (Permits) turn whatever row came back, from the cache or
\* from a shared call, into an answer the viewer may have.
LEMMA AnswerIsAuthorised ==
    ASSUME NEW read \in ReadRequest, read.key \in Keys, NEW a \in Albums \cup {None},
           NEW row \in Row \cup {None}, a # None => row \in Row,
           a # None /\ read.key[1] = "slug" => Owner[a] = read.key[2],
           a # None /\ read.key[1] = "link" => row.link = read.key[2]
    PROVE  /\ Answer(read, a, row) \in ReadRequest
           /\ Answer(read, a, row).pc = "done" /\ Answer(read, a, row).leader = None
           /\ Answer(read, a, row).key = read.key
           /\ Answer(read, a, row).album # None => Authorised(Answer(read, a, row))
  <1> DEFINE ok == a # None /\ Permits(a, row, read.key, read.viewer)
             ans == Answer(read, a, row)
  <1>1. /\ ans \in ReadRequest /\ ans.pc = "done" /\ ans.leader = None
        /\ ans.key = read.key /\ ans.viewer = read.viewer
        /\ ans.album = IF ok THEN a ELSE None
        /\ ans.row = IF ok THEN row ELSE None
    BY DEF Answer, ReadRequest
  <1> HIDE DEF ans
  <1>2. ASSUME ans.album # None PROVE Authorised(ans)
    <2>1. ok /\ ans.album = a /\ ans.row = row
      BY <1>1, <1>2
    <2>2. read.key[1] \in {"slug", "id", "link"}
      BY KeyParts
    <2> QED BY <1>1, <2>1, <2>2 DEF Authorised, Permits, CanAccess
  <1> QED BY <1>1, <1>2 DEF ans

\* The invariant of a step that changes nothing but the reads.
LEMMA ReadStep ==
    ASSUME IInv, UNCHANGED <<db, cache, tokenreq, made, writes>>,
           jobs' \in [Goroutines -> Seq(Command)], reads' \in [Readers -> ReadRequest],
           CallInv', AnswersAreAuthorised'
    PROVE  IInv'
  BY DEF IInv, TypeOK, MapperInv, cache

\* What a call has fetched is what its key asks for.
Fetched(read) ==
    read.pc = "fetched" /\ read.album # None =>
       /\ read.row \in Row
       /\ read.key[1] = "slug" => Owner[read.album] = read.key[2]
       /\ read.key[1] = "link" => read.row.active /\ read.row.link = read.key[2]

\* One read moves to new.  If it makes a call, the call goes on.
LEMMA OneRead ==
    ASSUME IInv, NEW r \in Readers, NEW new \in ReadRequest, reads' = [reads EXCEPT ![r] = new],
           new.pc # "idle" => new.key \in Keys,
           new.pc \notin {"fetched", "done"} => new.album = None,
           new.pc # "wait" => new.leader = None,
           new.pc = "wait" => /\ new.leader \in Readers \ {r}
                              /\ reads[new.leader].pc \in {"query", "fetched"}
                              /\ reads[new.leader].key = new.key,
           Fetched(new),
           new.pc = "done" /\ new.album # None => Authorised(new),
           reads[r].pc \in {"query", "fetched"} =>
              new.pc \in {"query", "fetched"} /\ new.key = reads[r].key
    PROVE  reads' \in [Readers -> ReadRequest] /\ CallInv' /\ AnswersAreAuthorised'
  <1>1. /\ reads \in [Readers -> ReadRequest] /\ reads' \in [Readers -> ReadRequest]
        /\ reads'[r] = new /\ \A p \in Readers \ {r} : reads'[p] = reads[p]
    BY DEF IInv, TypeOK
  <1>2. AnswersAreAuthorised'
    BY <1>1 DEF IInv, AnswersAreAuthorised, Authorised
  <1>3. CallInv'
    <2> SUFFICES ASSUME NEW p \in Readers
                 PROVE  /\ reads'[p].pc # "idle" => reads'[p].key \in Keys
                        /\ reads'[p].pc \notin {"fetched", "done"} => reads'[p].album = None
                        /\ reads'[p].pc # "wait" => reads'[p].leader = None
                        /\ reads'[p].pc = "wait" =>
                              /\ reads'[p].leader \in Readers
                              /\ reads'[reads'[p].leader].pc \in {"query", "fetched"}
                              /\ reads'[reads'[p].leader].key = reads'[p].key
                        /\ Fetched(reads'[p])
      BY DEF CallInv, Fetched
    <2>1. CASE p = r
      BY <1>1, <2>1
    <2>2. CASE p # r
      BY <1>1, <2>2 DEF IInv, CallInv, Fetched
    <2> QED BY <2>1, <2>2
  <1> QED BY <1>1, <1>2, <1>3

\* A new request has no answer yet.
LEMMA StartReadInv ==
    ASSUME IInv, NEW r \in Readers, NEW key \in Keys, NEW v \in Viewers(key), StartRead(r, key, v)
    PROVE  IInv'
  <1> DEFINE new == [NoRead EXCEPT !.pc = "lookup", !.key = key, !.viewer = v]
  <1>1. /\ new \in ReadRequest /\ new.pc = "lookup" /\ new.key = key /\ new.leader = None
        /\ new.album = None
    BY DEF NoRead, ReadRequest, Viewers
  <1>2. reads' = [reads EXCEPT ![r] = new] /\ reads[r].pc = "idle"
        /\ UNCHANGED <<db, cache, jobs, tokenreq, made, writes>>
    BY DEF StartRead
  <1> HIDE DEF new
  <1>3. reads' \in [Readers -> ReadRequest] /\ CallInv' /\ AnswersAreAuthorised'
    BY <1>1, <1>2, OneRead DEF Fetched
  <1> QED BY <1>2, <1>3, ReadStep DEF IInv, TypeOK

\* A read that is under way has a key, and what it finds in the cache belongs to it.
LEMMA LookupInv == ASSUME IInv, NEW r \in Readers, Lookup(r) PROVE IInv'
  <1> DEFINE key == reads[r].key
             a == CachedAlbum(key)
  <1>1. /\ reads[r] \in ReadRequest /\ reads[r].pc = "lookup" /\ key \in Keys
        /\ reads[r].leader = None /\ reads[r].album = None
        /\ UNCHANGED <<db, cache, jobs, tokenreq, made, writes>>
    BY DEF Lookup, IInv, TypeOK, CallInv
  <1>2. CASE Hit(a, key, reads[r].viewer) /\ reads' = [reads EXCEPT ![r] = Answer(@, a, entity[a])]
    <2> DEFINE new == Answer(reads[r], a, entity[a])
    <2>1. a \in Albums /\ (key[1] = "slug" => Owner[a] = key[2])
      <3>1. a # None
        BY <1>2 DEF Hit
      <3>2. CASE key[1] = "slug"
        <4>1. <<key[2], key[3]>> \in Users \X Slugs /\ a = mapper[<<key[2], key[3]>>]
          BY <1>1, <3>2, KeyParts DEF CachedAlbum
        <4> QED BY <3>1, <4>1 DEF IInv, TypeOK, MapperInv
      <3>3. CASE key[1] = "id"
        BY <1>1, <3>3, KeyParts DEF CachedAlbum
      <3>4. CASE key[1] = "link"
        <4>1. key[2] \in Links /\ a = linkmap[key[2]]
          BY <1>1, <3>4, KeyParts DEF CachedAlbum
        <4> QED BY <3>1, <3>4, <4>1 DEF IInv, TypeOK
      <3> QED BY <1>1, <3>2, <3>3, <3>4, KeyParts
    <2>2. entity[a] \in Row /\ (key[1] = "link" => entity[a].link = key[2])
      BY <1>2, <2>1 DEF Hit, IInv, TypeOK
    <2>3. /\ new \in ReadRequest /\ new.pc = "done" /\ new.leader = None /\ new.key = key
          /\ new.album # None => Authorised(new)
      BY <1>1, <2>1, <2>2, AnswerIsAuthorised
    <2>4. reads' = [reads EXCEPT ![r] = new]
      BY <1>2
    <2> HIDE DEF new
    <2>5. reads' \in [Readers -> ReadRequest] /\ CallInv' /\ AnswersAreAuthorised'
      BY <1>1, <2>3, <2>4, OneRead DEF Fetched
    <2> QED BY <1>1, <2>5, ReadStep DEF IInv, TypeOK
  <1>3. CASE reads' = [reads EXCEPT ![r] = [@ EXCEPT !.pc = "miss"]]
    <2> DEFINE new == [reads[r] EXCEPT !.pc = "miss"]
    <2>1. /\ new \in ReadRequest /\ new.pc = "miss" /\ new.leader = None /\ new.key = key
          /\ new.album = None /\ reads' = [reads EXCEPT ![r] = new]
      BY <1>1, <1>3 DEF ReadRequest
    <2> HIDE DEF new
    <2>2. reads' \in [Readers -> ReadRequest] /\ CallInv' /\ AnswersAreAuthorised'
      BY <1>1, <2>1, OneRead DEF Fetched
    <2> QED BY <1>1, <2>2, ReadStep DEF IInv, TypeOK
  <1> QED BY <1>2, <1>3 DEF Lookup

\* Joining a call copies the row that call has read, if it has.
LEMMA SingleflightInv == ASSUME IInv, NEW r \in Readers, Singleflight(r) PROVE IInv'
  <1>1. /\ reads[r] \in ReadRequest /\ reads[r].pc = "miss" /\ reads[r].key \in Keys
        /\ reads[r].leader = None /\ reads[r].album = None
        /\ UNCHANGED <<db, cache, jobs, tokenreq, made, writes>>
    BY DEF Singleflight, IInv, TypeOK, CallInv
  <1>2. ASSUME NEW p \in Readers, reads[p].pc \in {"query", "fetched"}, reads[p].key = reads[r].key,
               reads' = [reads EXCEPT ![r] = [@ EXCEPT !.pc = "wait", !.leader = p]]
        PROVE  IInv'
    <2> DEFINE new == [reads[r] EXCEPT !.pc = "wait", !.leader = p]
    <2>1. /\ new \in ReadRequest /\ new.pc = "wait" /\ new.leader = p /\ new.key = reads[r].key
          /\ p # r /\ new.album = None /\ reads' = [reads EXCEPT ![r] = new]
      BY <1>1, <1>2 DEF ReadRequest
    <2> HIDE DEF new
    <2>2. /\ new.leader \in Readers \ {r} /\ Fetched(new) /\ new.key \in Keys
          /\ reads[new.leader].pc \in {"query", "fetched"} /\ reads[new.leader].key = new.key
      BY <1>1, <1>2, <2>1 DEF Fetched
    <2>3. reads' \in [Readers -> ReadRequest] /\ CallInv' /\ AnswersAreAuthorised'
      BY <1>1, <2>1, <2>2, OneRead
    <2> QED BY <1>1, <2>3, ReadStep DEF IInv, TypeOK
  <1>3. CASE reads' = [reads EXCEPT ![r] = [@ EXCEPT !.pc = "query"]]
    <2> DEFINE new == [reads[r] EXCEPT !.pc = "query"]
    <2>1. /\ new \in ReadRequest /\ new.pc = "query" /\ new.leader = None
          /\ new.key = reads[r].key /\ new.album = None /\ reads' = [reads EXCEPT ![r] = new]
      BY <1>1, <1>3 DEF ReadRequest
    <2> HIDE DEF new
    <2>2. reads' \in [Readers -> ReadRequest] /\ CallInv' /\ AnswersAreAuthorised'
      BY <1>1, <2>1, OneRead DEF Fetched
    <2> QED BY <1>1, <2>2, ReadStep DEF IInv, TypeOK
  <1> QED BY <1>2, <1>3 DEF Singleflight

\* The query finds what the key asks for.
LEMMA QueryInv == ASSUME IInv, NEW r \in Readers, Query(r) PROVE IInv'
  <1>1. /\ reads[r] \in ReadRequest /\ reads[r].pc = "query" /\ reads[r].key \in Keys
        /\ reads[r].leader = None /\ reads[r].album = None
        /\ UNCHANGED <<db, cache, tokenreq, made, writes>>
    BY DEF Query, IInv, TypeOK, CallInv, ReadRequest
  <1>2. ASSUME NEW a \in Albums, Matches(a, reads[r].key, reads[r].viewer),
               reads' = [reads EXCEPT ![r] = [@ EXCEPT !.pc = "fetched", !.album = a, !.row = db[a]]],
               Spawn(SetAlbumToCache(a, db[a])) \/ UNCHANGED jobs
        PROVE  IInv'
    <2> DEFINE new == [reads[r] EXCEPT !.pc = "fetched", !.album = a, !.row = db[a]]
    <2>1. db[a] \in Row
      BY DEF IInv, TypeOK
    <2>2. /\ new \in ReadRequest /\ new.pc = "fetched" /\ new.leader = None
          /\ new.key = reads[r].key /\ new.album = a /\ new.row = db[a]
          /\ reads' = [reads EXCEPT ![r] = new]
      BY <1>1, <1>2, <2>1 DEF ReadRequest
    <2> HIDE DEF new
    <2>3. Fetched(new)
      BY <1>1, <1>2, <2>1, <2>2, KeyParts DEF Fetched, Matches
    <2>4. reads' \in [Readers -> ReadRequest] /\ CallInv' /\ AnswersAreAuthorised'
      BY <1>1, <2>2, <2>3, OneRead
    <2>5. jobs' \in [Goroutines -> Seq(Command)]
      BY <1>2, <2>1, SpawnType, SetAlbumToCacheType DEF IInv, TypeOK
    <2> QED BY <1>1, <2>4, <2>5, ReadStep
  <1>3. CASE /\ reads' = [reads EXCEPT ![r] = [@ EXCEPT !.pc = "fetched"]]
             /\ UNCHANGED jobs
    <2> DEFINE new == [reads[r] EXCEPT !.pc = "fetched"]
    <2>1. /\ new \in ReadRequest /\ new.pc = "fetched" /\ new.leader = None
          /\ new.key = reads[r].key /\ new.album = None /\ reads' = [reads EXCEPT ![r] = new]
      BY <1>1, <1>3 DEF ReadRequest
    <2> HIDE DEF new
    <2>2. reads' \in [Readers -> ReadRequest] /\ CallInv' /\ AnswersAreAuthorised'
      BY <1>1, <2>1, OneRead DEF Fetched
    <2> QED BY <1>1, <1>3, <2>2, ReadStep DEF IInv, TypeOK
  <1> QED BY <1>2, <1>3 DEF Query

\* The call returns: its maker and everyone who waits for it get an answer to
\* their own key and their own viewer.
LEMMA ReturnInv == ASSUME IInv, NEW r \in Readers, Return(r) PROVE IInv'
  <1> DEFINE Gets(p) == p = r \/ reads[p].leader = r
             answer(p) == Answer(reads[p], reads[r].album, reads[r].row)
  <1>1. /\ reads \in [Readers -> ReadRequest] /\ reads[r].pc = "fetched"
        /\ reads' = [p \in Readers |-> IF Gets(p) THEN answer(p) ELSE reads[p]]
        /\ UNCHANGED <<db, cache, jobs, tokenreq, made, writes>>
    BY DEF Return, IInv, TypeOK
  <1>2. ASSUME NEW p \in Readers, Gets(p)
        PROVE  /\ answer(p) \in ReadRequest /\ answer(p).pc = "done"
               /\ answer(p).leader = None /\ answer(p).key \in Keys
               /\ answer(p).album # None => Authorised(answer(p))
    <2>1. reads[p].key = reads[r].key /\ reads[p].key \in Keys
      BY <1>1, <1>2, NoneAssumption DEF IInv, CallInv
    <2>2. /\ reads[r].album \in Albums \cup {None} /\ reads[r].row \in Row \cup {None}
          /\ reads[p] \in ReadRequest
      BY <1>1 DEF ReadRequest
    <2>3. reads[r].album # None =>
             /\ reads[r].row \in Row
             /\ reads[p].key[1] = "slug" => Owner[reads[r].album] = reads[p].key[2]
             /\ reads[p].key[1] = "link" => reads[r].row.link = reads[p].key[2]
      BY <1>1, <2>1 DEF IInv, CallInv
    <2> QED BY <2>1, <2>2, <2>3, AnswerIsAuthorised
  <1>3. \A p \in Readers : reads'[p] = IF Gets(p) THEN answer(p) ELSE reads[p]
    BY <1>1
  <1> HIDE DEF answer
  <1>4. reads' \in [Readers -> ReadRequest]
    BY <1>1, <1>2
  <1>5. AnswersAreAuthorised'
    BY <1>2, <1>3 DEF IInv, AnswersAreAuthorised, Authorised
  <1>6. CallInv'
    <2> SUFFICES ASSUME NEW p \in Readers
                 PROVE  /\ reads'[p].pc # "idle" => reads'[p].key \in Keys
                        /\ reads'[p].pc \notin {"fetched", "done"} => reads'[p].album = None
                        /\ reads'[p].pc # "wait" => reads'[p].leader = None
                        /\ reads'[p].pc = "wait" =>
                              /\ reads'[p].leader \in Readers
                              /\ reads'[reads'[p].leader].pc \in {"query", "fetched"}
                              /\ reads'[reads'[p].leader].key = reads'[p].key
                        /\ Fetched(reads'[p])
      BY DEF CallInv, Fetched
    <2>1. CASE Gets(p)
      BY <1>2, <1>3, <2>1 DEF Fetched
    <2>2. CASE ~Gets(p)
      <3>1. reads'[p] = reads[p]
        BY <1>3, <2>2
      <3>2. reads[p].pc = "wait" => reads'[reads[p].leader] = reads[reads[p].leader]
        BY <1>1, <1>3, <2>2, NoneAssumption DEF IInv, CallInv
      <3> QED BY <3>1, <3>2 DEF IInv, CallInv, Fetched
    <2> QED BY <2>1, <2>2
  <1> QED BY <1>1, <1>4, <1>5, <1>6, ReadStep DEF IInv, TypeOK

\* The request is over and leaves nothing behind.
LEMMA EndReadInv == ASSUME IInv, NEW r \in Readers, EndRead(r) PROVE IInv'
  <1>1. /\ NoRead \in ReadRequest /\ NoRead.pc = "idle" /\ NoRead.leader = None
        /\ NoRead.album = None /\ reads[r].pc = "done" /\ reads' = [reads EXCEPT ![r] = NoRead]
        /\ UNCHANGED <<db, cache, jobs, tokenreq, made, writes>>
    BY NoReadType DEF EndRead, NoRead
  <1>2. reads' \in [Readers -> ReadRequest] /\ CallInv' /\ AnswersAreAuthorised'
    BY <1>1, OneRead DEF Fetched
  <1> QED BY <1>1, <1>2, ReadStep DEF IInv, TypeOK

----------------------------------------------------------------------------
(* The invariant.                                                          *)

\* Every read step keeps it.
LEMMA ReadInv == ASSUME IInv, Read PROVE IInv'
  BY StartReadInv, LookupInv, SingleflightInv, QueryInv, ReturnInv, EndReadInv DEF Read

\* Every write step keeps it.
LEMMA WriteInv == ASSUME IInv, Write PROVE IInv'
  BY EditInv, UpdateDirectTokenInv, UnlinkOldTokenInv, ToggleInv, PurgeUserInv DEF Write, Edit

\* So does every step.
LEMMA NextInv == ASSUME IInv, [Next]_vars PROVE IInv'
  <1>1. CASE UNCHANGED vars
    BY <1>1 DEF vars, IInv, TypeOK, MapperInv, CallInv, AnswersAreAuthorised
  <1>2. CASE Next
    BY <1>2, ReadInv, WriteInv, ExpireInv, BackgroundInv DEF Next
  <1> QED BY <1>1, <1>2

\* It holds when the process starts.
LEMMA InitInv == ASSUME Init PROVE IInv
  <1>1. TypeOK
    BY NoRowType, NoReadType, WritesAssumption DEF Init, TypeOK
  <1>2. MapperInv /\ CallInv /\ AnswersAreAuthorised
    BY DEF Init, MapperInv, CallInv, AnswersAreAuthorised, NoRead
  <1> QED BY <1>1, <1>2 DEF IInv

\* The inductive invariant holds in every reachable state, with or without lost
\* commands and expiring keys.
THEOREM Invariance == Spec => []IInv
  BY InitInv, NextInv, PTL DEF Spec

\* Every variable keeps its type.
THEOREM TypeCorrectness == Spec => []TypeOK
  <1>1. IInv => TypeOK
    BY DEF IInv
  <1> QED BY <1>1, Invariance, PTL

\* Whatever is stale in the cache, whoever made the call a request waits for and
\* whatever is lost, a request gets only albums it may have.
THEOREM Authorisation == Spec => []AnswersAreAuthorised
  <1>1. IInv => AnswersAreAuthorised
    BY DEF IInv
  <1> QED BY <1>1, Invariance, PTL

=============================================================================
