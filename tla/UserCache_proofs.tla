-------------------------- MODULE UserCache_proofs --------------------------
(***************************************************************************)
(* Proofs about UserCache, for every set of users, slugs, avatars,         *)
(* concurrent reads and goroutines, whatever table the process finds.      *)
(***************************************************************************)
EXTENDS UserCache, SequenceTheorems, TLAPS

----------------------------------------------------------------------------
(* Commands and jobs.                                                      *)

\* The row of a purged user is well typed.
LEMMA NoRowType == NoRow \in Row /\ [NoRow EXCEPT !.status = "purged"] \in Row
  BY DEF NoRow, Row

\* A reader that asks for nothing is well typed.
LEMMA NoReadType == NoRead \in ReadRequest /\ NoRead.pc = "idle"
  BY DEF NoRead, ReadRequest

\* A refill is two commands.
LEMMA Refill ==
    ASSUME NEW u, NEW row, NEW S,
           [op |-> "set_entity", user |-> u, row |-> row] \in S,
           [op |-> "set_mapper", user |-> u, slug |-> row.slug] \in S
    PROVE  /\ SetUserToCache(u, row) \in Seq(S)
           /\ SetUserToCache(u, row) # <<>>
           /\ Head(SetUserToCache(u, row)) = [op |-> "set_entity", user |-> u, row |-> row]
           /\ Tail(SetUserToCache(u, row))
                 = <<[op |-> "set_mapper", user |-> u, slug |-> row.slug]>>
  <1> DEFINE e == [op |-> "set_entity", user |-> u, row |-> row]
             m == [op |-> "set_mapper", user |-> u, slug |-> row.slug]
  <1>1. e \in S /\ m \in S
    OBVIOUS
  <1> HIDE DEF e, m
  <1>2. <<e, m>> \in Seq(S) /\ <<e, m>> # <<>> /\ Head(<<e, m>>) = e /\ Tail(<<e, m>>) = <<m>>
    BY <1>1
  <1> QED BY <1>2 DEF SetUserToCache, e, m

\* A refill stores the entity first and the mapper second.
LEMMA RefillStages ==
    ASSUME NEW u, NEW row
    PROVE  /\ SetUserToCache(u, row) # <<>>
           /\ Head(SetUserToCache(u, row)) = [op |-> "set_entity", user |-> u, row |-> row]
           /\ Tail(SetUserToCache(u, row))
                 = <<[op |-> "set_mapper", user |-> u, slug |-> row.slug]>>
  <1> DEFINE S == {[op |-> "set_entity", user |-> u, row |-> row],
                   [op |-> "set_mapper", user |-> u, slug |-> row.slug]}
  <1>1. /\ [op |-> "set_entity", user |-> u, row |-> row] \in S
        /\ [op |-> "set_mapper", user |-> u, slug |-> row.slug] \in S
    OBVIOUS
  <1> QED BY <1>1, Refill

\* A job of one command.
LEMMA Single ==
    ASSUME NEW c, NEW S, c \in S
    PROVE  /\ <<c>> \in Seq(S) /\ <<c>> # <<>> /\ Head(<<c>>) = c /\ Tail(<<c>>) = <<>>
  OBVIOUS

\* A command put before a job is the first to run.
LEMMA Prepended ==
    ASSUME NEW S, NEW c \in S, NEW cs \in Seq(S)
    PROVE  /\ <<c>> \o cs \in Seq(S) /\ <<c>> \o cs # <<>>
           /\ Head(<<c>> \o cs) = c /\ Tail(<<c>> \o cs) = cs
  OBVIOUS

\* Sequences over a set are sequences over every larger one.
LEMMA SeqMonotone == ASSUME NEW S, NEW T, S \subseteq T PROVE Seq(S) \subseteq Seq(T)
  <1> SUFFICES ASSUME NEW cs \in Seq(S) PROVE cs \in Seq(T)
    OBVIOUS
  <1>1. Len(cs) \in Nat /\ cs = [i \in 1 .. Len(cs) |-> cs[i]] /\ \A i \in 1 .. Len(cs) : cs[i] \in T
    BY LenProperties, ElementOfSeq
  <1> QED BY <1>1, SeqDef

\* A job starts in one slot.
LEMMA SpawnSlot ==
    ASSUME NEW cs, Spawn(cs)
    PROVE  \E g \in Goroutines : jobs[g] = <<>> /\ jobs' = [jobs EXCEPT ![g] = cs]
  BY DEF Spawn

----------------------------------------------------------------------------
(* The types, and that nothing is cached but what users had.               *)

\* Commands with genuine rows and slugs are commands.
LEMMA CommandsAreTyped == GenuineCommands \subseteq Command
  BY DEF GenuineCommands

\* What users had only grows, and with it the commands a job may hold.
LEMMA GenuineGrows ==
    ASSUME held \subseteq held'
    PROVE  /\ GenuineCommands \subseteq GenuineCommands'
           /\ Seq(GenuineCommands) \subseteq Seq(GenuineCommands')
           /\ Seq(GenuineCommands') \subseteq Seq(Command)
           /\ \A u, s : HadSlug(u, s) => HadSlug(u, s)'
           /\ \A key, u, row : Genuine(key, u, row) => Genuine(key, u, row)'
  <1>1. \A u, s : HadSlug(u, s) => HadSlug(u, s)'
    BY DEF HadSlug
  <1>2. GenuineCommands \subseteq GenuineCommands'
    BY <1>1 DEF GenuineCommands
  <1>3. GenuineCommands' \subseteq Command
    BY DEF GenuineCommands
  <1>4. \A key, u, row : Genuine(key, u, row) => Genuine(key, u, row)'
    BY <1>1 DEF Genuine
  <1> QED BY <1>1, <1>2, <1>3, <1>4, SeqMonotone

\* The refill of a row a user had, and what may come before it.
LEMMA GenuineRefill ==
    ASSUME NEW u \in Users, NEW row \in Row, <<u, row>> \in held'
    PROVE  /\ SetUserToCache(u, row) \in Seq(GenuineCommands')
           /\ SetUserToCache(u, row) # <<>>
  <1>1. [op |-> "set_entity", user |-> u, row |-> row] \in GenuineCommands'
    BY DEF GenuineCommands, Command
  <1>2. HadSlug(u, row.slug)'
    BY DEF HadSlug
  <1>3. [op |-> "set_mapper", user |-> u, slug |-> row.slug] \in GenuineCommands'
    BY <1>2 DEF GenuineCommands, Command, Row
  <1> QED BY <1>1, <1>3, Refill

\* Removing a mapper needs no row.
LEMMA UnlinkIsGenuine ==
    ASSUME NEW slug \in Slugs \cup {None}
    PROVE  [op |-> "unlink_mapper", slug |-> slug] \in GenuineCommands'
  BY DEF GenuineCommands, Command

\* The script of an invalidation needs no row.
LEMMA InvalidateIsGenuine ==
    ASSUME NEW u \in Users
    PROVE  /\ <<[op |-> "invalidate", user |-> u]>> \in Seq(GenuineCommands')
           /\ <<[op |-> "invalidate", user |-> u]>> # <<>>
  <1>1. [op |-> "invalidate", user |-> u] \in GenuineCommands'
    BY DEF GenuineCommands, Command
  <1> QED BY <1>1, Single

\* The state in which both hold.
Sound == TypeOK /\ GenuineInv

\* The jobs under way stay genuine, and so they are with another one.
LEMMA JobsGrow ==
    ASSUME Sound, held \subseteq held',
           UNCHANGED jobs \/ \E cs \in Seq(GenuineCommands') : Spawn(cs)
    PROVE  jobs' \in [Goroutines -> Seq(GenuineCommands')]
  <1>1. jobs \in [Goroutines -> Seq(GenuineCommands')]
    BY GenuineGrows DEF Sound, TypeOK, GenuineInv
  <1>2. CASE UNCHANGED jobs
    BY <1>1, <1>2
  <1>3. ASSUME NEW cs \in Seq(GenuineCommands'), Spawn(cs)
        PROVE  jobs' \in [Goroutines -> Seq(GenuineCommands')]
    <2>1. PICK g \in Goroutines : jobs' = [jobs EXCEPT ![g] = cs]
      BY <1>3, SpawnSlot
    <2> QED BY <1>1, <2>1
  <1> QED BY <1>2, <1>3

\* A write stores a row and perhaps starts a job.
LEMMA StoreSound ==
    ASSUME Sound, NEW u \in Users, NEW row \in Row, Store(u, row),
           UNCHANGED jobs \/ \E cs \in Seq(GenuineCommands') : Spawn(cs)
    PROVE  Sound'
  <1>1. /\ db' = [db EXCEPT ![u] = row] /\ UNCHANGED <<cache, reads>>
        /\ writes' \in 0 .. MaxWrites /\ disturbed' \in BOOLEAN
        /\ held' = IF row.status = "active" THEN held \cup {<<u, row>>} ELSE held
    BY WritesAssumption DEF Store, Sound, TypeOK
  <1>2. held \subseteq held' /\ held' \subseteq Users \X Row
    BY <1>1 DEF Sound, TypeOK
  <1>3. jobs' \in [Goroutines -> Seq(GenuineCommands')]
    BY <1>2, JobsGrow
  <1>4. jobs' \in [Goroutines -> Seq(Command)]
    BY <1>2, <1>3, GenuineGrows
  <1>5. TypeOK'
    BY <1>1, <1>2, <1>4 DEF Sound, TypeOK, cache
  <1>6. GenuineInv'
    <2>1. \A v \in Users : db'[v].status = "active" => <<v, db'[v]>> \in held'
      BY <1>1, <1>2 DEF Sound, TypeOK, GenuineInv
    <2>2. \A v \in Users : entity'[v] # None => <<v, entity'[v]>> \in held'
      BY <1>1, <1>2 DEF Sound, GenuineInv, cache
    <2>3. \A s \in Slugs : mapper'[s] # None => HadSlug(mapper[s], s)'
      BY <1>1, <1>2, GenuineGrows DEF Sound, GenuineInv, cache
    <2>4. \A r \in Readers : reads'[r].pc = "fetched" =>
             Genuine(reads[r].key, reads[r].user, reads[r].row)'
      BY <1>1, <1>2, GenuineGrows DEF Sound, GenuineInv
    <2> QED BY <1>3, <2>1, <2>2, <2>3, <2>4 DEF GenuineInv
  <1> QED BY <1>5, <1>6 DEF Sound

\* Every write stores a row of the table, and starts a job about it.
LEMMA WriteSound == ASSUME Sound, Write PROVE Sound'
  <1>0. db \in [Users -> Row]
    BY DEF Sound, TypeOK
  <1>1. ASSUME NEW u \in Users, NEW row \in Row, row.status = "active", Store(u, row),
               Spawn(SetUserToCache(u, row))
        PROVE  Sound'
    <2>1. <<u, row>> \in held'
      BY <1>1 DEF Store
    <2> QED BY <1>1, <2>1, GenuineRefill, StoreSound
  <1>2. ASSUME NEW u \in Users, NEW row \in Row, Store(u, row),
               Spawn(<<[op |-> "invalidate", user |-> u]>>)
        PROVE  Sound'
    BY <1>2, InvalidateIsGenuine, StoreSound
  <1>3. ASSUME NEW u \in Users, NEW s \in Slugs, NEW avatar \in Avatars \cup {None}, Upsert(u, s, avatar)
        PROVE  Sound'
    <2> DEFINE row == IF db[u].status = "active" THEN [db[u] EXCEPT !.avatar = avatar]
                      ELSE [status |-> "active", slug |-> s, avatar |-> avatar]
    <2>1. row \in Row /\ row.status = "active"
      BY <1>0 DEF Row
    <2>2. Store(u, row) /\ Spawn(SetUserToCache(u, row))
      BY <1>3 DEF Upsert
    <2> HIDE DEF row
    <2> QED BY <1>1, <2>1, <2>2
  <1>4. ASSUME NEW u \in Users, NEW s \in Slugs, NEW avatar \in Avatars \cup {None}, Create(u, s, avatar)
        PROVE  Sound'
    <2> DEFINE row == [status |-> "active", slug |-> s, avatar |-> avatar]
    <2>1. row \in Row /\ row.status = "active"
      BY DEF Row
    <2>2. Store(u, row) /\ Spawn(SetUserToCache(u, row))
      BY <1>4 DEF Create
    <2> HIDE DEF row
    <2> QED BY <1>1, <2>1, <2>2
  <1>5. ASSUME NEW u \in Users, NEW s \in Slugs, NEW avatar \in Avatars \cup {None}, Update(u, s, avatar)
        PROVE  Sound'
    <2> DEFINE row == [db[u] EXCEPT !.slug = s, !.avatar = avatar]
               unlink == <<[op |-> "unlink_mapper", slug |-> db[u].slug]>>
    <2>1. row \in Row /\ row.status = "active" /\ db[u].slug \in Slugs \cup {None}
      BY <1>0, <1>5 DEF Row, Update
    <2>2. Store(u, row) /\ Spawn((IF s # db[u].slug THEN unlink ELSE <<>>) \o SetUserToCache(u, row))
      BY <1>5 DEF Update
    <2>3. <<u, row>> \in held'
      BY <2>1, <2>2 DEF Store
    <2> HIDE DEF row
    <2>4. SetUserToCache(u, row) \in Seq(GenuineCommands')
      BY <2>1, <2>3, GenuineRefill
    <2>5. CASE s # db[u].slug
      <3>1. unlink \o SetUserToCache(u, row) \in Seq(GenuineCommands')
        BY <2>1, <2>4, UnlinkIsGenuine, Prepended
      <3> QED BY <2>1, <2>2, <2>5, <3>1, StoreSound
    <2>6. CASE s = db[u].slug
      <3>1. <<>> \o SetUserToCache(u, row) = SetUserToCache(u, row)
        BY <2>4, ConcatEmptySeq
      <3> QED BY <1>1, <2>1, <2>2, <2>6, <3>1
    <2> QED BY <2>5, <2>6
  <1>6. ASSUME NEW u \in Users, NEW s \in Slugs, RestoreUser(u, s) PROVE Sound'
    <2>1. [db[u] EXCEPT !.status = "active", !.slug = s] \in Row
      BY <1>0 DEF Row
    <2> QED BY <1>6, <2>1, StoreSound DEF RestoreUser
  <1>7. ASSUME NEW u \in Users, Delete(u) PROVE Sound'
    <2>1. [db[u] EXCEPT !.status = "deleted"] \in Row
      BY <1>0 DEF Row
    <2> QED BY <1>2, <1>7, <2>1 DEF Delete
  <1>8. ASSUME NEW u \in Users, PurgeUser(u) PROVE Sound'
    BY <1>2, <1>8, NoRowType DEF PurgeUser
  <1> QED BY <1>3, <1>4, <1>5, <1>6, <1>7, <1>8 DEF Write

\* A goroutine has nothing to write but what users had.
LEMMA BackgroundSound == ASSUME Sound, NEW g \in Goroutines, Background(g) PROVE Sound'
  <1> DEFINE c == Head(jobs[g])
  <1>1. /\ jobs[g] \in Seq(GenuineCommands) /\ jobs[g] # <<>>
        /\ jobs' = [jobs EXCEPT ![g] = Tail(@)]
        /\ UNCHANGED <<db, reads, writes, held>> /\ disturbed' \in BOOLEAN
    BY DEF Background, Sound, TypeOK, GenuineInv
  <1>2. c \in GenuineCommands /\ Tail(jobs[g]) \in Seq(GenuineCommands)
    BY <1>1, HeadTailProperties
  <1>3. jobs' \in [Goroutines -> Seq(GenuineCommands)]
    BY <1>1, <1>2 DEF Sound, TypeOK, GenuineInv
  <1>4. GenuineCommands' = GenuineCommands /\ \A u, s : HadSlug(u, s)' = HadSlug(u, s)
    BY <1>1 DEF GenuineCommands, HadSlug
  <1>5. /\ entity' \in [Users -> Row \cup {None}]
        /\ mapper' \in [Slugs -> Users \cup {None}]
        /\ \A u \in Users : entity'[u] # None => <<u, entity'[u]>> \in held
        /\ \A s \in Slugs : mapper'[s] # None => HadSlug(mapper'[s], s)
    <2>1. CASE UNCHANGED cache
      BY <2>1 DEF cache, Sound, TypeOK, GenuineInv
    <2> HIDE DEF c
    <2>2. CASE c.op = "set_entity" /\ Run(c)
      <3>1. c.user \in Users /\ c.row \in Row /\ <<c.user, c.row>> \in held
        BY <1>2, <2>2 DEF GenuineCommands, Command
      <3> QED BY <2>2, <3>1 DEF Run, Sound, TypeOK, GenuineInv
    <2>3. CASE c.op = "set_mapper" /\ Run(c)
      <3>1. c.user \in Users /\ HadSlug(c.user, c.slug)
        BY <1>2, <2>3 DEF GenuineCommands, Command
      <3> QED BY <2>3, <3>1 DEF Run, Sound, TypeOK, GenuineInv
    <2>4. CASE c.op = "unlink_mapper" /\ Run(c)
      BY <2>4 DEF Run, Sound, TypeOK, GenuineInv
    <2>5. CASE c.op = "invalidate" /\ Run(c)
      BY <2>5 DEF Run, InvalidateUserWithMapper, cache, Sound, TypeOK, GenuineInv
    <2>6. c.op \in {"set_entity", "set_mapper", "unlink_mapper", "invalidate"}
      BY <1>2 DEF GenuineCommands, Command
    <2> QED BY <2>1, <2>2, <2>3, <2>4, <2>5, <2>6 DEF Background, c
  <1>6. jobs' \in [Goroutines -> Seq(Command)]
    BY <1>3, CommandsAreTyped, SeqMonotone
  <1>7. TypeOK'
    BY <1>1, <1>5, <1>6 DEF Sound, TypeOK
  <1>8. GenuineInv'
    BY <1>1, <1>3, <1>4, <1>5 DEF Sound, GenuineInv, Genuine
  <1> QED BY <1>7, <1>8 DEF Sound

\* A key that expires takes nothing else along.
LEMMA ExpirySound ==
    ASSUME Sound, (\E u \in Users : ExpireEntity(u)) \/ \E s \in Slugs : ExpireMapper(s)
    PROVE  Sound'
  <1>1. /\ UNCHANGED <<db, jobs, reads, writes, held, disturbed>>
        /\ entity' \in [Users -> Row \cup {None}]
        /\ mapper' \in [Slugs -> Users \cup {None}]
        /\ \A u \in Users : entity'[u] \in {entity[u], None}
        /\ \A s \in Slugs : mapper'[s] \in {mapper[s], None}
    BY DEF Sound, TypeOK, ExpireEntity, ExpireMapper
  <1>2. TypeOK'
    BY <1>1 DEF Sound, TypeOK
  <1>3. GenuineInv'
    BY <1>1 DEF Sound, GenuineInv, GenuineCommands, HadSlug, Genuine
  <1> QED BY <1>2, <1>3 DEF Sound

\* A read that moves to new, and perhaps starts a refill.
LEMMA ReadStep ==
    ASSUME Sound, NEW r \in Readers, NEW new \in ReadRequest, reads' = [reads EXCEPT ![r] = new],
           new.pc # "idle" => new.key \in Keys,
           new.pc = "fetched" => Genuine(new.key, new.user, new.row),
           UNCHANGED jobs \/ \E cs \in Seq(GenuineCommands') : Spawn(cs),
           UNCHANGED <<db, cache, writes, held>>, disturbed' \in BOOLEAN
    PROVE  Sound'
  <1>1. jobs' \in [Goroutines -> Seq(GenuineCommands')]
    BY JobsGrow
  <1>2. jobs' \in [Goroutines -> Seq(Command)]
    BY <1>1, GenuineGrows
  <1>3. reads' \in [Readers -> ReadRequest] /\ \A q \in Readers : reads'[q] \in {reads[q], new}
    BY DEF Sound, TypeOK
  <1>4. TypeOK'
    BY <1>2, <1>3 DEF Sound, TypeOK, cache
  <1>5. \A q \in Readers : reads'[q].pc = "fetched" =>
           Genuine(reads'[q].key, reads'[q].user, reads'[q].row)
    BY <1>3 DEF Sound, GenuineInv
  <1>6. GenuineInv'
    <2>1. \A v \in Users : db'[v].status = "active" => <<v, db'[v]>> \in held'
      BY DEF Sound, GenuineInv
    <2>2. \A v \in Users : entity'[v] # None => <<v, entity'[v]>> \in held'
      BY DEF Sound, GenuineInv, cache
    <2>3. \A s \in Slugs : mapper'[s] # None => HadSlug(mapper[s], s)'
      BY DEF Sound, GenuineInv, cache, HadSlug
    <2>4. \A q \in Readers : reads'[q].pc = "fetched" =>
             Genuine(reads[q].key, reads[q].user, reads[q].row)'
      BY <1>5 DEF Genuine, HadSlug
    <2>5. mapper' = mapper
      BY DEF cache
    <2> QED BY <1>1, <2>1, <2>2, <2>3, <2>4, <2>5 DEF GenuineInv
  <1> QED BY <1>4, <1>6 DEF Sound

\* A read changes rows, jobs and cache only by expiry and by a refill from the row.
LEMMA ReadSound == ASSUME Sound, NEW r \in Readers, (\E key \in Keys : Miss(r, key)) \/ Query(r) \/ Return(r)
                   PROVE  Sound'
  <1>0. disturbed \in BOOLEAN /\ reads[r] \in ReadRequest /\ db \in [Users -> Row]
    BY DEF Sound, TypeOK
  <1>1. ASSUME NEW key \in Keys, Miss(r, key) PROVE Sound'
    <2> DEFINE new == [NoRead EXCEPT !.pc = "query", !.key = key]
    <2>1. new \in ReadRequest /\ new.pc = "query" /\ new.key = key
      BY DEF NoRead, ReadRequest
    <2>2. /\ reads' = [reads EXCEPT ![r] = new] /\ disturbed' \in BOOLEAN
          /\ UNCHANGED <<db, cache, jobs, writes, held>>
      BY <1>0, <1>1 DEF Miss
    <2> HIDE DEF new
    <2> QED BY <2>1, <2>2, ReadStep
  <1>2. ASSUME reads' = [reads EXCEPT ![r] = NoRead],
               UNCHANGED <<db, cache, jobs, writes, held, disturbed>>
        PROVE  Sound'
    BY <1>0, <1>2, NoReadType, ReadStep
  <1>3. ASSUME NEW u \in Users, db[u].status = "active", reads[r].pc = "query",
               reads[r].key \in {<<"id", u>>, <<"slug", db[u].slug>>},
               reads' = [reads EXCEPT ![r] = [@ EXCEPT !.pc = "fetched", !.user = u, !.row = db[u]]],
               Spawn(SetUserToCache(u, db[u])), UNCHANGED <<db, cache, writes, held, disturbed>>
        PROVE  Sound'
    <2> DEFINE new == [reads[r] EXCEPT !.pc = "fetched", !.user = u, !.row = db[u]]
    <2>1. /\ new \in ReadRequest /\ new.pc = "fetched" /\ new.key = reads[r].key
          /\ new.user = u /\ new.row = db[u] /\ reads' = [reads EXCEPT ![r] = new]
      BY <1>0, <1>3 DEF ReadRequest
    <2>2. <<u, db[u]>> \in held /\ new.key \in Keys
      BY <1>3, <2>1 DEF Sound, TypeOK, GenuineInv
    <2>3. HadSlug(u, db[u].slug)
      BY <2>2 DEF HadSlug
    <2> HIDE DEF new
    <2>4. Genuine(new.key, new.user, new.row)
      BY <1>3, <2>1, <2>2, <2>3 DEF Genuine
    <2>5. SetUserToCache(u, db[u]) \in Seq(GenuineCommands')
      BY <1>0, <1>3, <2>2, GenuineRefill
    <2> QED BY <1>0, <1>3, <2>1, <2>2, <2>4, <2>5, ReadStep
  <1>4. CASE Query(r)
    BY <1>2, <1>3, <1>4 DEF Query
  <1>5. CASE Return(r)
    BY <1>2, <1>5 DEF Return
  <1> QED BY <1>1, <1>4, <1>5

----------------------------------------------------------------------------
(* The cache of a process nobody disturbs.                                 *)

\* When nothing is under way, no key is parted and the hits agree, every key is right.
LEMMA Calm ==
    ASSUME IInv, ~disturbed, Quiet, ~Parted
    PROVE  /\ \A v \in Users : EntityAgrees(v)
           /\ \A s \in Slugs : MapperAgrees(s)
  <1>1. HitsAgree
    BY DEF IInv, CoherentInv, Quiet, JobsEmpty
  <1>2. \A v \in Users : EntityAgrees(v)
    BY <1>1 DEF HitsAgree, EntityAgrees
  <1>3. ASSUME NEW s \in Slugs PROVE MapperAgrees(s)
    <2>1. mapper[s] # None => mapper[s] \in Users /\ entity[mapper[s]] # None
      BY DEF Parted, IInv, TypeOK
    <2> QED BY <1>1, <2>1 DEF HitsAgree, MapperAgrees
  <1> QED BY <1>2, <1>3

\* A write to u starts a job that mends what it has put out of step.
LEMMA StoreCoherent ==
    ASSUME IInv, NEW u \in Users, NEW row \in Row, Store(u, row),
           NEW cs, cs # <<>>, Spawn(cs),
           ~disturbed' => Refills(cs, u)' \/ cs = <<[op |-> "invalidate", user |-> u]>>
    PROVE  CoherentInv'
  <1> SUFFICES ASSUME ~disturbed' PROVE CoherentInv'
    BY DEF CoherentInv
  <1>1. ~disturbed /\ Quiet /\ ~Parted /\ db' = [db EXCEPT ![u] = row] /\ UNCHANGED <<cache, reads>>
    BY DEF Store
  <1>2. PICK g \in Goroutines : jobs' = [jobs EXCEPT ![g] = cs]
    BY SpawnSlot
  <1>3. jobs'[g] = cs /\ \A h \in Goroutines \ {g} : jobs'[h] = <<>>
    BY <1>1, <1>2 DEF IInv, TypeOK, Quiet
  <1>4. OthersAgree(u)'
    <2>1. \A v \in Users \ {u} : EntityAgrees(v)'
      BY <1>1, Calm DEF EntityAgrees, cache, IInv, TypeOK
    <2>2. \A s \in Slugs : mapper'[s] # u => MapperAgrees(s)'
      BY <1>1, Calm DEF MapperAgrees, cache, IInv, TypeOK
    <2> QED BY <2>1, <2>2 DEF OthersAgree
  <1>5. Refills(jobs[g], u)' \/ jobs'[g] = <<[op |-> "invalidate", user |-> u]>>
    BY <1>3 DEF Refills, OnlySlug, EntityAgrees
  <1>6. \A r \in Readers : reads'[r].pc = "idle"
    BY <1>1 DEF Quiet
  <1> QED BY <1>3, <1>4, <1>5, <1>6 DEF CoherentInv, OneAtATime, JobsEmpty

\* An update or a login that leaves the slug alone needs a refill, one that changes
\* it needs the old mapper unlinked first.
LEMMA WriteCoherent == ASSUME IInv, Write, Sound' PROVE CoherentInv'
  <1>0. db \in [Users -> Row] /\ db' \in [Users -> Row]
    BY DEF IInv, Sound, TypeOK
  <1>a. ASSUME NEW u \in Users, NEW row \in Row, Store(u, row), ~disturbed'
        PROVE  /\ db'[u] = row /\ UNCHANGED mapper
               /\ \A s \in Slugs : mapper[s] = u => db[u].status = "active" /\ db[u].slug = s
    <2>1. ~disturbed /\ Quiet /\ ~Parted /\ db' = [db EXCEPT ![u] = row] /\ UNCHANGED cache
      BY <1>a DEF Store
    <2>2. u # None
      BY NoneAssumption
    <2> QED BY <1>0, <2>1, <2>2, Calm DEF MapperAgrees, cache
  <1>1. ASSUME NEW u \in Users, NEW row \in Row, row.status = "active", Store(u, row),
               Spawn(SetUserToCache(u, row)), db[u].status = "active" => row.slug = db[u].slug
        PROVE  CoherentInv'
    <2>1. SetUserToCache(u, row) # <<>>
      BY RefillStages
    <2>2. ~disturbed' => Refills(SetUserToCache(u, row), u)'
      <3> SUFFICES ASSUME ~disturbed' PROVE Refills(SetUserToCache(u, row), u)'
        OBVIOUS
      <3>1. db'[u] = row /\ OnlySlug(u, row.slug)'
        BY <1>1, <1>a DEF OnlySlug
      <3> QED BY <1>1, <3>1 DEF Refills, OnlySlug, SetUserToCache
    <2> QED BY <1>1, <2>1, <2>2, StoreCoherent
  <1>2. ASSUME NEW u \in Users, NEW row \in Row, Store(u, row),
               Spawn(<<[op |-> "invalidate", user |-> u]>>)
        PROVE  CoherentInv'
    BY <1>2, InvalidateIsGenuine, StoreCoherent
  <1>3. ASSUME NEW u \in Users, NEW s \in Slugs, NEW avatar \in Avatars \cup {None}, Upsert(u, s, avatar)
        PROVE  CoherentInv'
    <2> DEFINE row == IF db[u].status = "active" THEN [db[u] EXCEPT !.avatar = avatar]
                      ELSE [status |-> "active", slug |-> s, avatar |-> avatar]
    <2>1. row \in Row /\ row.status = "active" /\ (db[u].status = "active" => row.slug = db[u].slug)
      BY <1>0 DEF Row
    <2>2. Store(u, row) /\ Spawn(SetUserToCache(u, row))
      BY <1>3 DEF Upsert
    <2> HIDE DEF row
    <2> QED BY <1>1, <2>1, <2>2
  <1>4. ASSUME NEW u \in Users, NEW s \in Slugs, NEW avatar \in Avatars \cup {None}, Create(u, s, avatar)
        PROVE  CoherentInv'
    <2> DEFINE row == [status |-> "active", slug |-> s, avatar |-> avatar]
    <2>1. row \in Row /\ row.status = "active" /\ db[u].status # "active"
      BY <1>4 DEF Row, Create
    <2>2. Store(u, row) /\ Spawn(SetUserToCache(u, row))
      BY <1>4 DEF Create
    <2> HIDE DEF row
    <2> QED BY <1>1, <2>1, <2>2
  <1>5. ASSUME NEW u \in Users, NEW s \in Slugs, NEW avatar \in Avatars \cup {None}, Update(u, s, avatar)
        PROVE  CoherentInv'
    <2> DEFINE row == [db[u] EXCEPT !.slug = s, !.avatar = avatar]
               unlink == [op |-> "unlink_mapper", slug |-> db[u].slug]
    <2>1. /\ row \in Row /\ row.status = "active" /\ row.slug = s
          /\ db[u].slug \in Slugs \cup {None}
      BY <1>0, <1>5 DEF Row, Update
    <2>2. Store(u, row) /\ Spawn((IF s # db[u].slug THEN <<unlink>> ELSE <<>>) \o SetUserToCache(u, row))
      BY <1>5 DEF Update
    <2>3. SetUserToCache(u, row) \in Seq(Command)
      BY <2>1, Refill DEF Command, Row
    <2> HIDE DEF row
    <2>4. CASE s # db[u].slug
      <3>0. PICK cs, old : old = db[u].slug
                /\ cs = <<[op |-> "unlink_mapper", slug |-> old]>> \o SetUserToCache(u, row)
        OBVIOUS
      <3>1. cs # <<>>
        BY <2>1, <2>3, <3>0, Prepended DEF Command
      <3>2. ~disturbed' => Refills(cs, u)'
        <4> SUFFICES ASSUME ~disturbed' PROVE Refills(cs, u)'
          OBVIOUS
        <4>1. db'[u] = row /\ OnlySlug(u, old)'
          BY <2>1, <2>2, <3>0, <1>a DEF OnlySlug
        <4> QED BY <2>1, <3>0, <4>1 DEF Refills, OnlySlug, SetUserToCache
      <3>3. Spawn(cs)
        BY <2>2, <2>4, <3>0
      <3> QED BY <2>1, <2>2, <3>1, <3>2, <3>3, StoreCoherent
    <2>5. CASE s = db[u].slug
      <3>1. <<>> \o SetUserToCache(u, row) = SetUserToCache(u, row)
        BY <2>3, ConcatEmptySeq
      <3> QED BY <1>1, <2>1, <2>2, <2>5, <3>1
    <2> QED BY <2>4, <2>5
  <1>6. ASSUME NEW u \in Users, NEW s \in Slugs, RestoreUser(u, s) PROVE CoherentInv'
    <2> DEFINE row == [db[u] EXCEPT !.status = "active", !.slug = s]
    <2>1. row \in Row /\ Store(u, row) /\ UNCHANGED jobs /\ db[u].status = "deleted"
      BY <1>0, <1>6 DEF Row, RestoreUser
    <2> HIDE DEF row
    <2> SUFFICES ASSUME ~disturbed' PROVE CoherentInv'
      BY DEF CoherentInv
    <2>2. /\ ~disturbed /\ Quiet /\ ~Parted /\ db' = [db EXCEPT ![u] = row]
          /\ UNCHANGED <<entity, mapper, reads>>
      BY <2>1 DEF Store, cache
    <2>3. entity[u] = None /\ \A s1 \in Slugs : mapper[s1] # u
      BY <2>1, <2>2, Calm, NoneAssumption DEF EntityAgrees, MapperAgrees
    <2>4. \A v \in Users : EntityAgrees(v)'
      BY <1>0, <2>2, <2>3, Calm DEF EntityAgrees
    <2>5. \A s1 \in Slugs : MapperAgrees(s1)'
      BY <1>0, <2>2, <2>3, Calm DEF MapperAgrees
    <2>6. HitsAgree'
      BY <2>4, <2>5 DEF HitsAgree, EntityAgrees, MapperAgrees, Sound, TypeOK
    <2> QED BY <2>1, <2>2, <2>6 DEF CoherentInv, OneAtATime, JobsEmpty, Quiet
  <1>7. ASSUME NEW u \in Users, Delete(u) PROVE CoherentInv'
    <2>1. [db[u] EXCEPT !.status = "deleted"] \in Row
      BY <1>0 DEF Row
    <2> QED BY <1>2, <1>7, <2>1 DEF Delete
  <1>8. ASSUME NEW u \in Users, PurgeUser(u) PROVE CoherentInv'
    BY <1>2, <1>8, NoRowType DEF PurgeUser
  <1> QED BY <1>3, <1>4, <1>5, <1>6, <1>7, <1>8 DEF Write

\* Keys that are all right make hits that agree.
LEMMA RightKeysAgree ==
    ASSUME TypeOK, NEW u \in Users, OthersAgree(u), EntityAgrees(u),
           entity[u] # None => \A s \in Slugs : mapper[s] = u => MapperAgrees(s)
    PROVE  HitsAgree
  BY DEF TypeOK, OthersAgree, EntityAgrees, MapperAgrees, HitsAgree

\* The only job that runs: its next command brings it to its next stage.
LEMMA BackgroundCoherent ==
    ASSUME IInv, NEW g \in Goroutines, Background(g), Sound' PROVE CoherentInv'
  <1> SUFFICES ASSUME ~disturbed' PROVE CoherentInv'
    BY DEF CoherentInv
  <1> DEFINE c == Head(jobs[g])
  <1>1. /\ ~disturbed /\ jobs[g] # <<>> /\ jobs' = [jobs EXCEPT ![g] = Tail(@)] /\ Run(c)
        /\ UNCHANGED <<db, reads, writes, held>>
    BY DEF Background, IInv, TypeOK
  <1>2. /\ jobs'[g] = Tail(jobs[g])
        /\ \A h \in Goroutines \ {g} : jobs[h] = <<>> /\ jobs'[h] = <<>>
        /\ \A r \in Readers : reads'[r].pc # "query"
    BY <1>1 DEF IInv, TypeOK, CoherentInv, OneAtATime, JobsEmpty
  <1>3. OneAtATime'
    BY <1>1, <1>2 DEF IInv, CoherentInv, OneAtATime
  <1>4. PICK u \in Users : /\ OthersAgree(u)
                           /\ \/ Refills(jobs[g], u)
                              \/ jobs[g] = <<[op |-> "invalidate", user |-> u]>>
    BY <1>1 DEF IInv, CoherentInv
  <1>5. TypeOK /\ TypeOK' /\ u # None /\ db[u] \in Row /\ db' = db
    BY <1>1, NoneAssumption DEF IInv, TypeOK, Sound
  <1>done. ASSUME Tail(jobs[g]) = <<>>, HitsAgree' PROVE CoherentInv'
    BY <1>2, <1>3, <1>done DEF CoherentInv, JobsEmpty
  <1>more. ASSUME Tail(jobs[g]) # <<>>, OthersAgree(u)', Refills(jobs[g], u)' PROVE CoherentInv'
    BY <1>2, <1>3, <1>more DEF CoherentInv, JobsEmpty
  <1>6. CASE jobs[g] = <<[op |-> "invalidate", user |-> u]>>
    <2>1. c = [op |-> "invalidate", user |-> u] /\ Tail(jobs[g]) = <<>>
      BY <1>6
    <2>2. /\ entity'[u] = None /\ \A v \in Users \ {u} : entity'[v] = entity[v]
          /\ \A s \in Slugs : mapper'[s] \in {mapper[s], None}
      BY <1>1, <1>5, <2>1 DEF Run, InvalidateUserWithMapper, cache, TypeOK
    <2>3. OthersAgree(u)' /\ EntityAgrees(u)'
      BY <1>4, <1>5, <2>2 DEF OthersAgree, EntityAgrees, MapperAgrees
    <2>4. HitsAgree'
      BY <1>5, <2>2, <2>3 DEF TypeOK, OthersAgree, EntityAgrees, MapperAgrees, HitsAgree
    <2> QED BY <1>done, <2>1, <2>4
  <1> DEFINE row == db[u]
             set == [op |-> "set_entity", user |-> u, row |-> row]
             map == [op |-> "set_mapper", user |-> u, slug |-> row.slug]
  <1>7. /\ SetUserToCache(u, row) \in Seq({set, map}) /\ SetUserToCache(u, row) # <<>>
        /\ Head(SetUserToCache(u, row)) = set /\ Tail(SetUserToCache(u, row)) = <<map>>
        /\ <<map>> # <<>> /\ Head(<<map>>) = map /\ Tail(<<map>>) = <<>>
    BY Refill, Single
  <1>8. CASE /\ row.status = "active" /\ OnlySlug(u, row.slug)
             /\ jobs[g] = SetUserToCache(u, row)
    <2>1. entity' = [entity EXCEPT ![u] = row] /\ mapper' = mapper /\ Tail(jobs[g]) # <<>>
      BY <1>1, <1>7, <1>8 DEF Run
    <2>2. OthersAgree(u)' /\ EntityAgrees(u)' /\ OnlySlug(u, row.slug)'
      BY <1>4, <1>5, <1>8, <2>1 DEF OthersAgree, EntityAgrees, MapperAgrees, OnlySlug, TypeOK
    <2>3. Refills(jobs[g], u)'
      BY <1>2, <1>5, <1>8, <2>2 DEF Refills, SetUserToCache, OnlySlug
    <2> QED BY <1>more, <2>1, <2>2, <2>3
  <1>9. CASE /\ row.status = "active" /\ OnlySlug(u, row.slug) /\ EntityAgrees(u)
             /\ jobs[g] = Tail(SetUserToCache(u, row))
    <2>1. /\ mapper' = [mapper EXCEPT ![row.slug] = u] /\ entity' = entity
          /\ Tail(jobs[g]) = <<>>
      <3>1. /\ c.op = "set_mapper" /\ c.user = u /\ c.slug = row.slug
            /\ Tail(jobs[g]) = <<>>
        <4>1. jobs[g] = <<map>>
          BY <1>7, <1>9
        <4>2. c = map /\ Tail(jobs[g]) = <<>>
          BY <4>1
        <4> QED BY <4>2
      <3> QED BY <1>1, <3>1 DEF Run
    <2>2. OthersAgree(u)' /\ EntityAgrees(u)'
      BY <1>4, <1>5, <1>9, <2>1 DEF OthersAgree, EntityAgrees, MapperAgrees, TypeOK
    <2>3. \A s \in Slugs : mapper'[s] = u => db'[u].status = "active" /\ db'[u].slug = s
      BY <1>5, <1>9, <2>1 DEF OnlySlug, TypeOK
    <2>4. HitsAgree'
      BY <1>5, <2>2, <2>3 DEF TypeOK, OthersAgree, EntityAgrees, MapperAgrees, HitsAgree
    <2> QED BY <1>done, <2>1, <2>4
  <1>10. ASSUME row.status = "active", NEW old \in Slugs \cup {None}, OnlySlug(u, old),
                jobs[g] = <<[op |-> "unlink_mapper", slug |-> old]>> \o SetUserToCache(u, row)
         PROVE  CoherentInv'
    <2> DEFINE unlink == [op |-> "unlink_mapper", slug |-> old]
    <2>1. SetUserToCache(u, row) \in Seq({unlink, set, map})
      BY Refill
    <2>2. c = unlink /\ Tail(jobs[g]) = SetUserToCache(u, row)
      BY <1>10, <2>1, Prepended
    <2>3. mapper' = [mapper EXCEPT ![old] = None] /\ entity' = entity /\ Tail(jobs[g]) # <<>>
      <3>1. c.op = "unlink_mapper" /\ c.slug = old
        BY <2>2
      <3> QED BY <1>1, <1>7, <2>2, <3>1 DEF Run
    <2>4. OthersAgree(u)' /\ OnlySlug(u, row.slug)'
      BY <1>4, <1>5, <1>10, <2>3, NoneAssumption
         DEF OthersAgree, EntityAgrees, MapperAgrees, OnlySlug, TypeOK
    <2>5. Refills(jobs[g], u)'
      BY <1>2, <1>5, <1>10, <2>2, <2>4 DEF Refills, SetUserToCache, OnlySlug
    <2> QED BY <1>more, <2>3, <2>4, <2>5
  <1> QED BY <1>4, <1>6, <1>8, <1>9, <1>10 DEF Refills

\* A key that expires makes no other key wrong.
LEMMA ExpiryCoherent ==
    ASSUME IInv, (\E u \in Users : ExpireEntity(u)) \/ \E s \in Slugs : ExpireMapper(s)
    PROVE  CoherentInv'
  <1>1. /\ UNCHANGED <<db, jobs, reads, disturbed>>
        /\ \A u \in Users : entity'[u] \in {entity[u], None}
        /\ \A s \in Slugs : mapper'[s] \in {mapper[s], None}
    BY DEF IInv, TypeOK, ExpireEntity, ExpireMapper
  <1>2. \A u \in Users : EntityAgrees(u) => EntityAgrees(u)'
    BY <1>1 DEF EntityAgrees
  <1>3. \A s \in Slugs : MapperAgrees(s) => MapperAgrees(s)'
    BY <1>1 DEF MapperAgrees
  <1>4. \A u \in Users : OthersAgree(u) => OthersAgree(u)'
    <2> SUFFICES ASSUME NEW u \in Users, OthersAgree(u) PROVE OthersAgree(u)'
      OBVIOUS
    <2>1. \A s \in Slugs : mapper'[s] # u => MapperAgrees(s)'
      BY <1>1, <1>3 DEF OthersAgree, MapperAgrees
    <2> QED BY <1>2, <2>1 DEF OthersAgree
  <1>5. \A u \in Users : \A slug : OnlySlug(u, slug) => OnlySlug(u, slug)'
    BY <1>1, NoneAssumption DEF OnlySlug
  <1>6. \A g \in Goroutines, u \in Users : Refills(jobs[g], u) => Refills(jobs[g], u)'
    BY <1>1, <1>2, <1>5 DEF Refills, SetUserToCache
  <1>7. HitsAgree => HitsAgree'
    BY <1>1 DEF HitsAgree, IInv, TypeOK
  <1>8. OneAtATime => OneAtATime'
    BY <1>1 DEF OneAtATime, JobsEmpty
  <1> QED BY <1>1, <1>3, <1>4, <1>6, <1>7, <1>8 DEF IInv, CoherentInv, JobsEmpty

\* The steps of a read leave the keys alone.
LEMMA KeysStand ==
    ASSUME UNCHANGED <<db, cache>>
    PROVE  /\ HitsAgree' = HitsAgree
           /\ \A u \in Users : OthersAgree(u)' = OthersAgree(u)
           /\ \A s \in Slugs : MapperAgrees(s)' = MapperAgrees(s)
           /\ \A u \in Users : \A cs : Refills(cs, u) => /\ db[u].status = "active"
                                                        /\ db' = db
  BY DEF cache, HitsAgree, OthersAgree, EntityAgrees, MapperAgrees, Refills

\* A read that misses starts when every key is right, so that its refill is, too.
LEMMA ReadCoherent ==
    ASSUME IInv, NEW r \in Readers, (\E key \in Keys : Miss(r, key)) \/ Query(r) \/ Return(r)
    PROVE  CoherentInv'
  <1> SUFFICES ASSUME ~disturbed' PROVE CoherentInv'
    BY DEF CoherentInv
  <1>1. ~disturbed /\ UNCHANGED <<db, cache>> /\ reads \in [Readers -> ReadRequest]
        /\ NoRead.pc = "idle"
    BY NoReadType DEF Miss, Query, Return, IInv, TypeOK
  <1>2. \A g \in Goroutines, u \in Users : Refills(jobs[g], u) /\ jobs' = jobs => Refills(jobs[g], u)'
    BY <1>1 DEF Refills, SetUserToCache, OnlySlug, EntityAgrees, cache
  <1>3. CASE \E key \in Keys : Miss(r, key)
    <2>1. /\ Quiet /\ ~Parted /\ UNCHANGED jobs
          /\ \A q \in Readers \ {r} : reads'[q].pc = "idle"
      BY <1>1, <1>3 DEF Miss, Quiet
    <2>2. JobsEmpty' /\ OneAtATime'
      BY <2>1 DEF Quiet, JobsEmpty, OneAtATime
    <2>3. HitsAgree' /\ \A s \in Slugs : MapperAgrees(s)'
      BY <1>1, <2>1, Calm, KeysStand DEF IInv, CoherentInv, Quiet, JobsEmpty
    <2> QED BY <2>2, <2>3 DEF CoherentInv, JobsEmpty
  <1>4. ASSUME reads' = [reads EXCEPT ![r] = NoRead], UNCHANGED jobs PROVE CoherentInv'
    <2>1. \A q \in Readers : reads'[q].pc # "idle" => reads'[q] = reads[q]
      BY <1>1, <1>4
    <2>2. OneAtATime'
      BY <1>1, <1>4, <2>1 DEF IInv, CoherentInv, OneAtATime, JobsEmpty
    <2> QED BY <1>1, <1>2, <1>4, <2>1, <2>2, KeysStand DEF IInv, CoherentInv, JobsEmpty
  <1>5. ASSUME NEW u \in Users, db[u].status = "active", reads[r].pc = "query",
               reads' = [reads EXCEPT ![r] = [@ EXCEPT !.pc = "fetched", !.user = u, !.row = db[u]]],
               Spawn(SetUserToCache(u, db[u]))
        PROVE  CoherentInv'
    <2>1. JobsEmpty /\ HitsAgree /\ \A s \in Slugs : MapperAgrees(s)
      BY <1>1, <1>5 DEF IInv, CoherentInv, OneAtATime
    <2>2. PICK g \in Goroutines : jobs' = [jobs EXCEPT ![g] = SetUserToCache(u, db[u])]
      BY <1>5, SpawnSlot
    <2>3. jobs'[g] = SetUserToCache(u, db[u]) /\ \A h \in Goroutines \ {g} : jobs'[h] = <<>>
      BY <2>1, <2>2 DEF IInv, TypeOK, JobsEmpty
    <2>4. \A q \in Readers : q # r => reads[q].pc = "idle"
      BY <1>1, <1>5 DEF IInv, CoherentInv, OneAtATime
    <2>5. reads'[r].pc = "fetched" /\ \A q \in Readers : q # r => reads'[q].pc = "idle"
      BY <1>1, <1>5, <2>4 DEF ReadRequest
    <2>6. SetUserToCache(u, db[u]) # <<>>
      BY RefillStages
    <2>7. OneAtATime' /\ ~JobsEmpty'
      BY <2>3, <2>5, <2>6 DEF OneAtATime, JobsEmpty
    <2>8. OthersAgree(u)'
      BY <1>1, <2>1, KeysStand DEF OthersAgree, HitsAgree, EntityAgrees
    <2>9. OnlySlug(u, db[u].slug)'
      BY <1>1, <2>1, NoneAssumption DEF OnlySlug, MapperAgrees, cache
    <2>10. Refills(jobs[g], u)'
      BY <1>1, <1>5, <2>3, <2>9 DEF Refills, SetUserToCache, OnlySlug
    <2> QED BY <2>3, <2>5, <2>7, <2>8, <2>10 DEF CoherentInv, JobsEmpty
  <1>6. CASE Query(r)
    BY <1>4, <1>5, <1>6 DEF Query
  <1>7. CASE Return(r)
    BY <1>4, <1>7 DEF Return
  <1> QED BY <1>3, <1>6, <1>7

----------------------------------------------------------------------------
(* The theorems.                                                           *)

\* Whatever table the process finds, it starts with an empty cache.
LEMMA InitInv == ASSUME Init PROVE IInv
  <1>1. db \in [Users -> Row]
    BY RegisteredAssumption DEF Init
  <1>2. TypeOK
    <2>1. held \subseteq Users \X Row
      BY <1>1 DEF Init, Row
    <2>2. jobs \in [Goroutines -> Seq(Command)] /\ reads \in [Readers -> ReadRequest]
      BY NoReadType DEF Init
    <2>3. \A r \in Readers : reads[r].pc = "idle"
      BY NoReadType DEF Init
    <2>4. entity \in [Users -> Row \cup {None}] /\ mapper \in [Slugs -> Users \cup {None}]
      BY DEF Init
    <2>5. writes \in 0 .. MaxWrites
      BY WritesAssumption DEF Init
    <2>6. disturbed \in BOOLEAN
      BY DEF Init
    <2> QED BY <1>1, <2>1, <2>2, <2>3, <2>4, <2>5, <2>6 DEF TypeOK
  <1>3. GenuineInv
    <2>1. ASSUME NEW u \in Users, db[u].status = "active" PROVE <<u, db[u]>> \in held
      <3>1. db[u] # NoRow /\ [db[u] EXCEPT !.status = "active"] = db[u]
        BY <1>1, <2>1 DEF NoRow, Row
      <3> QED BY <3>1 DEF Init
    <2>2. \A g \in Goroutines : jobs[g] \in Seq(GenuineCommands)
      BY DEF Init
    <2>3. \A r \in Readers : reads[r].pc # "fetched"
      BY NoReadType DEF Init
    <2> QED BY <2>1, <2>2, <2>3 DEF Init, GenuineInv
  <1>4. CoherentInv
    <2>1. \A r \in Readers : reads[r].pc = "idle"
      BY NoReadType DEF Init
    <2> QED BY <2>1 DEF Init, CoherentInv, OneAtATime, JobsEmpty, HitsAgree
  <1> QED BY <1>2, <1>3, <1>4 DEF IInv

\* Every step keeps the invariant.
LEMMA NextInv == ASSUME IInv, [Next]_vars PROVE IInv'
  <1>0. Sound
    BY DEF IInv, Sound
  <1>1. CASE Write
    BY <1>0, <1>1, WriteSound, WriteCoherent DEF IInv, Sound
  <1>2. CASE Read
    BY <1>0, <1>2, ReadSound, ReadCoherent DEF Read, IInv, Sound
  <1>3. ASSUME NEW g \in Goroutines, Background(g) PROVE IInv'
    BY <1>0, <1>3, BackgroundSound, BackgroundCoherent DEF IInv, Sound
  <1>4. CASE (\E u \in Users : ExpireEntity(u)) \/ \E s \in Slugs : ExpireMapper(s)
    BY <1>0, <1>4, ExpirySound, ExpiryCoherent DEF IInv, Sound
  <1>5. CASE UNCHANGED vars
    <2>1. UNCHANGED <<db, entity, mapper, jobs, reads, writes, held, disturbed>>
      BY <1>5 DEF vars
    <2>2. TypeOK'
      BY <2>1 DEF IInv, TypeOK
    <2>3. GenuineCommands' = GenuineCommands
      BY <2>1 DEF GenuineCommands, HadSlug
    <2>4. GenuineInv'
      <3>1. /\ \A u, s : HadSlug(u, s)' = HadSlug(u, s)
            /\ \A key, u, row : Genuine(key, u, row)' = Genuine(key, u, row)
        BY <2>1 DEF HadSlug, Genuine
      <3>2. \A s \in Slugs : mapper'[s] # None => HadSlug(mapper[s], s)'
        BY <2>1, <3>1 DEF IInv, GenuineInv
      <3>3. \A r \in Readers : reads'[r].pc = "fetched" =>
               Genuine(reads[r].key, reads[r].user, reads[r].row)'
        BY <2>1, <3>1 DEF IInv, GenuineInv
      <3> QED BY <2>1, <2>3, <3>2, <3>3 DEF IInv, GenuineInv
    <2>5. CoherentInv'
      <3>1. OneAtATime' = OneAtATime /\ JobsEmpty' = JobsEmpty /\ HitsAgree' = HitsAgree
        BY <2>1 DEF OneAtATime, JobsEmpty, HitsAgree
      <3>2. /\ \A u \in Users : OthersAgree(u)' = OthersAgree(u)
            /\ \A s \in Slugs : MapperAgrees(s)' = MapperAgrees(s)
        BY <2>1 DEF OthersAgree, EntityAgrees, MapperAgrees
      <3>3. \A g \in Goroutines, u \in Users : Refills(jobs[g], u) => Refills(jobs[g], u)'
        BY <2>1 DEF Refills, OnlySlug, EntityAgrees, SetUserToCache
      <3> QED BY <2>1, <3>1, <3>2, <3>3 DEF IInv, CoherentInv
    <2> QED BY <2>2, <2>4, <2>5 DEF IInv
  <1> QED BY <1>1, <1>2, <1>3, <1>4, <1>5 DEF Next

\* The inductive invariant of the users and their cache, under every interleaving of
\* requests, goroutines and expiries and whatever Redis command is lost.
THEOREM Invariance == Spec => []IInv
  <1>1. Init => IInv
    BY InitInv
  <1>2. IInv /\ [Next]_vars => IInv'
    BY NextInv
  <1> QED BY <1>1, <1>2, PTL DEF Spec

\* Every variable keeps its type.
THEOREM TypeCorrectness == Spec => []TypeOK
  <1>1. IInv => TypeOK
    BY DEF IInv
  <1> QED BY <1>1, Invariance, PTL

\* As long as requests do not overlap and no command is lost, what the cache answers
\* when nothing is under way is what GetAvailableUser would find.
THEOREM Coherence == Spec => []CacheIsCoherent
  <1>1. IInv => CacheIsCoherent
    BY DEF IInv, CoherentInv, CacheIsCoherent, Quiet, JobsEmpty
  <1> QED BY <1>1, Invariance, PTL

\* Nobody is answered with a row no user had, nor by slug with a user who never had it.
THEOREM Genuineness == Spec => []AnswersAreGenuine
  <1>1. ASSUME IInv PROVE AnswersAreGenuine
    <2>1. ASSUME NEW key \in Keys, Hit(key)
          PROVE  Genuine(key, CachedUser(key), entity[CachedUser(key)])
      <3>1. CASE key[1] = "id"
        <4>1. CachedUser(key) = key[2] /\ key[2] \in Users
          BY <3>1 DEF CachedUser, Keys
        <4> QED BY <1>1, <2>1, <3>1, <4>1 DEF IInv, GenuineInv, Hit, Genuine
      <3>2. CASE key[1] # "id"
        <4>1. CachedUser(key) = mapper[key[2]] /\ key[2] \in Slugs
          BY <3>2 DEF CachedUser, Keys
        <4>2. CachedUser(key) \in Users
          BY <1>1, <2>1, <4>1 DEF IInv, TypeOK, Hit
        <4> QED BY <1>1, <2>1, <3>2, <4>1, <4>2 DEF IInv, GenuineInv, Hit, Genuine
      <3> QED BY <3>1, <3>2
    <2>2. ASSUME NEW r \in Readers, reads[r].pc = "fetched",
                 NEW key \in {reads[r].key} \cup {k \in Keys : Shares(k, r)}
          PROVE  Genuine(key, reads[r].user, reads[r].row)
      BY <1>1, <2>2 DEF IInv, GenuineInv, Shares
    <2> QED BY <2>1, <2>2 DEF AnswersAreGenuine
  <1> QED BY <1>1, Invariance, PTL
=============================================================================
