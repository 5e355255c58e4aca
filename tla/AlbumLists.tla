----------------------------- MODULE AlbumLists -----------------------------
(***************************************************************************)
(* The paginated lists of albums (ListAvailable, ListOwned and ListTrashed *)
(* of internal/domain/albums) on top of the albums and their cache.        *)
(*                                                                         *)
(* A client walks through a list: each page is a request, and the cursor   *)
(* of one page asks for the next.  A page of ids comes from the database,  *)
(* the albums themselves from the cache, those the cache does not have     *)
(* from a second query that also refills it.  Writes may happen between    *)
(* any two of these steps, and between two pages.                          *)
(*                                                                         *)
(* The TTL of a key matters to a list when it looks for the key, and only  *)
(* there a key may be gone.                                                *)
(*                                                                         *)
(* Album ids are numbers, because the lists are ordered by date and id.    *)
(***************************************************************************)
EXTENDS AlbumCache, SequencesExt

CONSTANTS
    Listers,        \* clients that walk through lists
    PerPage,        \* albumsPerPage
    Dates           \* values of date_at

\* A place in a list: the columns it is ordered by.
Places == [t : Nat, id : Albums]

ASSUME AlbumsAssumption == Albums \subseteq Nat /\ IsFiniteSet(Albums) /\ Dates \subseteq Nat
ASSUME PerPageAssumption == PerPage \in Nat \ {0}
ASSUME NoRecordAssumption ==
    None \notin Row /\ None \notin TokenRequest /\ None \notin Places

VARIABLES
    dateAt,         \* dateAt[a]: the date the owner gave album a
    deletedAt,      \* deletedAt[a]: when a was last deleted, by the clock of writes
    lists,          \* lists[l]: the walk of client l
    strays          \* history: albums with cached copies that outlive their deletion

lvars == <<dateAt, deletedAt, lists, strays>>

\* rows are the ids and dates of a page, found the albums it answers with and
\* next its cursor.  History: clean, no write since the request began; shown,
\* the rows of the pages delivered so far; steady, the albums in the list at the
\* first page that were not written since.
NoList == [pc |-> "none", kind |-> None, owner |-> None, viewer |-> None, cursor |-> None,
           rows |-> <<>>, found |-> [a \in Albums |-> None], next |-> None,
           clean |-> TRUE, shown |-> <<>>, steady |-> {}]

LInit ==
    /\ Init
    /\ dateAt = [a \in Albums |-> 0]
    /\ deletedAt = [a \in Albums |-> 0]
    /\ lists = [l \in Listers |-> NoList]
    /\ strays = {}

----------------------------------------------------------------------------
(* The queries.                                                            *)

\* A plausible slip: ListAvailableAlbumIDs forgets is_active.
InListInactive(a, q) ==
    /\ Owner[a] = q.owner
    /\ CASE q.kind = "available" -> db[a].status = "present" /\ q.viewer \in db[a].guests
         [] q.kind = "owned" -> db[a].status = "present"
         [] q.kind = "trashed" -> db[a].status = "trashed"

\* WHERE of ListAvailableAlbumIDs, ListOwnedAlbumIDs and ListTrashedAlbums.
InList(a, q) ==
    /\ Owner[a] = q.owner
    /\ CASE q.kind = "available" ->
               db[a].status = "present" /\ db[a].active /\ q.viewer \in db[a].guests
         [] q.kind = "owned" -> db[a].status = "present"
         [] q.kind = "trashed" -> db[a].status = "trashed"

\* The columns a list is ordered by; this is also what a cursor holds.
Position(a, q) == [t |-> IF q.kind = "trashed" THEN deletedAt[a] ELSE dateAt[a], id |-> a]

\* ORDER BY date_at DESC, id DESC (deleted_at in the trash).
Precedes(p, r) == p.t > r.t \/ (p.t = r.t /\ p.id > r.id)

\* A plausible slip: date_at <= the date of the cursor.
BeyondInclusive(cursor, p) == cursor = None \/ p.t <= cursor.t

\* The row comparison with the cursor; no cursor is the first page.
Beyond(cursor, p) == cursor = None \/ p.t < cursor.t \/ (p.t = cursor.t /\ p.id < cursor.id)

\* The elements of S in the order of before.  It is a choice that can be reasoned
\* about; SetToSortSeq and SelectSeq are not defined for the provers.
Ordered(S, before(_, _)) ==
    CHOOSE s \in [1 .. Cardinality(S) -> S] :
        \A i, j \in 1 .. Cardinality(S) : i < j => before(s[i], s[j])

\* The rows of the list beyond the cursor.
RowsLeft(q) == {p \in {Position(a, q) : a \in {b \in Albums : InList(b, q)}} :
                   Beyond(q.cursor, p)}

\* One row more than the page holds tells whether there is another page.
PageRows(q, limit) ==
    LET all == Ordered(RowsLeft(q), Precedes) IN
    SubSeq(all, 1, IF Len(all) > limit THEN limit + 1 ELSE Len(all))

\* A plausible slip: the cursor is taken before the page is cut.
NextCursorUncut(rows, limit) == IF Len(rows) = limit + 1 THEN Last(rows) ELSE None

\* The cursor of the next page is the last row of this one.
NextCursor(rows, limit) == IF Len(rows) = limit + 1 THEN rows[limit] ELSE None

----------------------------------------------------------------------------
(* A request for a page.                                                   *)

\* The trash is answered by its query; the other lists go to the cache unless
\* the page is empty.
Page(q, limit) ==
    LET rows == PageRows(q, limit)
        page == SubSeq(rows, 1, IF Len(rows) > limit THEN limit ELSE Len(rows)) IN
    [q EXCEPT !.pc = IF q.kind = "trashed" \/ rows = <<>> THEN "done" ELSE "mget",
              !.rows = page,
              !.next = NextCursor(rows, limit),
              !.found = [a \in Albums |->
                  IF q.kind = "trashed" /\ \E i \in DOMAIN page : page[i].id = a
                  THEN db[a] ELSE None],
              !.clean = TRUE]

\* AvailableList shows the owner the owned list.  A limit that is zero, negative
\* or too large becomes PerPage.
FirstPage(l, kind, u, v, limit) ==
    LET q == [NoList EXCEPT !.kind = kind, !.owner = u, !.viewer = v] IN
    /\ kind = "available" <=> u # v
    /\ lists[l].pc = "none"
    /\ Serial => Quiet
    /\ lists' = [lists EXCEPT ![l] =
           Page([q EXCEPT !.steady = {a \in Albums : InList(a, q)}], limit)]
    /\ UNCHANGED <<vars, dateAt, deletedAt, strays>>

NextPage(l, limit) ==
    /\ lists[l].pc = "page"
    /\ Serial => Quiet
    /\ lists' = [lists EXCEPT ![l] = Page(@, limit)]
    /\ UNCHANGED <<vars, dateAt, deletedAt, strays>>

OnPage(l) == {lists[l].rows[i].id : i \in DOMAIN lists[l].rows}

\* cache.MGetItems.  Keys may have reached their TTL, and if MGET fails all
\* albums are missing.
MGetItems(l) ==
    /\ lists[l].pc = "mget"
    /\ \E hits \in SUBSET {a \in OnPage(l) : entity[a] # None} :
          LET found == [a \in Albums |-> IF a \in hits THEN entity[a] ELSE None] IN
          lists' = [lists EXCEPT ![l] = [@ EXCEPT !.found = found, !.pc =
              IF hits # OnPage(l) THEN "missing" ELSE "done"]]
    /\ UNCHANGED <<vars, dateAt, deletedAt, strays>>

\* One goroutine for every element of commands.
SpawnAll(commands) ==
    \E slot \in [commands -> {g \in Goroutines : jobs[g] = <<>>}] :
       /\ IsInjective(slot)
       /\ jobs' = [g \in Goroutines |->
              IF \E c \in commands : slot[c] = g
              THEN CHOOSE c \in commands : slot[c] = g ELSE jobs[g]]

\* GetAlbumsByIDs asks for the id and nothing else: it finds an album that was
\* deleted since the ids were read, and the refill caches it.  A failure of the
\* query fails the request.
GetAlbumsByIDs(l) ==
    LET missing == {a \in OnPage(l) : lists[l].found[a] = None}
        got == {a \in missing : db[a].status \in {"present", "trashed"}} IN
    /\ lists[l].pc = "missing"
    /\ \/ /\ lists' = [lists EXCEPT ![l] = [@ EXCEPT !.pc = "done",
                 !.found = [a \in Albums |-> IF a \in got THEN db[a] ELSE lists[l].found[a]]]]
          /\ SpawnAll({SetAlbumToCache(a, db[a]) : a \in got})
          /\ strays' = strays \cup {a \in got : db[a].status = "trashed"}
       \/ lists' = [lists EXCEPT ![l] = NoList] /\ UNCHANGED <<jobs, strays>>
    /\ UNCHANGED <<db, cache, reads, tokenreq, made, writes, dateAt, deletedAt>>

\* The albums that were found, in the order of the ids.
FinalAlbums(q) ==
    LET kept == {i \in DOMAIN q.rows : q.found[q.rows[i].id] # None}
        order == Ordered(kept, <) IN
    [n \in 1 .. Cardinality(kept) |-> q.rows[order[n]]]

\* The client has its page; without a cursor it has the whole list.
Paginated(l) ==
    LET q == lists[l] IN
    /\ q.pc = "done"
    /\ lists' = [lists EXCEPT ![l] =
           [q EXCEPT !.pc = IF q.next = None THEN "end" ELSE "page",
                     !.cursor = q.next, !.shown = q.shown \o FinalAlbums(q),
                     !.rows = <<>>, !.next = None, !.found = NoList.found, !.clean = TRUE]]
    /\ UNCHANGED <<vars, dateAt, deletedAt, strays>>

EndWalk(l) ==
    /\ lists[l].pc \in {"page", "end"}
    /\ lists' = [lists EXCEPT ![l] = NoList]
    /\ UNCHANGED <<vars, dateAt, deletedAt, strays>>

----------------------------------------------------------------------------
\* What a write does to the dates, and to the history of the walks under way.
Dated ==
    /\ deletedAt' = [a \in Albums |->
           IF db'[a].status = "trashed" /\ db[a].status # "trashed" THEN writes' ELSE deletedAt[a]]
    /\ lists' = [l \in Listers |->
           [lists[l] EXCEPT
               !.clean = lists[l].pc \in {"none", "page", "end"},
               !.steady = {a \in @ : db'[a] = db[a] /\ dateAt'[a] = dateAt[a]}]]

LWrite ==
    \/ \E a \in Albums, s \in Slugs, active \in IsActive, d \in Dates :
          \E guests \in SUBSET (Users \ {Owner[a]}) :
             /\ Create(a, s, active, guests) \/ Update(a, s, active, guests)
             /\ dateAt' = [dateAt EXCEPT ![a] = d]
             /\ Dated /\ UNCHANGED strays
    \/ \E w \in Writers, a \in Albums, t \in Links \cup {None} :
          UpdateDirectToken(w, a, t) /\ UNCHANGED <<dateAt, strays>> /\ Dated
    \/ Toggle /\ UNCHANGED <<dateAt, strays>> /\ Dated
    \/ \E u \in Users :
          /\ PurgeUser(u) /\ UNCHANGED dateAt /\ Dated
          /\ strays' = strays \cup {a \in Albums : Owner[a] = u}

List ==
    \E l \in Listers :
       \/ \E kind \in {"available", "owned", "trashed"}, u, v \in Users, limit \in 1 .. PerPage :
             FirstPage(l, kind, u, v, limit)
       \/ \E limit \in 1 .. PerPage : NextPage(l, limit)
       \/ MGetItems(l) \/ GetAlbumsByIDs(l) \/ Paginated(l) \/ EndWalk(l)

ListsIdle == \A l \in Listers : lists[l].pc \in {"none", "page", "end"}

\* With Serial, writes are all that overlaps a request for a page.
LNext ==
    \/ LWrite
    \/ List
    \/ Read /\ (Serial => ListsIdle) /\ UNCHANGED lvars
    \/ /\ (\E w \in Writers : UnlinkOldToken(w)) \/ (\E g \in Goroutines : Background(g))
       /\ UNCHANGED lvars

LSpec == LInit /\ [][LNext]_<<vars, lvars>>

----------------------------------------------------------------------------
Walk == [pc : {"none", "mget", "missing", "done", "page", "end"},
         kind : {"available", "owned", "trashed", None},
         owner : Users \cup {None}, viewer : Users \cup {None},
         cursor : Places \cup {None}, next : Places \cup {None},
         rows : Seq(Places), shown : Seq(Places),
         found : [Albums -> Row \cup {None}], clean : BOOLEAN, steady : SUBSET Albums]

\* Every variable keeps its type.
LTypeOK ==
    /\ TypeOK
    /\ dateAt \in [Albums -> Nat] /\ deletedAt \in [Albums -> Nat]
    /\ strays \subseteq Albums
    /\ lists \in [Listers -> Walk]

\* When requests for single albums do not overlap and Redis answers, every write
\* leaves a coherent cache behind, whatever the lists refill meanwhile.  The
\* exceptions are albums that were deleted while a list was about to fetch them
\* (hydrateAlbumsList) and those a purge of their owner removes by cascade.
CacheIsCoherent == CoherentExcept(strays)

\* The pages of a walk follow each other in the order of the list without going
\* back, so no album comes twice in one place, whatever is written between them.
PagesDescend ==
    \A l \in Listers : \A i, j \in DOMAIN lists[l].shown :
       i < j => Precedes(lists[l].shown[i], lists[l].shown[j])

\* A walk that reached its last page has shown every album that was in the list
\* at the first page and was not written since, whatever happened to others.
NoAlbumSkipped ==
    \A l \in Listers : lists[l].pc = "end" =>
       \A a \in lists[l].steady : \E i \in DOMAIN lists[l].shown : lists[l].shown[i].id = a

\* The page of a request that no write overlaps: exactly the albums the viewer
\* may also open one by one (GetAvailable), as they are in the database, from the
\* cursor on without a gap.
PagesAreExact ==
    \A l \in Listers : lists[l].pc = "done" /\ lists[l].clean =>
       LET q == lists[l]
           onPage == {a \in Albums : q.found[a] # None}
           opens == {a \in Albums :
                       /\ Owner[a] = q.owner
                       /\ IF q.kind = "trashed" THEN db[a].status = "trashed"
                          ELSE db[a].status = "present"
                               /\ Permits(a, db[a], <<"slug", q.owner, db[a].slug>>, q.viewer)} IN
       /\ onPage \subseteq opens
       /\ \A a \in onPage : q.found[a] = db[a] \/ a \in strays
       /\ \A a \in opens \ onPage :
             \/ q.cursor # None /\ ~Precedes(q.cursor, Position(a, q))
             \/ q.next # None /\ \A b \in onPage : Precedes(Position(b, q), Position(a, q))

----------------------------------------------------------------------------
(* The invariants behind these properties.                                 *)

Ids(rows) == {rows[i].id : i \in DOMAIN rows}

Descends(rows) == \A i, j \in DOMAIN rows : i < j => Precedes(rows[i], rows[j])

\* Nothing in rows comes after p.
UpTo(rows, p) == \A i \in DOMAIN rows : rows[i] = p \/ Precedes(rows[i], p)

\* A walk is through one of the lists, the available one if it is another user's.
KindInv(q) == q.pc # "none" => /\ q.kind \in {"available", "owned", "trashed"}
                               /\ q.kind = "available" <=> q.owner # q.viewer

\* The cursor parts what was shown from the page that is on its way, and the next
\* cursor that page from what follows.
OrderInv(q) ==
    /\ Descends(q.shown) /\ Descends(q.rows)
    /\ \A i \in DOMAIN q.rows : Beyond(q.cursor, q.rows[i])
    /\ IF q.cursor = None THEN q.pc # "end" => q.shown = <<>> ELSE UpTo(q.shown, q.cursor)
    /\ q.next # None => UpTo(q.rows, q.next) /\ Beyond(q.cursor, q.next)

Paging(q) == q.pc \in {"mget", "missing", "done"}

\* An album that nobody has written since the first page was shown, is on the page
\* on its way (where it is found in the end), or is still ahead.
SteadyInv(q) ==
    \A a \in q.steady :
       /\ InList(a, q)
       /\ \/ a \in Ids(q.shown)
          \/ q.pc = "page" /\ Beyond(q.cursor, Position(a, q))
          \/ Paging(q) /\ a \in Ids(q.rows)
          \/ Paging(q) /\ q.next # None /\ Beyond(q.next, Position(a, q))
       /\ q.pc = "done" /\ a \in Ids(q.rows) => q.found[a] # None

WalkInv == \A l \in Listers : KindInv(lists[l]) /\ OrderInv(lists[l]) /\ SteadyInv(lists[l])

\* The commands goroutines still have to run.
Pending == UNION {Range(jobs[g]) : g \in Goroutines}

\* The key c writes gets what the database has.
Fresh(c) ==
    /\ db[c.album].status = "present"
    /\ c.op = "set_entity" => c.row = db[c.album]
    /\ c.op = "set_mapper" => c.slug = db[c.album].slug
    /\ c.op = "set_link" => c.link = db[c.album].link

EntityFresh(a) == entity[a] # None => entity[a] = db[a] /\ db[a].status = "present"

MapperFresh(k) ==
    LET a == mapper[k] IN
    a # None => Owner[a] = k[1] /\ db[a].slug = k[2] /\ db[a].status = "present"

LinkFresh(l) ==
    LET a == linkmap[l] IN a # None => db[a].link = l /\ db[a].status = "present"

\* A stale key waits for a job that writes or removes it, or for the token update
\* that will start one.
EntityWaits(a) ==
    \/ \E c \in Pending : c.op \in {"set_entity", "unlink_album"} /\ c.album = a
    \/ \E w \in Writers : tokenreq[w] # None /\ tokenreq[w].album = a

MapperWaits(k) ==
    \E c \in Pending : /\ c.op \in {"set_mapper", "unlink_album", "unlink_mapper"}
                       /\ <<Owner[c.album], c.slug>> = k

LinkWaits(l) ==
    \/ \E c \in Pending : c.op \in {"set_link", "unlink_link"} /\ c.link = l
    \/ \E w \in Writers : tokenreq[w] # None /\ tokenreq[w].old = l

\* When requests for single albums do not overlap and Redis answers, jobs write what
\* the database has, and each stale key waits.
CoherentInv ==
    /\ \A c \in Pending :
          c.op \in {"set_entity", "set_mapper", "set_link"} /\ c.album \notin strays => Fresh(c)
    /\ \A w \in Writers : tokenreq[w] # None =>
          LET a == tokenreq[w].album IN tokenreq[w].row = db[a] /\ db[a].status = "present"
    /\ \A a \in Albums \ strays : EntityFresh(a) \/ EntityWaits(a)
    /\ \A k \in Users \X Slugs : mapper[k] \in strays \/ MapperFresh(k) \/ MapperWaits(k)
    /\ \A l \in Links : linkmap[l] \in strays \/ LinkFresh(l) \/ LinkWaits(l)

\* The page of a request that no write overlaps is the list between two cursors.
PageInv(q) ==
    /\ \A i \in DOMAIN q.rows :
          InList(q.rows[i].id, q) /\ q.rows[i] = Position(q.rows[i].id, q)
    /\ \A a \in Albums : InList(a, q) /\ Beyond(q.cursor, Position(a, q)) =>
          a \in Ids(q.rows) \/ (q.next # None /\ Beyond(q.next, Position(a, q)))
    /\ \A a \in Albums : q.found[a] # None =>
          a \in Ids(q.rows) /\ (q.found[a] = db[a] \/ a \in strays)
    /\ q.pc = "done" => \A a \in Ids(q.rows) : q.found[a] # None

\* Such a request started when the cache was coherent, and finds it so.
ExactWalk(q) ==
    Paging(q) /\ q.clean => PageInv(q) /\ \A a \in Albums \ strays : EntityFresh(a)

ExactInv == \A l \in Listers : ExactWalk(lists[l])

LIInv == /\ IInv
         /\ LTypeOK
         /\ WalkInv
         /\ Serial /\ ~Failures => CoherentInv /\ ExactInv

=============================================================================
