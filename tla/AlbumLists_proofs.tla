------------------------- MODULE AlbumLists_proofs --------------------------
(***************************************************************************)
(* Theorems about AlbumLists: albums, their cache and the lists.           *)
(***************************************************************************)
EXTENDS AlbumLists, AlbumCache_proofs, FiniteSetTheorems

----------------------------------------------------------------------------
(* What ordering a finite set gives.                                       *)

\* A finite set with a strict total order can be written down in that order: the
\* place of an element is the number of those before it.
LEMMA OrderExists ==
    ASSUME NEW S, IsFiniteSet(S), NEW R,
           \A x, y, z \in S : <<x, y>> \in R /\ <<y, z>> \in R => <<x, z>> \in R,
           \A x \in S : <<x, x>> \notin R,
           \A x, y \in S : x = y \/ <<x, y>> \in R \/ <<y, x>> \in R
    PROVE  \E s \in [1 .. Cardinality(S) -> S] :
              \A i, j \in 1 .. Cardinality(S) : i < j => <<s[i], s[j]>> \in R
  <1> DEFINE n == Cardinality(S)
             before(x) == {y \in S : <<y, x>> \in R}
             rank == [x \in S |-> Cardinality(before(x)) + 1]
  <1>1. n \in Nat
    BY FS_CardinalityType
  <1>0. \A x \in S : \A y : y \in before(x) <=> y \in S /\ <<y, x>> \in R
    OBVIOUS
  <1> HIDE DEF before
  <1>2. \A x \in S : /\ before(x) \in SUBSET S /\ IsFiniteSet(before(x))
                    /\ Cardinality(before(x)) \in Nat
    <2> TAKE x \in S
    <2>1. before(x) \in SUBSET S
      BY <1>0
    <2>2. IsFiniteSet(before(x))
      BY <2>1, FS_Subset
    <2> QED BY <2>1, <2>2, FS_CardinalityType
  <1>3. \A x \in S : rank[x] \in 1 .. n
    <2> SUFFICES ASSUME NEW x \in S PROVE Cardinality(before(x)) < n
      BY <1>1, <1>2
    <2>0. x \notin before(x) /\ x \in S
      BY <1>0
    <2>1. before(x) \in SUBSET S /\ before(x) # S
      BY <1>0, <2>0
    <2>2. Cardinality(before(x)) =< n /\ n # Cardinality(before(x))
      BY <2>1, FS_Subset
    <2> QED BY <1>1, <1>2, <2>2
  <1>4. ASSUME NEW x \in S, NEW y \in S, <<x, y>> \in R PROVE rank[x] < rank[y]
    <2>1. before(x) \in SUBSET before(y) /\ before(x) # before(y)
      BY <1>0, <1>4
    <2>2. /\ Cardinality(before(x)) =< Cardinality(before(y))
          /\ Cardinality(before(x)) # Cardinality(before(y))
      BY <1>2, <2>1, FS_Subset
    <2>3. /\ rank[x] = Cardinality(before(x)) + 1
          /\ rank[y] = Cardinality(before(y)) + 1
      OBVIOUS
    <2> HIDE DEF rank
    <2> QED BY <1>2, <2>2, <2>3
  <1> HIDE DEF rank
  <1>5. rank \in Injection(S, 1 .. n)
    <2>1. rank \in [S -> 1 .. n]
      BY <1>3 DEF rank
    <2>2. ASSUME NEW x \in S, NEW y \in S, rank[x] = rank[y] PROVE x = y
      <3>1. rank[x] \in Nat /\ ~ (rank[x] < rank[y]) /\ ~ (rank[y] < rank[x])
        BY <1>1, <1>3, <2>2
      <3>2. <<x, y>> \notin R /\ <<y, x>> \notin R
        BY <1>4, <3>1
      <3> QED BY <3>2
    <2> QED BY <2>1, <2>2 DEF Injection, IsInjective
  <1>6. \A k \in 1 .. n : \E x \in S : rank[x] = k
    <2>1. IsFiniteSet(1 .. n) /\ Cardinality(1 .. n) = n
      BY <1>1, FS_Interval
    <2>2. rank \in Surjection(S, 1 .. n)
      BY <1>5, <2>1, FS_Injection
    <2> QED BY <2>2 DEF Surjection
  <1> DEFINE s == [k \in 1 .. n |-> CHOOSE x \in S : rank[x] = k]
  <1>7. \A k \in 1 .. n : s[k] \in S /\ rank[s[k]] = k
    BY <1>6
  <1>8. s \in [1 .. n -> S]
    BY <1>7
  <1> HIDE DEF s
  <1>9. ASSUME NEW i \in 1 .. n, NEW j \in 1 .. n, i < j PROVE <<s[i], s[j]>> \in R
    <2>1. s[i] # s[j] /\ ~ (rank[s[j]] < rank[s[i]])
      BY <1>1, <1>7, <1>9
    <2> QED BY <1>4, <1>7, <2>1
  <1> QED BY <1>8, <1>9

\* A sequence of as many elements as S has, no two of them the same, has them all.
LEMMA NoneMissing ==
    ASSUME NEW S, IsFiniteSet(S), NEW s \in [1 .. Cardinality(S) -> S],
           \A i, j \in 1 .. Cardinality(S) : i < j => s[i] # s[j]
    PROVE  /\ s \in Seq(S) /\ Len(s) = Cardinality(S)
           /\ \A x \in S : \E i \in 1 .. Cardinality(S) : s[i] = x
  <1> DEFINE n == Cardinality(S)
  <1>1. n \in Nat
    BY FS_CardinalityType
  <1>2. s \in Seq(S) /\ Len(s) = n
    BY <1>1
  <1>3. s \in Injection(1 .. n, S)
    BY <1>1 DEF Injection, IsInjective
  <1>4. s \in Surjection(1 .. n, S)
    BY <1>1, <1>3, FS_Interval, FS_Injection
  <1> QED BY <1>2, <1>4 DEF Surjection

\* ORDER BY: descending, and every place once.
LEMMA OrderedPlaces ==
    ASSUME NEW S, S \subseteq Places, IsFiniteSet(S)
    PROVE  LET s == Ordered(S, Precedes) IN
           /\ s \in Seq(S) /\ Len(s) = Cardinality(S) /\ Len(s) \in Nat
           /\ Descends(s)
           /\ \A p \in S : \E i \in 1 .. Len(s) : s[i] = p
  <1> DEFINE R == {e \in S \X S : Precedes(e[1], e[2])}
             n == Cardinality(S)
             s == Ordered(S, Precedes)
  <1>0. \A p \in S : p.t \in Nat /\ p.id \in Nat /\ p = [t |-> p.t, id |-> p.id]
    <2> SUFFICES ASSUME NEW p \in Places PROVE p.t \in Nat /\ p.id \in Nat /\ p = [t |-> p.t, id |-> p.id]
      OBVIOUS
    <2> QED BY AlbumsAssumption DEF Places
  <1>1. \A x, y, z \in S : <<x, y>> \in R /\ <<y, z>> \in R => <<x, z>> \in R
    BY <1>0 DEF Precedes
  <1>2. \A x \in S : <<x, x>> \notin R
    BY <1>0 DEF Precedes
  <1>3. \A x, y \in S : x = y \/ <<x, y>> \in R \/ <<y, x>> \in R
    <2> SUFFICES ASSUME NEW x \in S, NEW y \in S, x # y, ~Precedes(x, y) PROVE Precedes(y, x)
      OBVIOUS
    <2>1. x.t # y.t \/ x.id # y.id
      BY <1>0
    <2> QED BY <1>0, <2>1 DEF Precedes
  <1>4. \E r \in [1 .. n -> S] : \A i, j \in 1 .. n : i < j => <<r[i], r[j]>> \in R
    <2> HIDE DEF R
    <2> QED BY <1>1, <1>2, <1>3, OrderExists
  <1>5. \E r \in [1 .. n -> S] : \A i, j \in 1 .. n : i < j => Precedes(r[i], r[j])
    BY <1>4
  <1>6. s \in [1 .. n -> S] /\ \A i, j \in 1 .. n : i < j => Precedes(s[i], s[j])
    BY <1>5 DEF Ordered
  <1> HIDE DEF s
  <1>7. \A i, j \in 1 .. n : i < j => s[i] # s[j]
    BY <1>2, <1>6
  <1>8. n \in Nat
    BY FS_CardinalityType
  <1>9. /\ s \in Seq(S) /\ Len(s) = n
        /\ \A p \in S : \E i \in 1 .. n : s[i] = p
    BY <1>6, <1>7, NoneMissing
  <1>10. DOMAIN s = 1 .. n
    BY <1>6
  <1>11. Descends(s)
    BY <1>6, <1>10 DEF Descends
  <1> QED BY <1>8, <1>9, <1>11 DEF s

\* The places of a sequence, in order.
LEMMA OrderedIndices ==
    ASSUME NEW n \in Nat, NEW S, S \subseteq 1 .. n
    PROVE  LET s == Ordered(S, <) IN
           /\ Cardinality(S) \in Nat
           /\ s \in [1 .. Cardinality(S) -> S]
           /\ \A i, j \in 1 .. Cardinality(S) : i < j => s[i] < s[j]
           /\ \A k \in S : \E i \in 1 .. Cardinality(S) : s[i] = k
  <1> DEFINE R == {e \in S \X S : e[1] < e[2]}
             c == Cardinality(S)
             s == Ordered(S, <)
  <1>1. IsFiniteSet(S)
    <2>1. IsFiniteSet(1 .. n) /\ S \in SUBSET (1 .. n)
      BY FS_Interval
    <2> QED BY <2>1, FS_Subset
  <1>2. \A x \in S : x \in Int
    OBVIOUS
  <1>3. /\ \A x, y, z \in S : <<x, y>> \in R /\ <<y, z>> \in R => <<x, z>> \in R
        /\ \A x \in S : <<x, x>> \notin R
        /\ \A x, y \in S : x = y \/ <<x, y>> \in R \/ <<y, x>> \in R
    BY <1>2
  <1>4. \E r \in [1 .. c -> S] : \A i, j \in 1 .. c : i < j => <<r[i], r[j]>> \in R
    <2> HIDE DEF R
    <2> QED BY <1>1, <1>3, OrderExists
  <1>5. \E r \in [1 .. c -> S] : \A i, j \in 1 .. c : i < j => r[i] < r[j]
    BY <1>4
  <1>6. s \in [1 .. c -> S] /\ \A i, j \in 1 .. c : i < j => s[i] < s[j]
    BY <1>5 DEF Ordered
  <1> HIDE DEF s
  <1>7. \A i, j \in 1 .. c : i < j => s[i] # s[j]
    <2> SUFFICES ASSUME NEW i \in 1 .. c, NEW j \in 1 .. c, i < j PROVE s[i] # s[j]
      OBVIOUS
    <2>1. s[i] \in Int /\ s[j] \in Int /\ s[i] < s[j]
      BY <1>2, <1>6
    <2> QED BY <2>1
  <1>8. c \in Nat
    BY <1>1, FS_CardinalityType
  <1>9. \A k \in S : \E i \in 1 .. c : s[i] = k
    BY <1>1, <1>6, <1>7, NoneMissing
  <1> QED BY <1>6, <1>8, <1>9 DEF s

----------------------------------------------------------------------------
(* The pages of a list.                                                    *)

\* The order of a list.
LEMMA PlacesInOrder ==
    ASSUME NEW p \in Places, NEW r \in Places, NEW x \in Places
    PROVE  /\ ~Precedes(p, p)
           /\ Precedes(p, r) /\ Precedes(r, x) => Precedes(p, x)
           /\ p # r => Precedes(p, r) \/ Precedes(r, p)
           /\ Precedes(p, r) => ~Precedes(r, p)
  <1>1. \A y \in Places : y.t \in Nat /\ y.id \in Nat /\ y = [t |-> y.t, id |-> y.id]
    <2> SUFFICES ASSUME NEW y \in Places
                 PROVE  y.t \in Nat /\ y.id \in Nat /\ y = [t |-> y.t, id |-> y.id]
      OBVIOUS
    <2> QED BY AlbumsAssumption DEF Places
  <1>2. p # r => p.t # r.t \/ p.id # r.id
    BY <1>1
  <1> QED BY <1>1, <1>2 DEF Precedes

\* Beyond a cursor means after it.
LEMMA BeyondIsAfter ==
    ASSUME NEW c \in Places, NEW p \in Places
    PROVE  c # None /\ (Beyond(c, p) <=> Precedes(c, p))
  <1>1. c.t \in Nat /\ c.id \in Nat /\ p.t \in Nat /\ p.id \in Nat /\ c # None
    BY AlbumsAssumption, NoRecordAssumption DEF Places
  <1> QED BY <1>1 DEF Beyond, Precedes

\* An album has one place in a list.
LEMMA PositionType ==
    ASSUME LTypeOK, NEW a \in Albums, NEW q
    PROVE  Position(a, q) \in Places /\ Position(a, q).id = a
  BY DEF LTypeOK, Position, Places

\* The rows a query may return are places, finitely many.
LEMMA RowsLeftType ==
    ASSUME LTypeOK, NEW q PROVE RowsLeft(q) \subseteq Places /\ IsFiniteSet(RowsLeft(q))
  <1> DEFINE T == {b \in Albums : InList(b, q)}
             P == {Position(a, q) : a \in T}
             f == [a \in T |-> Position(a, q)]
  <1>1. P \subseteq Places /\ RowsLeft(q) \in SUBSET P
    BY PositionType DEF RowsLeft
  <1>2. T \in SUBSET Albums /\ IsFiniteSet(T)
    BY AlbumsAssumption, FS_Subset
  <1>3. f \in Surjection(T, P)
    BY DEF Surjection
  <1>4. IsFiniteSet(P)
    BY <1>2, <1>3, FS_Surjection
  <1> QED BY <1>1, <1>4, FS_Subset

\* A query returns the first of them in their order, and all there are if it returns
\* fewer than it may.
LEMMA PageRowsAre ==
    ASSUME LTypeOK, NEW q, NEW limit \in Nat \ {0}
    PROVE  LET rows == PageRows(q, limit) IN
           /\ rows \in Seq(RowsLeft(q)) /\ Len(rows) \in 0 .. limit + 1
           /\ Descends(rows)
           /\ \A p \in RowsLeft(q) :
                 \/ \E i \in 1 .. Len(rows) : i =< limit /\ rows[i] = p
                 \/ Len(rows) = limit + 1 /\ Precedes(rows[limit], p)
  <1> DEFINE all == Ordered(RowsLeft(q), Precedes)
             rows == PageRows(q, limit)
             n == IF Len(all) > limit THEN limit + 1 ELSE Len(all)
  <1>1. /\ all \in Seq(RowsLeft(q)) /\ Len(all) \in Nat
        /\ Descends(all)
        /\ \A p \in RowsLeft(q) : \E i \in 1 .. Len(all) : all[i] = p
    BY RowsLeftType, OrderedPlaces
  <1>2. rows = SubSeq(all, 1, n)
    BY DEF PageRows
  <1> HIDE DEF all, rows
  <1>3. n \in 0 .. limit + 1 /\ n \in 0 .. Len(all)
    BY <1>1
  <1>4. rows \in Seq(RowsLeft(q)) /\ Len(rows) = n /\ \A i \in 1 .. n : rows[i] = all[i]
    BY <1>1, <1>2, <1>3
  <1>5. /\ DOMAIN rows = 1 .. n /\ DOMAIN all = 1 .. Len(all)
        /\ \A i \in 1 .. n : i \in 1 .. Len(all)
    BY <1>1, <1>3, <1>4
  <1> HIDE DEF n
  <1>7. Descends(rows)
    BY <1>1, <1>4, <1>5 DEF Descends
  <1>6. ASSUME NEW p \in RowsLeft(q)
        PROVE  \/ \E i \in 1 .. Len(rows) : i =< limit /\ rows[i] = p
               \/ Len(rows) = limit + 1 /\ Precedes(rows[limit], p)
    <2>1. PICK i \in 1 .. Len(all) : all[i] = p
      BY <1>1
    <2>2. CASE i =< limit
      <3>1. i \in 1 .. n
        BY <1>1, <2>2 DEF n
      <3> QED BY <1>3, <1>4, <2>1, <2>2, <3>1
    <2>3. CASE i > limit
      <3>1. n = limit + 1 /\ limit \in 1 .. Len(all) /\ limit \in 1 .. n
        BY <1>1, <2>3 DEF n
      <3>2. Precedes(all[limit], all[i])
        BY <1>1, <1>5, <2>1, <2>3, <3>1 DEF Descends
      <3> QED BY <1>4, <2>1, <3>1, <3>2
    <2> QED BY <2>2, <2>3
  <1> QED BY <1>3, <1>4, <1>7, <1>6 DEF rows

\* A page is cut from those rows, its cursor the last of it, and what the cursor
\* leaves out comes after it.  Nothing is found but in the trash.
IsPage(q, new) ==
    /\ new \in Walk /\ new.clean = TRUE /\ new.pc \in {"mget", "done"}
    /\ new.kind = q.kind /\ new.owner = q.owner /\ new.viewer = q.viewer
    /\ new.cursor = q.cursor /\ new.shown = q.shown /\ new.steady = q.steady
    /\ Descends(new.rows)
    /\ \A i \in DOMAIN new.rows : new.rows[i] \in RowsLeft(q)
    /\ new.next # None => UpTo(new.rows, new.next) /\ new.next \in RowsLeft(q)
    /\ \A p \in RowsLeft(q) :
          \/ \E i \in DOMAIN new.rows : new.rows[i] = p
          \/ new.next # None /\ Precedes(new.next, p)
    /\ \A a \in Albums : new.found[a] # None => a \in Ids(new.rows) /\ new.found[a] = db[a]
    /\ new.pc = "done" => \A a \in Ids(new.rows) : new.found[a] # None

\* Page makes one.
LEMMA PageIs ==
    ASSUME LTypeOK, NEW q \in Walk, NEW limit \in Nat \ {0}, NEW new, new = Page(q, limit)
    PROVE  IsPage(q, new)
  <1> DEFINE rows == PageRows(q, limit)
             n == IF Len(rows) > limit THEN limit ELSE Len(rows)
             page == SubSeq(rows, 1, n)
             next == NextCursor(rows, limit)
             found == [a \in Albums |->
                  IF q.kind = "trashed" /\ \E i \in DOMAIN page : page[i].id = a
                  THEN db[a] ELSE None]
  <1>1. /\ rows \in Seq(RowsLeft(q)) /\ Len(rows) \in 0 .. limit + 1
        /\ Descends(rows) /\ RowsLeft(q) \subseteq Places
        /\ \A p \in RowsLeft(q) :
              \/ \E i \in 1 .. Len(rows) : i =< limit /\ rows[i] = p
              \/ Len(rows) = limit + 1 /\ Precedes(rows[limit], p)
    BY PageRowsAre, RowsLeftType
  <1>2. /\ new.pc = IF q.kind = "trashed" \/ rows = <<>> THEN "done" ELSE "mget"
        /\ new.rows = page /\ new.next = next /\ new.found = found /\ new.clean = TRUE
        /\ new.kind = q.kind /\ new.owner = q.owner /\ new.viewer = q.viewer
        /\ new.cursor = q.cursor /\ new.shown = q.shown /\ new.steady = q.steady
        /\ new = [q EXCEPT !.pc = new.pc, !.rows = page, !.next = next, !.found = found,
                           !.clean = TRUE]
    BY DEF Page, Walk
  <1> HIDE DEF rows
  <1>3. /\ page \in Seq(RowsLeft(q)) /\ Len(page) = n /\ DOMAIN page = 1 .. n
        /\ \A i \in 1 .. n : page[i] = rows[i] /\ i \in 1 .. Len(rows)
        /\ n \in Nat /\ DOMAIN rows = 1 .. Len(rows)
    BY <1>1
  <1>4. Len(rows) = limit + 1 => n = limit /\ limit \in 1 .. Len(rows)
    BY <1>1
  <1>5. \A i \in 1 .. Len(rows) : i =< limit => i \in 1 .. n
    BY <1>1
  <1> HIDE DEF n, page
  <1>13. \A i \in DOMAIN page : page[i] \in RowsLeft(q) /\ page[i] \in Places
    <2> SUFFICES ASSUME NEW i \in 1 .. n PROVE page[i] \in RowsLeft(q)
      BY <1>1, <1>3
    <2>1. i \in 1 .. Len(rows) /\ page[i] = rows[i]
      BY <1>3
    <2>2. rows[i] \in RowsLeft(q)
      BY <1>1, <2>1
    <2> QED BY <2>1, <2>2
  <1>6. Descends(page)
    BY <1>1, <1>3 DEF Descends
  <1>7. ASSUME next # None
        PROVE  Len(rows) = limit + 1 /\ next = rows[limit] /\ next \in RowsLeft(q)
               /\ UpTo(page, next)
    <2>1. Len(rows) = limit + 1 /\ next = rows[limit]
      BY <1>7 DEF NextCursor
    <2>2. next \in RowsLeft(q)
      BY <1>1, <1>4, <2>1
    <2>3. ASSUME NEW i \in DOMAIN page PROVE page[i] = next \/ Precedes(page[i], next)
      <3>1. i \in 1 .. limit /\ page[i] = rows[i] /\ i \in 1 .. Len(rows)
        BY <1>3, <1>4, <2>1
      <3>2. CASE i = limit
        BY <2>1, <3>1, <3>2
      <3>3. CASE i < limit
        BY <1>1, <1>3, <1>4, <2>1, <3>1, <3>3 DEF Descends
      <3> QED BY <3>1, <3>2, <3>3
    <2> QED BY <2>1, <2>2, <2>3 DEF UpTo
  <1>8. ASSUME NEW p \in RowsLeft(q)
        PROVE  \/ \E i \in DOMAIN page : page[i] = p
               \/ next # None /\ Precedes(next, p)
    <2>1. CASE \E i \in 1 .. Len(rows) : i =< limit /\ rows[i] = p
      BY <1>3, <1>5, <2>1
    <2>2. CASE Len(rows) = limit + 1 /\ Precedes(rows[limit], p)
      <3>1. next = rows[limit] /\ rows[limit] \in Places
        BY <1>1, <1>4, <2>2 DEF NextCursor
      <3> QED BY <2>2, <3>1, NoRecordAssumption
    <2> QED BY <1>1, <2>1, <2>2
  <1>9. \A a \in Albums : db[a] \in Row /\ db[a] # None
    BY NoRecordAssumption DEF LTypeOK, TypeOK
  <1>10. /\ found \in [Albums -> Row \cup {None}]
         /\ \A a \in Albums : found[a] # None => a \in Ids(page) /\ found[a] = db[a]
    BY <1>9 DEF Ids
  <1>11. ASSUME new.pc = "done", NEW a \in Ids(page) PROVE found[a] # None
    <2>1. PICK i \in DOMAIN page : page[i].id = a
      BY DEF Ids
    <2>2. /\ i \in 1 .. Len(rows) /\ Len(rows) \in Nat /\ page[i] \in Places
          /\ a = page[i].id
      <3>1. i \in 1 .. n /\ i \in 1 .. Len(rows)
        BY <1>3
      <3>2. Len(rows) \in Nat
        BY <1>1
      <3> QED BY <1>13, <2>1, <3>1, <3>2
    <2>3. a \in Albums
      BY <2>2 DEF Places
    <2>4. rows # <<>>
      BY <2>2
    <2> QED BY <1>2, <1>9, <1>11, <2>1, <2>3, <2>4
  <1> HIDE DEF found, next
  <1>12. new \in Walk
    <2>0. page \in [1 .. n -> Places] /\ n \in Nat
      BY <1>3, <1>13
    <2>1. page \in Seq(Places) /\ next \in Places \cup {None}
      BY <1>1, <1>7, <2>0
    <2>2. new.pc \in {"mget", "done"}
      BY <1>2
    <2> QED BY <1>2, <1>10, <2>1, <2>2 DEF Walk
  <1>14. new.pc \in {"mget", "done"}
    BY <1>2
  <1>15. /\ Descends(new.rows)
         /\ \A i \in DOMAIN new.rows : new.rows[i] \in RowsLeft(q)
         /\ new.next # None => UpTo(new.rows, new.next) /\ new.next \in RowsLeft(q)
    BY <1>2, <1>6, <1>7, <1>13
  <1>16. \A p \in RowsLeft(q) :
            \/ \E i \in DOMAIN new.rows : new.rows[i] = p
            \/ new.next # None /\ Precedes(new.next, p)
    BY <1>2, <1>8
  <1>17. /\ \A a \in Albums : new.found[a] # None => a \in Ids(new.rows) /\ new.found[a] = db[a]
         /\ new.pc = "done" => \A a \in Ids(new.rows) : new.found[a] # None
    BY <1>2, <1>10, <1>11
  <1>18. /\ new.clean = TRUE
         /\ new.kind = q.kind /\ new.owner = q.owner /\ new.viewer = q.viewer
         /\ new.cursor = q.cursor /\ new.shown = q.shown /\ new.steady = q.steady
    BY <1>2
  <1> QED BY <1>12, <1>14, <1>15, <1>16, <1>17, <1>18 DEF IsPage

\* Which list it is decides what is in it and where.
LEMMA SameList ==
    ASSUME NEW q, NEW r, r.kind = q.kind, r.owner = q.owner, r.viewer = q.viewer, NEW a
    PROVE  InList(a, r) = InList(a, q) /\ Position(a, r) = Position(a, q)
  BY DEF InList, Position

\* A new page keeps the walk in order, has or leaves for later what is to come, and
\* is the list as it is now.
LEMMA NewPage ==
    ASSUME LTypeOK, NEW q \in Walk, NEW limit \in Nat \ {0}, NEW new, new = Page(q, limit),
           Descends(q.shown),
           IF q.cursor = None THEN q.shown = <<>> ELSE UpTo(q.shown, q.cursor),
           \A a \in q.steady :
              InList(a, q) /\ (a \in Ids(q.shown) \/ Beyond(q.cursor, Position(a, q)))
    PROVE  /\ new \in Walk /\ OrderInv(new) /\ SteadyInv(new) /\ PageInv(new)
           /\ new.pc # "none" /\ new.kind = q.kind /\ new.owner = q.owner /\ new.viewer = q.viewer
  <1>0. IsPage(q, new)
    BY PageIs
  <1>1. /\ new \in Walk /\ new.pc \in {"mget", "done"}
        /\ new.kind = q.kind /\ new.owner = q.owner /\ new.viewer = q.viewer
        /\ new.cursor = q.cursor /\ new.shown = q.shown /\ new.steady = q.steady
        /\ Descends(new.rows)
        /\ \A i \in DOMAIN new.rows : new.rows[i] \in RowsLeft(q)
        /\ new.next # None => UpTo(new.rows, new.next) /\ new.next \in RowsLeft(q)
        /\ \A p \in RowsLeft(q) :
              \/ \E i \in DOMAIN new.rows : new.rows[i] = p
              \/ new.next # None /\ Precedes(new.next, p)
        /\ \A a \in Albums : new.found[a] # None => a \in Ids(new.rows) /\ new.found[a] = db[a]
        /\ new.pc = "done" => \A a \in Ids(new.rows) : new.found[a] # None
    BY <1>0 DEF IsPage
  <1>2. \A p \in RowsLeft(q) :
           /\ p.id \in Albums /\ InList(p.id, q) /\ p = Position(p.id, q)
           /\ Beyond(q.cursor, p)
    BY PositionType DEF RowsLeft
  <1>3. \A a \in Albums : InList(a, new) = InList(a, q) /\ Position(a, new) = Position(a, q)
    BY <1>1, SameList
  <1>4. OrderInv(new)
    BY <1>1, <1>2 DEF OrderInv
  <1>5. ASSUME NEW a \in Albums, InList(a, q), Beyond(q.cursor, Position(a, q))
        PROVE  a \in Ids(new.rows) \/ (new.next # None /\ Beyond(new.next, Position(a, q)))
    <2>1. Position(a, q) \in RowsLeft(q) /\ Position(a, q).id = a /\ Position(a, q) \in Places
      BY <1>5, PositionType DEF RowsLeft
    <2>2. CASE \E i \in DOMAIN new.rows : new.rows[i] = Position(a, q)
      BY <2>1, <2>2 DEF Ids
    <2>3. CASE new.next # None /\ Precedes(new.next, Position(a, q))
      <3>1. new.next \in Places
        BY <1>1, <2>3 DEF Walk
      <3> QED BY <2>1, <2>3, <3>1, BeyondIsAfter
    <2> QED BY <1>1, <2>1, <2>2, <2>3
  <1>6. SteadyInv(new)
    <2> SUFFICES ASSUME NEW a \in q.steady
                 PROVE  /\ InList(a, new)
                        /\ \/ a \in Ids(new.shown)
                           \/ a \in Ids(new.rows)
                           \/ new.next # None /\ Beyond(new.next, Position(a, new))
                        /\ new.pc = "done" /\ a \in Ids(new.rows) => new.found[a] # None
      BY <1>1 DEF SteadyInv, Paging
    <2>1. a \in Albums
      BY DEF Walk
    <2> QED BY <1>1, <1>3, <1>5, <2>1
  <1>7. PageInv(new)
    BY <1>1, <1>2, <1>3, <1>5 DEF PageInv
  <1> QED BY <1>1, <1>4, <1>6, <1>7

----------------------------------------------------------------------------
(* The steps of a walk.                                                    *)

\* The ids of rows are albums.
LEMMA IdsType == ASSUME NEW rows \in Seq(Places) PROVE Ids(rows) \subseteq Albums
  <1> SUFFICES ASSUME NEW i \in DOMAIN rows PROVE rows[i].id \in Albums
    BY DEF Ids
  <1>1. rows[i] \in Places
    BY DOMAIN rows = 1 .. Len(rows)
  <1> QED BY <1>1 DEF Places

\* What one walk contributes to WalkInv.
Sound(q) == q \in Walk /\ KindInv(q) /\ OrderInv(q) /\ SteadyInv(q)

\* A walk that has not begun.
LEMMA NoListIs == Sound(NoList) /\ ExactWalk(NoList) /\ NoList.pc = "none"
  BY DEF Sound, NoList, Walk, KindInv, OrderInv, SteadyInv, ExactWalk, Paging, Descends, UpTo

\* The walks of the invariant.
LEMMA EveryWalk == ASSUME LIInv, NEW l \in Listers PROVE Sound(lists[l])
  BY DEF LIInv, LTypeOK, WalkInv, Sound

\* In silence no key is stale but those of strays.
LEMMA QuietIsFresh ==
    ASSUME LIInv, Serial, ~Failures, Quiet
    PROVE  /\ \A c : c \notin Pending
           /\ \A a \in Albums \ strays : EntityFresh(a)
           /\ \A k \in Users \X Slugs : mapper[k] \in strays \/ MapperFresh(k)
           /\ \A l \in Links : linkmap[l] \in strays \/ LinkFresh(l)
  <1>1. \A c : c \notin Pending
    <2>1. \A g \in Goroutines : Range(jobs[g]) = {}
      BY DEF Quiet, Range
    <2> QED BY <2>1 DEF Pending
  <1>2. CoherentInv
    BY DEF LIInv
  <1> QED BY <1>1, <1>2 DEF CoherentInv, EntityWaits, MapperWaits, LinkWaits, Quiet

\* The first page of a walk that begins.
LEMMA FirstPageWalk ==
    ASSUME LIInv, NEW l \in Listers, NEW kind \in {"available", "owned", "trashed"},
           NEW u \in Users, NEW v \in Users, NEW limit \in 1 .. PerPage,
           FirstPage(l, kind, u, v, limit)
    PROVE  \E new : lists' = [lists EXCEPT ![l] = new] /\ Sound(new)
                    /\ (Serial /\ ~Failures => ExactWalk(new))
  <1> DEFINE q0 == [NoList EXCEPT !.kind = kind, !.owner = u, !.viewer = v]
             q == [q0 EXCEPT !.steady = {a \in Albums : InList(a, q0)}]
             new == Page(q, limit)
  <1>1. /\ q \in Walk /\ q.kind = kind /\ q.owner = u /\ q.viewer = v /\ q.cursor = None
        /\ q.shown = <<>> /\ q.steady = {a \in Albums : InList(a, q0)}
        /\ q0.kind = kind /\ q0.owner = u /\ q0.viewer = v
    <2>1. NoList \in Walk /\ NoList.cursor = None /\ NoList.shown = <<>>
      BY NoListIs DEF Sound, NoList
    <2>2. /\ q0 \in Walk /\ q0.kind = kind /\ q0.owner = u /\ q0.viewer = v /\ q0.cursor = None
          /\ q0.shown = <<>>
      BY <2>1 DEF Walk
    <2> HIDE DEF q0
    <2> QED BY <2>2 DEF Walk
  <1>2. lists' = [lists EXCEPT ![l] = new] /\ (Serial => Quiet) /\ (kind = "available" <=> u # v)
    BY DEF FirstPage
  <1> HIDE DEF q0, q
  <1>3. limit \in Nat \ {0} /\ LTypeOK
    BY PerPageAssumption DEF LIInv
  <1>4. \A a \in q.steady : InList(a, q) /\ Beyond(q.cursor, Position(a, q))
    BY <1>1, SameList DEF Beyond
  <1>5. Descends(q.shown)
    BY <1>1 DEF Descends
  <1>6. Sound(new) /\ PageInv(new)
    <2>1. /\ new \in Walk /\ OrderInv(new) /\ SteadyInv(new) /\ PageInv(new)
          /\ new.pc # "none" /\ new.kind = q.kind /\ new.owner = q.owner /\ new.viewer = q.viewer
      BY <1>1, <1>3, <1>4, <1>5, NewPage
    <2> QED BY <1>1, <1>2, <2>1 DEF Sound, KindInv
  <1>7. Serial /\ ~Failures => ExactWalk(new)
    BY <1>2, <1>6, QuietIsFresh DEF ExactWalk
  <1> QED BY <1>2, <1>6, <1>7

\* The next page of a walk that has delivered one.
LEMMA NextPageWalk ==
    ASSUME LIInv, NEW l \in Listers, NEW limit \in 1 .. PerPage, NextPage(l, limit)
    PROVE  \E new : lists' = [lists EXCEPT ![l] = new] /\ Sound(new)
                    /\ (Serial /\ ~Failures => ExactWalk(new))
  <1> DEFINE q == lists[l]
             new == Page(q, limit)
  <1>1. lists' = [lists EXCEPT ![l] = new] /\ (Serial => Quiet) /\ q.pc = "page"
    BY DEF NextPage
  <1>2. Sound(q)
    BY EveryWalk
  <1>3. limit \in Nat \ {0} /\ LTypeOK
    BY PerPageAssumption DEF LIInv
  <1> HIDE DEF q
  <1>4. /\ Descends(q.shown)
        /\ IF q.cursor = None THEN q.shown = <<>> ELSE UpTo(q.shown, q.cursor)
    BY <1>1, <1>2 DEF Sound, OrderInv
  <1>5. \A a \in q.steady :
           InList(a, q) /\ (a \in Ids(q.shown) \/ Beyond(q.cursor, Position(a, q)))
    BY <1>1, <1>2 DEF Sound, SteadyInv, Paging
  <1>6. Sound(new) /\ PageInv(new)
    <2>1. /\ new \in Walk /\ OrderInv(new) /\ SteadyInv(new) /\ PageInv(new)
          /\ new.pc # "none" /\ new.kind = q.kind /\ new.owner = q.owner /\ new.viewer = q.viewer
      BY <1>2, <1>3, <1>4, <1>5, NewPage DEF Sound
    <2> QED BY <1>1, <1>2, <2>1 DEF Sound, KindInv
  <1>7. Serial /\ ~Failures => ExactWalk(new)
    BY <1>1, <1>6, QuietIsFresh DEF ExactWalk
  <1> QED BY <1>1, <1>6, <1>7

\* What MGET answers, and whether anything is missing.
LEMMA MGetItemsWalk ==
    ASSUME LIInv, NEW l \in Listers, MGetItems(l)
    PROVE  \E new : lists' = [lists EXCEPT ![l] = new] /\ Sound(new)
                    /\ (Serial /\ ~Failures => ExactWalk(new))
  <1> DEFINE q == lists[l]
  <1>1. PICK hits \in SUBSET {a \in OnPage(l) : entity[a] # None} :
           LET found == [a \in Albums |-> IF a \in hits THEN entity[a] ELSE None] IN
           lists' = [lists EXCEPT ![l] = [@ EXCEPT !.found = found, !.pc =
              IF hits # OnPage(l) THEN "missing" ELSE "done"]]
    BY DEF MGetItems
  <1>2. Sound(q) /\ q.pc = "mget"
    BY EveryWalk DEF MGetItems
  <1> DEFINE found == [a \in Albums |-> IF a \in hits THEN entity[a] ELSE None]
             new == [q EXCEPT !.found = found,
                              !.pc = IF hits # OnPage(l) THEN "missing" ELSE "done"]
  <1>3. lists' = [lists EXCEPT ![l] = new] /\ OnPage(l) = Ids(q.rows)
    <2>1. lists' = [lists EXCEPT ![l] = new]
      BY <1>1
    <2>2. OnPage(l) = Ids(q.rows)
      BY DEF OnPage, Ids
    <2> QED BY <2>1, <2>2
  <1>4. Ids(q.rows) \subseteq Albums
    <2>1. q.rows \in Seq(Places)
      BY <1>2 DEF Sound, Walk
    <2> QED BY <2>1, IdsType
  <1>5. /\ found \in [Albums -> Row \cup {None}]
        /\ \A a \in Albums : found[a] # None => a \in Ids(q.rows) /\ found[a] = entity[a]
        /\ hits = Ids(q.rows) => \A a \in Ids(q.rows) : found[a] # None
    <2>1. \A a \in hits : a \in Ids(q.rows) /\ entity[a] # None /\ a \in Albums
      BY <1>3, <1>4
    <2>2. \A a \in Albums : entity[a] \in Row \cup {None}
      BY DEF LIInv, LTypeOK, TypeOK
    <2> HIDE DEF q
    <2> QED BY <2>1, <2>2
  <1> HIDE DEF q, found
  <1>6. /\ new \in Walk /\ new.pc \in {"missing", "done"} /\ new.found = found
        /\ new.kind = q.kind /\ new.owner = q.owner /\ new.viewer = q.viewer
        /\ new.cursor = q.cursor /\ new.shown = q.shown /\ new.steady = q.steady
        /\ new.rows = q.rows /\ new.next = q.next /\ new.clean = q.clean
        /\ new.pc = "done" => hits = Ids(q.rows)
    BY <1>2, <1>3, <1>5 DEF Sound, Walk
  <1> HIDE DEF new
  <1>7. \A a : InList(a, new) = InList(a, q) /\ Position(a, new) = Position(a, q)
    BY <1>6, SameList
  <1>8. OrderInv(new)
    BY <1>2, <1>6 DEF Sound, OrderInv
  <1>9. SteadyInv(new)
    BY <1>2, <1>5, <1>6, <1>7 DEF Sound, SteadyInv, Paging
  <1>10. ASSUME Serial, ~Failures PROVE ExactWalk(new)
    <2>1. ExactWalk(q)
      BY <1>10 DEF LIInv, ExactInv, q
    <2>2. ASSUME q.clean PROVE PageInv(new) /\ \A a \in Albums \ strays : EntityFresh(a)
      <3>1. PageInv(q) /\ \A a \in Albums \ strays : EntityFresh(a)
        BY <1>2, <2>1, <2>2 DEF ExactWalk, Paging
      <3>2. \A a \in Albums : found[a] # None => a \in Ids(q.rows) /\ (found[a] = db[a] \/ a \in strays)
        BY <1>5, <3>1 DEF EntityFresh
      <3> QED BY <1>5, <1>6, <1>7, <3>1, <3>2 DEF PageInv
    <2> QED BY <1>6, <2>2 DEF ExactWalk
  <1>11. KindInv(new)
    BY <1>2, <1>6 DEF Sound, KindInv
  <1> QED BY <1>3, <1>6, <1>8, <1>9, <1>10, <1>11 DEF Sound

\* Its end, wherever it is.
LEMMA EndWalkWalk ==
    ASSUME LIInv, NEW l \in Listers, EndWalk(l)
    PROVE  \E new : lists' = [lists EXCEPT ![l] = new] /\ Sound(new)
                    /\ (Serial /\ ~Failures => ExactWalk(new))
  BY NoListIs DEF EndWalk

\* Rows that follow others.
LEMMA RowsFollow ==
    ASSUME NEW s \in Seq(Places), NEW t \in Seq(Places)
    PROVE  /\ s \o t \in Seq(Places)
           /\ Ids(s \o t) = Ids(s) \cup Ids(t)
           /\ Descends(s) /\ Descends(t)
              /\ (\A i \in DOMAIN s, j \in DOMAIN t : Precedes(s[i], t[j])) => Descends(s \o t)
           /\ \A p : UpTo(s, p) /\ UpTo(t, p) => UpTo(s \o t, p)
  <1> DEFINE st == s \o t
             m == Len(s)
             k == Len(t)
  <1>0. st \in Seq(Places)
    BY ConcatProperties
  <1>1. /\ m \in Nat /\ k \in Nat
        /\ DOMAIN s = 1 .. m /\ DOMAIN t = 1 .. k /\ DOMAIN st = 1 .. m + k
        /\ \A i \in 1 .. m + k : st[i] = IF i =< m THEN s[i] ELSE t[i - m]
    BY ConcatProperties
  <1> HIDE DEF st, m, k
  <1>2. \A i \in DOMAIN st : \/ i \in DOMAIN s /\ st[i] = s[i]
                             \/ i - m \in DOMAIN t /\ st[i] = t[i - m] /\ i > m
    <2> TAKE i \in DOMAIN st
    <2>1. i \in 1 .. m + k
      BY <1>1
    <2>2. CASE i =< m
      BY <1>1, <2>1, <2>2
    <2>3. CASE i > m
      <3>1. i - m \in 1 .. k /\ ~(i =< m)
        BY <1>1, <2>1, <2>3
      <3> QED BY <1>1, <2>1, <2>3, <3>1
    <2> QED BY <1>1, <2>1, <2>2, <2>3
  <1>3. /\ \A i \in DOMAIN s : i \in DOMAIN st /\ st[i] = s[i]
        /\ \A j \in DOMAIN t : j + m \in DOMAIN st /\ st[j + m] = t[j]
    BY <1>1
  <1>4. Ids(st) = Ids(s) \cup Ids(t)
    <2>1. ASSUME NEW i \in DOMAIN st PROVE st[i].id \in Ids(s) \cup Ids(t)
      BY <1>2 DEF Ids
    <2>2. ASSUME NEW i \in DOMAIN s PROVE s[i].id \in Ids(st)
      BY <1>3 DEF Ids
    <2>3. ASSUME NEW j \in DOMAIN t PROVE t[j].id \in Ids(st)
      <3>1. j + m \in DOMAIN st /\ st[j + m] = t[j]
        BY <1>3
      <3> QED BY <3>1 DEF Ids
    <2> QED BY <2>1, <2>2, <2>3 DEF Ids
  <1>5. ASSUME Descends(s), Descends(t), \A i \in DOMAIN s, j \in DOMAIN t : Precedes(s[i], t[j])
        PROVE  Descends(st)
    <2> SUFFICES ASSUME NEW i \in DOMAIN st, NEW j \in DOMAIN st, i < j
                 PROVE  Precedes(st[i], st[j])
      BY DEF Descends
    <2>1. CASE j =< m
      <3>1. i \in DOMAIN s /\ j \in DOMAIN s /\ st[i] = s[i] /\ st[j] = s[j]
        BY <1>1, <2>1
      <3> QED BY <1>5, <3>1 DEF Descends
    <2>2. CASE i =< m /\ j > m
      <3>1. i \in DOMAIN s /\ j - m \in DOMAIN t /\ st[i] = s[i] /\ st[j] = t[j - m]
        BY <1>1, <2>2
      <3> QED BY <1>5, <3>1
    <2>3. CASE i > m /\ j > m
      <3>1. /\ i - m \in DOMAIN t /\ j - m \in DOMAIN t /\ i - m < j - m
            /\ st[i] = t[i - m] /\ st[j] = t[j - m]
        BY <1>1, <2>3
      <3> QED BY <1>5, <3>1 DEF Descends
    <2> QED BY <1>1, <2>1, <2>2, <2>3
  <1>6. ASSUME NEW p, UpTo(s, p), UpTo(t, p) PROVE UpTo(st, p)
    BY <1>2, <1>6 DEF UpTo
  <1> QED BY <1>0, <1>4, <1>5, <1>6 DEF st

\* What a page delivers: the rows whose albums were found, in their order.
LEMMA FinalAlbumsAre ==
    ASSUME NEW q \in Walk, Descends(q.rows), NEW fin, fin = FinalAlbums(q)
    PROVE  /\ fin \in Seq(Places) /\ Descends(fin)
           /\ \A i \in DOMAIN fin : \E k \in DOMAIN q.rows : fin[i] = q.rows[k]
           /\ \A a \in Ids(q.rows) : q.found[a] # None => a \in Ids(fin)
  <1> DEFINE n == Len(q.rows)
             kept == {i \in DOMAIN q.rows : q.found[q.rows[i].id] # None}
             order == Ordered(kept, <)
             c == Cardinality(kept)
  <1>1. n \in Nat /\ DOMAIN q.rows = 1 .. n /\ \A i \in 1 .. n : q.rows[i] \in Places
    <2>1. q.rows \in Seq(Places)
      BY DEF Walk
    <2> QED BY <2>1
  <1>2. /\ c \in Nat /\ order \in [1 .. c -> kept]
        /\ \A i, j \in 1 .. c : i < j => order[i] < order[j]
        /\ \A k \in kept : \E i \in 1 .. c : order[i] = k
    <2>1. kept \subseteq 1 .. n
      BY <1>1
    <2> HIDE DEF kept
    <2> QED BY <1>1, <2>1, OrderedIndices
  <1>3. fin = [i \in 1 .. c |-> q.rows[order[i]]]
    BY DEF FinalAlbums
  <1>4. \A k \in kept : k \in 1 .. n /\ q.found[q.rows[k].id] # None
    BY <1>1
  <1>5. \A k \in 1 .. n : q.found[q.rows[k].id] # None => k \in kept
    BY <1>1
  <1> HIDE DEF kept, order, c, n
  <1>6. fin \in Seq(Places) /\ DOMAIN fin = 1 .. c
    BY <1>1, <1>2, <1>3, <1>4
  <1>7. Descends(fin)
    <2> SUFFICES ASSUME NEW i \in 1 .. c, NEW j \in 1 .. c, i < j PROVE Precedes(fin[i], fin[j])
      BY <1>6 DEF Descends
    <2>1. order[i] \in 1 .. n /\ order[j] \in 1 .. n /\ order[i] < order[j]
      BY <1>2, <1>4
    <2>2. fin[i] = q.rows[order[i]] /\ fin[j] = q.rows[order[j]]
      BY <1>3
    <2> QED BY <1>1, <2>1, <2>2 DEF Descends
  <1>8. ASSUME NEW i \in DOMAIN fin PROVE \E k \in DOMAIN q.rows : fin[i] = q.rows[k]
    BY <1>1, <1>2, <1>3, <1>4, <1>6
  <1>9. ASSUME NEW a \in Ids(q.rows), q.found[a] # None PROVE a \in Ids(fin)
    <2>1. PICK k \in 1 .. n : q.rows[k].id = a
      BY <1>1 DEF Ids
    <2>2. PICK i \in 1 .. c : order[i] = k
      BY <1>2, <1>5, <1>9, <2>1
    <2>3. fin[i].id = a /\ i \in DOMAIN fin
      BY <1>3, <1>6, <2>1, <2>2
    <2> QED BY <2>3 DEF Ids
  <1> QED BY <1>6, <1>7, <1>8, <1>9

\* The page is delivered.
LEMMA PaginatedWalk ==
    ASSUME LIInv, NEW l \in Listers, Paginated(l)
    PROVE  \E new : lists' = [lists EXCEPT ![l] = new] /\ Sound(new)
                    /\ (Serial /\ ~Failures => ExactWalk(new))
  <1> DEFINE q == lists[l]
             fin == FinalAlbums(q)
             new == [q EXCEPT !.pc = IF q.next = None THEN "end" ELSE "page",
                              !.cursor = q.next, !.shown = q.shown \o fin,
                              !.rows = <<>>, !.next = None, !.found = NoList.found, !.clean = TRUE]
  <1>2. Sound(q) /\ q.pc = "done"
    BY EveryWalk DEF Paginated
  <1>1. lists' = [lists EXCEPT ![l] = new]
    BY DEF Paginated
  <1>3. /\ q \in Walk /\ q.shown \in Seq(Places)
        /\ q.cursor \in Places \cup {None} /\ q.next \in Places \cup {None} /\ q.steady \subseteq Albums
        /\ q.rows \in Seq(Places)
    BY <1>2 DEF Sound, Walk
  <1>4. NoList.found \in [Albums -> Row \cup {None}]
    BY DEF NoList
  <1> HIDE DEF q
  <1>5. /\ fin \in Seq(Places) /\ Descends(fin)
        /\ \A i \in DOMAIN fin : \E k \in DOMAIN q.rows : fin[i] = q.rows[k]
        /\ \A a \in Ids(q.rows) : q.found[a] # None => a \in Ids(fin)
    BY <1>2, FinalAlbumsAre DEF Sound, OrderInv
  <1> HIDE DEF fin
  <1>6. /\ q.shown \o fin \in Seq(Places)
        /\ Ids(q.shown \o fin) = Ids(q.shown) \cup Ids(fin)
        /\ Descends(q.shown) /\ Descends(fin)
           /\ (\A i \in DOMAIN q.shown, j \in DOMAIN fin : Precedes(q.shown[i], fin[j]))
           => Descends(q.shown \o fin)
        /\ \A p : UpTo(q.shown, p) /\ UpTo(fin, p) => UpTo(q.shown \o fin, p)
    BY <1>3, <1>5, RowsFollow
  <1>7. /\ new \in Walk /\ new.pc = (IF q.next = None THEN "end" ELSE "page")
        /\ new.kind = q.kind /\ new.owner = q.owner /\ new.viewer = q.viewer
        /\ new.cursor = q.next /\ new.shown = q.shown \o fin /\ new.steady = q.steady
        /\ new.rows = <<>> /\ new.next = None
    <2> DEFINE pc == IF q.next = None THEN "end" ELSE "page"
               shown == q.shown \o fin
               found == NoList.found
    <2>1. pc \in {"end", "page"} /\ shown \in Seq(Places) /\ <<>> \in Seq(Places)
      BY <1>6
    <2>2. found \in [Albums -> Row \cup {None}]
      BY <1>4
    <2>3. new = [q EXCEPT !.pc = pc, !.cursor = q.next, !.shown = shown,
                          !.rows = <<>>, !.next = None, !.found = found, !.clean = TRUE]
      OBVIOUS
    <2> HIDE DEF pc, shown, found, new
    <2>4. /\ new \in Walk /\ new.pc = pc
          /\ new.kind = q.kind /\ new.owner = q.owner /\ new.viewer = q.viewer
          /\ new.cursor = q.next /\ new.shown = shown /\ new.steady = q.steady
          /\ new.rows = <<>> /\ new.next = None
      BY <1>3, <2>1, <2>2, <2>3 DEF Walk
    <2> QED BY <2>4 DEF pc, shown
  <1> HIDE DEF new
  <1>8. /\ \A i \in DOMAIN q.shown : q.shown[i] \in Places
        /\ \A j \in DOMAIN fin : fin[j] \in Places
    BY <1>3, <1>5
  <1>9. q.cursor = None => DOMAIN q.shown = {}
    BY <1>2 DEF Sound, OrderInv
  <1>10. \A j \in DOMAIN fin : Beyond(q.cursor, fin[j])
    BY <1>2, <1>5 DEF Sound, OrderInv
  <1>11. ASSUME NEW p \in Places, Beyond(q.cursor, p), NEW i \in DOMAIN q.shown
         PROVE  Precedes(q.shown[i], p)
    <2>1. q.cursor \in Places /\ q.cursor # None
      BY <1>3, <1>9
    <2>2. Precedes(q.cursor, p)
      BY <1>11, <2>1, BeyondIsAfter
    <2>3. q.shown[i] = q.cursor \/ Precedes(q.shown[i], q.cursor)
      BY <1>2, <2>1 DEF Sound, OrderInv, UpTo
    <2> QED BY <1>8, <2>1, <2>2, <2>3, PlacesInOrder
  <1>12. Descends(new.shown)
    BY <1>2, <1>5, <1>6, <1>7, <1>8, <1>10, <1>11 DEF Sound, OrderInv
  <1>13. ASSUME q.next # None PROVE UpTo(new.shown, q.next)
    <2>1. q.next \in Places /\ UpTo(q.rows, q.next) /\ Beyond(q.cursor, q.next)
      BY <1>2, <1>3, <1>13 DEF Sound, OrderInv
    <2>2. UpTo(q.shown, q.next)
      BY <1>11, <2>1 DEF UpTo
    <2>3. UpTo(fin, q.next)
      BY <1>5, <2>1 DEF UpTo
    <2> QED BY <1>6, <1>7, <2>2, <2>3
  <1>14. OrderInv(new)
    BY <1>7, <1>12, <1>13 DEF OrderInv, Descends
  <1>15. SteadyInv(new)
    <2> SUFFICES ASSUME NEW a \in q.steady
                 PROVE  /\ InList(a, new)
                        /\ \/ a \in Ids(new.shown)
                           \/ new.pc = "page" /\ Beyond(new.cursor, Position(a, new))
      BY <1>7 DEF SteadyInv
    <2>1. InList(a, new) = InList(a, q) /\ Position(a, new) = Position(a, q)
      BY <1>7, SameList
    <2>2. /\ InList(a, q)
          /\ \/ a \in Ids(q.shown)
             \/ a \in Ids(q.rows) /\ q.found[a] # None
             \/ q.next # None /\ Beyond(q.next, Position(a, q))
      BY <1>2 DEF Sound, SteadyInv
    <2> QED BY <1>5, <1>6, <1>7, <2>1, <2>2
  <1>16. ExactWalk(new) /\ KindInv(new)
    BY <1>2, <1>7 DEF ExactWalk, Paging, Sound, KindInv
  <1> QED BY <1>1, <1>7, <1>14, <1>15, <1>16 DEF Sound

\* The albums that were missing come from their rows; an album that is in the list is
\* among them.
LEMMA GetAlbumsByIDsWalk ==
    ASSUME LIInv, NEW l \in Listers, GetAlbumsByIDs(l)
    PROVE  \E new : lists' = [lists EXCEPT ![l] = new] /\ Sound(new)
                    /\ (Serial /\ ~Failures => ExactWalk(new))
  <1> DEFINE q == lists[l]
             missing == {a \in OnPage(l) : q.found[a] = None}
             got == {a \in missing : db[a].status \in {"present", "trashed"}}
             found == [a \in Albums |-> IF a \in got THEN db[a] ELSE q.found[a]]
             new == [q EXCEPT !.pc = "done", !.found = found]
  <1>1. lists' = [lists EXCEPT ![l] = new] \/ lists' = [lists EXCEPT ![l] = NoList]
    BY DEF GetAlbumsByIDs
  <1>2. Sound(q) /\ q.pc = "missing"
    BY EveryWalk DEF GetAlbumsByIDs
  <1>3. Ids(q.rows) \subseteq Albums /\ OnPage(l) = Ids(q.rows)
    <2>1. q.rows \in Seq(Places)
      BY <1>2 DEF Sound, Walk
    <2>2. OnPage(l) = Ids(q.rows)
      BY DEF OnPage, Ids
    <2> QED BY <2>1, <2>2, IdsType
  <1>4. \A a \in Albums : db[a] \in Row /\ db[a] # None
    BY NoRecordAssumption DEF LIInv, LTypeOK, TypeOK
  <1>5. \A a : a \in got <=> /\ a \in Ids(q.rows) /\ q.found[a] = None
                              /\ db[a].status \in {"present", "trashed"}
    BY <1>3
  <1> HIDE DEF q, missing, got
  <1>6. /\ found \in [Albums -> Row \cup {None}]
        /\ \A a \in Albums : found[a] = IF a \in got THEN db[a] ELSE q.found[a]
    BY <1>2, <1>4 DEF Sound, Walk
  <1> HIDE DEF found
  <1>7. /\ new \in Walk /\ new.pc = "done" /\ new.found = found
        /\ new.kind = q.kind /\ new.owner = q.owner /\ new.viewer = q.viewer
        /\ new.cursor = q.cursor /\ new.shown = q.shown /\ new.steady = q.steady
        /\ new.rows = q.rows /\ new.next = q.next /\ new.clean = q.clean
    BY <1>2, <1>6 DEF Sound, Walk
  <1> HIDE DEF new
  <1>8. \A a : InList(a, new) = InList(a, q) /\ Position(a, new) = Position(a, q)
    BY <1>7, SameList
  <1>9. OrderInv(new) /\ KindInv(new)
    BY <1>2, <1>7 DEF Sound, OrderInv, KindInv
  <1>10. ASSUME NEW a \in Ids(q.rows), InList(a, q) PROVE found[a] # None
    <2>1. db[a].status \in {"present", "trashed"}
      BY <1>2, <1>10 DEF Sound, KindInv, InList
    <2> QED BY <1>3, <1>4, <1>5, <1>6, <2>1
  <1>11. SteadyInv(new)
    <2> SUFFICES ASSUME NEW a \in q.steady
                 PROVE  /\ InList(a, q)
                        /\ \/ a \in Ids(q.shown)
                           \/ a \in Ids(q.rows)
                           \/ q.next # None /\ Beyond(q.next, Position(a, q))
                        /\ a \in Ids(q.rows) => found[a] # None
      BY <1>7, <1>8 DEF SteadyInv, Paging
    <2> QED BY <1>2, <1>10 DEF Sound, SteadyInv
  <1>12. ASSUME Serial, ~Failures PROVE ExactWalk(new)
    <2>1. ExactWalk(q)
      BY <1>12 DEF LIInv, ExactInv, q
    <2>2. ASSUME q.clean PROVE PageInv(new) /\ \A a \in Albums \ strays : EntityFresh(a)
      <3>1. PageInv(q) /\ \A a \in Albums \ strays : EntityFresh(a)
        BY <1>2, <2>1, <2>2 DEF ExactWalk, Paging
      <3>2. \A a \in Albums : found[a] # None =>
               a \in Ids(q.rows) /\ (found[a] = db[a] \/ a \in strays)
        BY <1>5, <1>6, <3>1 DEF PageInv
      <3>3. \A a \in Ids(q.rows) : found[a] # None
        BY <1>10, <3>1 DEF PageInv, Ids
      <3> QED BY <1>7, <1>8, <3>1, <3>2, <3>3 DEF PageInv
    <2> QED BY <1>7, <2>2 DEF ExactWalk
  <1> QED BY <1>1, <1>7, <1>9, <1>11, <1>12, NoListIs DEF Sound

\* What is true of a walk stays so while rows and dates stand.
LEMMA WalkStands ==
    ASSUME NEW m \in Listers, NEW q, q = lists'[m], UNCHANGED <<db, dateAt, deletedAt>>,
           KindInv(q), OrderInv(q), SteadyInv(q)
    PROVE  (KindInv(lists[m]) /\ OrderInv(lists[m]) /\ SteadyInv(lists[m]))'
  <1>1. /\ KindInv(q)' = KindInv(q)
        /\ SteadyInv(q)' = SteadyInv(q) /\ OrderInv(q)' = OrderInv(q)
    BY DEF KindInv, SteadyInv, OrderInv, InList, Position, Paging, Beyond, Ids, Descends, UpTo, Precedes
  <1>2. /\ KindInv(q)' = KindInv(lists[m])'
        /\ OrderInv(q)' = OrderInv(lists[m])' /\ SteadyInv(q)' = SteadyInv(lists[m])'
    BY DEF KindInv, SteadyInv, OrderInv, InList, Position, Paging, Beyond, Ids, Descends,
           UpTo, Precedes
  <1> QED BY <1>1, <1>2

\* And what its page is, while no key becomes stale.
LEMMA ExactStands ==
    ASSUME NEW m \in Listers, NEW q, q = lists'[m], UNCHANGED <<db, dateAt, deletedAt>>,
           ExactWalk(q), strays \subseteq strays',
           \A a \in Albums \ strays : EntityFresh(a) => EntityFresh(a)'
    PROVE  ExactWalk(lists[m])'
  <1>1. PageInv(q) => PageInv(q)'
    BY DEF PageInv, InList, Position, Ids, Beyond
  <1>2. PageInv(q)' => PageInv(lists[m])'
    <2> SUFFICES ASSUME PageInv(q)' PROVE PageInv(lists[m])'
      OBVIOUS
    <2>0. ASSUME NEW a PROVE /\ InList(a, q)' <=> InList(a, lists[m])'
                             /\ Position(a, q)' = Position(a, lists[m])'
      BY DEF InList, Position
    <2>1. (\A i \in DOMAIN lists[m].rows : /\ InList(lists[m].rows[i].id, lists[m])
                                           /\ lists[m].rows[i] = Position(lists[m].rows[i].id, lists[m]))'
      BY <2>0 DEF PageInv
    <2>2. (\A a \in Albums : InList(a, lists[m]) /\ Beyond(lists[m].cursor, Position(a, lists[m])) =>
            \/ a \in Ids(lists[m].rows)
            \/ lists[m].next # None /\ Beyond(lists[m].next, Position(a, lists[m])))'
      BY <2>0 DEF PageInv, Ids, Beyond
    <2>3. (\A a \in Albums : lists[m].found[a] # None =>
            a \in Ids(lists[m].rows) /\ (lists[m].found[a] = db[a] \/ a \in strays))'
      BY DEF PageInv, Ids
    <2>4. (lists[m].pc = "done" => \A a \in Ids(lists[m].rows) : lists[m].found[a] # None)'
      BY DEF PageInv, Ids
    <2> QED BY <2>1, <2>2, <2>3, <2>4 DEF PageInv
  <1>3. Paging(lists[m])' /\ lists'[m].clean => Paging(q) /\ q.clean
    BY DEF Paging
  <1> QED BY <1>1, <1>2, <1>3 DEF ExactWalk

\* A walk that moves while rows and dates stand.
LEMMA OneWalk ==
    ASSUME LIInv, NEW l \in Listers, NEW new, Sound(new), lists' = [lists EXCEPT ![l] = new],
           Serial /\ ~Failures => ExactWalk(new),
           UNCHANGED <<db, dateAt, deletedAt, entity>>, strays \subseteq strays'
    PROVE  /\ lists' \in [Listers -> Walk] /\ WalkInv'
           /\ Serial /\ ~Failures => ExactInv'
  <1>1. lists' \in [Listers -> Walk] /\ \A m \in Listers : lists'[m] = IF m = l THEN new ELSE lists[m]
    BY DEF LIInv, LTypeOK, Sound
  <1>2. ASSUME NEW m \in Listers
        PROVE  /\ (KindInv(lists[m]) /\ OrderInv(lists[m]) /\ SteadyInv(lists[m]))'
               /\ Serial /\ ~Failures => ExactWalk(lists[m])'
    <2>1. PICK q : q = lists'[m]
      OBVIOUS
    <2>2. KindInv(q) /\ OrderInv(q) /\ SteadyInv(q)
      BY <1>1, <2>1 DEF LIInv, WalkInv, Sound
    <2>3. Serial /\ ~Failures => ExactWalk(q)
      BY <1>1, <2>1 DEF LIInv, ExactInv
    <2>4. \A a \in Albums : EntityFresh(a) => EntityFresh(a)'
      BY DEF EntityFresh
    <2> QED BY <2>1, <2>2, <2>3, <2>4, WalkStands, ExactStands
  <1> QED BY <1>1, <1>2 DEF WalkInv, ExactInv

----------------------------------------------------------------------------
(* The rest of the state under every step.                                 *)

\* The part of the invariant that holds for any kind of load.
Base == IInv /\ LTypeOK /\ WalkInv

\* Jobs that start at once.
LEMMA SpawnAllType ==
    ASSUME jobs \in [Goroutines -> Seq(Command)], NEW commands \in SUBSET Seq(Command),
           SpawnAll(commands)
    PROVE  jobs' \in [Goroutines -> Seq(Command)]
  BY DEF SpawnAll

\* The refill of a list leaves everything else alone.
LEMMA GetAlbumsByIDsInv ==
    ASSUME LIInv, NEW l \in Listers, GetAlbumsByIDs(l)
    PROVE  /\ IInv' /\ strays \subseteq strays' /\ strays' \subseteq Albums
           /\ UNCHANGED <<db, dateAt, deletedAt, entity>>
  <1> DEFINE missing == {a \in OnPage(l) : lists[l].found[a] = None}
             got == {a \in missing : db[a].status \in {"present", "trashed"}}
  <1>1. got \subseteq Albums
    <2>1. lists[l].rows \in Seq(Places)
      BY EveryWalk DEF Sound, Walk
    <2>2. OnPage(l) = Ids(lists[l].rows)
      BY DEF OnPage, Ids
    <2> QED BY <2>1, <2>2, IdsType
  <1>2. UNCHANGED <<db, cache, reads, tokenreq, made, writes, dateAt, deletedAt>>
    BY DEF GetAlbumsByIDs
  <1>3. \/ SpawnAll({SetAlbumToCache(a, db[a]) : a \in got})
           /\ strays' = strays \cup {a \in got : db[a].status = "trashed"}
        \/ UNCHANGED <<jobs, strays>>
    BY DEF GetAlbumsByIDs
  <1> HIDE DEF got
  <1>4. {SetAlbumToCache(a, db[a]) : a \in got} \in SUBSET Seq(Command)
    BY <1>1, SetAlbumToCacheType DEF LIInv, IInv, TypeOK
  <1>5. jobs' \in [Goroutines -> Seq(Command)]
    BY <1>3, <1>4, SpawnAllType DEF LIInv, IInv, TypeOK
  <1>6. IInv'
    BY <1>2, <1>5, CacheStep DEF LIInv, IInv, TypeOK, CacheType, MapperInv, cache
  <1> QED BY <1>1, <1>2, <1>3, <1>6 DEF LIInv, LTypeOK, cache

\* A walk that takes a step.
LEMMA ListBase ==
    ASSUME LIInv, List
    PROVE  Base' /\ (Serial /\ ~Failures => ExactInv')
  <1>1. PICK l \in Listers :
           \/ \E kind \in {"available", "owned", "trashed"}, u, v \in Users, limit \in 1 .. PerPage :
                 FirstPage(l, kind, u, v, limit)
           \/ \E limit \in 1 .. PerPage : NextPage(l, limit)
           \/ MGetItems(l) \/ GetAlbumsByIDs(l) \/ Paginated(l) \/ EndWalk(l)
    BY DEF List
  <1>2. PICK new : lists' = [lists EXCEPT ![l] = new] /\ Sound(new)
                   /\ (Serial /\ ~Failures => ExactWalk(new))
    BY <1>1, FirstPageWalk, NextPageWalk, MGetItemsWalk, GetAlbumsByIDsWalk, PaginatedWalk,
       EndWalkWalk
  <1>3. \/ UNCHANGED <<vars, dateAt, deletedAt, strays>>
        \/ GetAlbumsByIDs(l)
    BY <1>1 DEF FirstPage, NextPage, MGetItems, Paginated, EndWalk
  <1>4. /\ IInv' /\ strays \subseteq strays' /\ strays' \subseteq Albums
        /\ UNCHANGED <<db, dateAt, deletedAt, entity>>
    <2>1. CASE UNCHANGED <<vars, dateAt, deletedAt, strays>>
      BY <2>1, NextInv DEF LIInv, LTypeOK, vars
    <2>2. CASE GetAlbumsByIDs(l)
      BY <2>2, GetAlbumsByIDsInv
    <2> QED BY <1>3, <2>1, <2>2
  <1>5. /\ lists' \in [Listers -> Walk] /\ WalkInv'
        /\ Serial /\ ~Failures => ExactInv'
    BY <1>2, <1>4, OneWalk
  <1> QED BY <1>4, <1>5 DEF Base, IInv, LIInv, LTypeOK

\* A write takes the albums it changes out of the history of every walk; those that
\* stay are where they were.
LEMMA DatedWalks ==
    ASSUME LIInv, Dated, writes' \in Nat
    PROVE  /\ deletedAt' \in [Albums -> Nat] /\ lists' \in [Listers -> Walk] /\ WalkInv' /\ ExactInv'
  <1>1. deletedAt' \in [Albums -> Nat]
    BY DEF Dated, LIInv, LTypeOK
  <1>2. ASSUME NEW l \in Listers
        PROVE  /\ lists'[l] \in Walk
               /\ (KindInv(lists[l]) /\ OrderInv(lists[l]) /\ SteadyInv(lists[l]) /\ ExactWalk(lists[l]))'
    <2> DEFINE q == lists[l]
    <2>1. PICK r : r = lists'[l]
      OBVIOUS
    <2>2. r = [q EXCEPT !.clean = q.pc \in {"none", "page", "end"},
                        !.steady = {a \in q.steady : db'[a] = db[a] /\ dateAt'[a] = dateAt[a]}]
      BY <2>1 DEF Dated
    <2>3. Sound(q)
      BY EveryWalk
    <2> HIDE DEF q
    <2>4. q \in Walk
      BY <2>3 DEF Sound
    <2>5. /\ r \in Walk /\ r.clean = (q.pc \in {"none", "page", "end"})
          /\ r.steady = {a \in q.steady : db'[a] = db[a] /\ dateAt'[a] = dateAt[a]}
          /\ r.pc = q.pc /\ r.kind = q.kind /\ r.owner = q.owner /\ r.viewer = q.viewer
          /\ r.cursor = q.cursor /\ r.shown = q.shown /\ r.rows = q.rows /\ r.next = q.next
          /\ r.found = q.found
      <3> DEFINE clean == q.pc \in {"none", "page", "end"}
                 steady == {a \in q.steady : db'[a] = db[a] /\ dateAt'[a] = dateAt[a]}
      <3>1. clean \in BOOLEAN /\ steady \subseteq q.steady
        OBVIOUS
      <3>2. r = [q EXCEPT !.clean = clean, !.steady = steady]
        BY <2>2
      <3> HIDE DEF clean, steady
      <3>3. /\ r \in Walk /\ r.clean = clean /\ r.steady = steady
            /\ r.pc = q.pc /\ r.kind = q.kind /\ r.owner = q.owner /\ r.viewer = q.viewer
            /\ r.cursor = q.cursor /\ r.shown = q.shown /\ r.rows = q.rows /\ r.next = q.next
            /\ r.found = q.found
        BY <2>4, <3>1, <3>2 DEF Walk
      <3> QED BY <3>3 DEF clean, steady
    <2>6. KindInv(lists[l])' /\ ExactWalk(lists[l])'
      BY <2>1, <2>3, <2>5 DEF Sound, KindInv, ExactWalk, Paging
    <2>7. OrderInv(lists[l])'
      <3>1. OrderInv(r)
        BY <2>3, <2>5 DEF Sound, OrderInv
      <3> QED BY <2>1, <3>1 DEF OrderInv, Descends, UpTo, Precedes, Beyond
    <2>8. ASSUME NEW a \in r.steady
          PROVE  /\ a \in q.steady
                 /\ InList(a, lists[l])' <=> InList(a, q)
                 /\ Position(a, lists[l])' = Position(a, q)
      <3>1. a \in q.steady /\ a \in Albums /\ db'[a] = db[a] /\ dateAt'[a] = dateAt[a]
        BY <2>4, <2>5 DEF Walk
      <3>2. deletedAt'[a] = deletedAt[a]
        BY <3>1 DEF Dated
      <3> QED BY <2>1, <2>5, <3>1, <3>2 DEF InList, Position
    <2>9. SteadyInv(lists[l])'
      <3> SUFFICES ASSUME NEW a \in r.steady
                   PROVE  (/\ InList(a, lists[l])
                           /\ \/ a \in Ids(lists[l].shown)
                              \/ lists[l].pc = "page" /\ Beyond(lists[l].cursor, Position(a, lists[l]))
                              \/ Paging(lists[l]) /\ a \in Ids(lists[l].rows)
                              \/ /\ Paging(lists[l]) /\ lists[l].next # None
                                 /\ Beyond(lists[l].next, Position(a, lists[l]))
                           /\ lists[l].pc = "done" /\ a \in Ids(lists[l].rows) =>
                                 lists[l].found[a] # None)'
        BY <2>1 DEF SteadyInv
      <3> QED BY <2>1, <2>3, <2>5, <2>8 DEF Sound, SteadyInv, Paging, Ids, Beyond
    <2> QED BY <2>1, <2>5, <2>6, <2>7, <2>9
  <1>3. lists' \in [Listers -> Walk]
    BY <1>2 DEF Dated
  <1> QED BY <1>1, <1>2, <1>3 DEF WalkInv, ExactInv

\* A write.
LEMMA LWriteBase == ASSUME LIInv, LWrite PROVE Base' /\ ExactInv'
  <1>1. /\ IInv' /\ Dated /\ dateAt' \in [Albums -> Nat] /\ strays' \subseteq Albums
    <2>1. ASSUME NEW a \in Albums, NEW s \in Slugs, NEW active \in IsActive, NEW d \in Dates,
                 NEW guests \in SUBSET (Users \ {Owner[a]}),
                 Create(a, s, active, guests) \/ Update(a, s, active, guests),
                 dateAt' = [dateAt EXCEPT ![a] = d]
          PROVE  IInv' /\ dateAt' \in [Albums -> Nat]
      BY <2>1, EditInv, AlbumsAssumption DEF LIInv, LTypeOK
    <2>2. ASSUME NEW w \in Writers, NEW a \in Albums, NEW t \in Links \cup {None},
                 UpdateDirectToken(w, a, t)
          PROVE  IInv'
      BY <2>2, UpdateDirectTokenInv DEF LIInv
    <2>3. ASSUME Toggle PROVE IInv'
      BY <2>3, ToggleInv DEF LIInv
    <2>4. ASSUME NEW u \in Users, PurgeUser(u) PROVE IInv'
      BY <2>4, PurgeUserInv DEF LIInv
    <2> QED BY <2>1, <2>2, <2>3, <2>4 DEF LWrite, LIInv, LTypeOK
  <1>2. writes' \in Nat
    BY <1>1, WritesAssumption DEF IInv, TypeOK
  <1>3. /\ deletedAt' \in [Albums -> Nat] /\ lists' \in [Listers -> Walk] /\ WalkInv' /\ ExactInv'
    BY <1>1, <1>2, DatedWalks
  <1> QED BY <1>1, <1>3 DEF Base, LTypeOK, IInv

\* A step of the cache that leaves rows and lists alone.
LEMMA StandBase ==
    ASSUME LIInv, IInv', UNCHANGED <<db, lvars>> PROVE Base'
  <1>1. LTypeOK'
    BY DEF LIInv, LTypeOK, IInv, lvars
  <1>2. ASSUME NEW m \in Listers
        PROVE  (KindInv(lists[m]) /\ OrderInv(lists[m]) /\ SteadyInv(lists[m]))'
    <2>1. PICK q : q = lists'[m]
      OBVIOUS
    <2>2. KindInv(q) /\ OrderInv(q) /\ SteadyInv(q)
      BY <2>1 DEF LIInv, WalkInv, lvars
    <2> QED BY <2>1, <2>2, WalkStands DEF lvars
  <1> QED BY <1>1, <1>2 DEF Base, WalkInv, LTypeOK

\* Single requests, the second half of a token update and jobs are such steps.
LEMMA OtherBase ==
    ASSUME LIInv, UNCHANGED lvars,
           Read \/ (\E w \in Writers : UnlinkOldToken(w)) \/ (\E g \in Goroutines : Background(g))
    PROVE  Base'
  <1>1. CASE Read
    <2>1. IInv'
      BY <1>1, ReadInv DEF LIInv
    <2>2. UNCHANGED db
      BY <1>1 DEF Read, StartRead, Lookup, Singleflight, Query, Return, EndRead
    <2> QED BY <2>1, <2>2, StandBase
  <1>2. CASE \E w \in Writers : UnlinkOldToken(w)
    BY <1>2, UnlinkOldTokenInv, StandBase DEF LIInv, UnlinkOldToken
  <1>3. CASE \E g \in Goroutines : Background(g)
    BY <1>3, BackgroundInv, StandBase DEF LIInv, Background
  <1> QED BY <1>1, <1>2, <1>3

\* Every step keeps it.
LEMMA NextBase == ASSUME LIInv, [LNext]_<<vars, lvars>> PROVE Base'
  <1>1. CASE UNCHANGED <<vars, lvars>>
    <2>1. IInv'
      BY <1>1, NextInv DEF LIInv
    <2> QED BY <1>1, <2>1, StandBase DEF vars
  <1>2. CASE LNext
    BY <1>2, LWriteBase, ListBase, OtherBase DEF LNext
  <1> QED BY <1>1, <1>2

----------------------------------------------------------------------------
(* The jobs that wait.                                                     *)

\* Every command that waits is one.
LEMMA PendingType ==
    ASSUME jobs \in [Goroutines -> Seq(Command)] PROVE Pending \subseteq Command
  <1>1. ASSUME NEW g \in Goroutines PROVE Range(jobs[g]) \subseteq Command
    BY RangeOfSeq
  <1> QED BY <1>1 DEF Pending

\* Nothing waits in an idle goroutine.
LEMMA RangeOfNothing == Range(<<>>) = {}
  BY DEF Range

\* A goroutine that starts adds its commands.
LEMMA PendingSpawn ==
    ASSUME jobs \in [Goroutines -> Seq(Command)], NEW cs, Spawn(cs)
    PROVE  Pending' = Pending \cup Range(cs)
  <1>1. PICK g \in Goroutines : jobs[g] = <<>> /\ jobs' = [jobs EXCEPT ![g] = cs]
    BY DEF Spawn
  <1>2. \A h \in Goroutines : jobs'[h] = IF h = g THEN cs ELSE jobs[h]
    BY <1>1
  <1>3. Pending' = UNION {Range(jobs'[h]) : h \in Goroutines}
    BY DEF Pending, Range
  <1>4. Pending' \subseteq Pending \cup Range(cs)
    BY <1>2, <1>3 DEF Pending
  <1>5. Range(cs) \subseteq Pending'
    BY <1>1, <1>2, <1>3
  <1>6. Range(jobs[g]) = {}
    BY <1>1, RangeOfNothing
  <1>7. Pending \subseteq Pending'
    BY <1>2, <1>3, <1>6 DEF Pending
  <1> QED BY <1>4, <1>5, <1>7

\* So do several that start at once.
LEMMA PendingSpawnAll ==
    ASSUME jobs \in [Goroutines -> Seq(Command)], NEW commands, SpawnAll(commands)
    PROVE  /\ Pending \subseteq Pending'
           /\ \A c \in Pending' : c \in Pending \/ \E cs \in commands : c \in Range(cs)
  <1>1. PICK slot \in [commands -> {g \in Goroutines : jobs[g] = <<>>}] :
           jobs' = [g \in Goroutines |->
              IF \E c \in commands : slot[c] = g
              THEN CHOOSE c \in commands : slot[c] = g ELSE jobs[g]]
    BY DEF SpawnAll
  <1>2. \A g \in Goroutines : \/ jobs'[g] = jobs[g]
                              \/ jobs[g] = <<>> /\ jobs'[g] \in commands
    BY <1>1
  <1>3. Pending' = UNION {Range(jobs'[h]) : h \in Goroutines}
    BY DEF Pending, Range
  <1> QED BY <1>2, <1>3, RangeOfNothing DEF Pending

\* A goroutine that runs a command keeps the others.
LEMMA PendingTail ==
    ASSUME jobs \in [Goroutines -> Seq(Command)], NEW g \in Goroutines, jobs[g] # <<>>,
           jobs' = [jobs EXCEPT ![g] = Tail(jobs[g])]
    PROVE  /\ Head(jobs[g]) \in Pending
           /\ Pending' \subseteq Pending
           /\ \A c \in Pending : c = Head(jobs[g]) \/ c \in Pending'
  <1> DEFINE s == jobs[g]
  <1>1. s \in Seq(Command) /\ s # <<>>
    OBVIOUS
  <1> HIDE DEF s
  <1>2. /\ Head(s) \in Range(s) /\ Range(Tail(s)) \subseteq Range(s)
        /\ \A c \in Range(s) : c = Head(s) \/ c \in Range(Tail(s))
    <2>1. /\ Len(s) \in Nat \ {0} /\ DOMAIN s = 1 .. Len(s) /\ Head(s) = s[1]
          /\ DOMAIN Tail(s) = 1 .. (Len(s) - 1)
          /\ \A i \in 1 .. (Len(s) - 1) : Tail(s)[i] = s[i + 1]
      <3>1. Len(s) \in Nat /\ DOMAIN s = 1 .. Len(s)
        BY <1>1, LenProperties
      <3>2. Len(s) # 0 /\ Head(s) = s[1]
        BY <1>1
      <3>3. /\ Tail(s) \in Seq(Command) /\ Len(Tail(s)) = Len(s) - 1
            /\ \A i \in 1 .. Len(Tail(s)) : Tail(s)[i] = s[i + 1]
        BY <1>1, HeadTailProperties
      <3>4. DOMAIN Tail(s) = 1 .. Len(Tail(s))
        BY <3>3, LenProperties
      <3> QED BY <3>1, <3>2, <3>3, <3>4
    <2>2. Head(s) \in Range(s)
      <3>1. 1 \in DOMAIN s
        BY <2>1
      <3>2. s[1] \in Range(s)
        BY <3>1 DEF Range
      <3> QED BY <2>1, <3>2
    <2>3. ASSUME NEW i \in 1 .. (Len(s) - 1) PROVE Tail(s)[i] \in Range(s)
      <3>1. i + 1 \in 1 .. Len(s)
        BY <2>1
      <3> QED BY <2>1, <3>1 DEF Range
    <2>4. ASSUME NEW i \in 1 .. Len(s) PROVE s[i] = Head(s) \/ s[i] \in Range(Tail(s))
      <3>1. CASE i = 1
        BY <2>1, <3>1
      <3>2. CASE i # 1
        <4>1. i - 1 \in 1 .. (Len(s) - 1) /\ (i - 1) + 1 = i
          BY <2>1, <3>2
        <4>2. Tail(s)[i - 1] = s[i]
          BY <2>1, <4>1
        <4> QED BY <2>1, <4>1, <4>2 DEF Range
      <3> QED BY <3>1, <3>2
    <2> QED BY <2>1, <2>2, <2>3, <2>4 DEF Range
  <1>3. \A h \in Goroutines : jobs'[h] = IF h = g THEN Tail(s) ELSE jobs[h]
    BY DEF s
  <1>4. Pending' = UNION {Range(jobs'[h]) : h \in Goroutines}
    BY DEF Pending, Range
  <1>5. Range(jobs[g]) = Range(s)
    BY DEF s
  <1> QED BY <1>2, <1>3, <1>4, <1>5 DEF Pending, s

\* The commands of a refill.
LEMMA SetAlbumToCacheIs ==
    ASSUME NEW a \in Albums, NEW row \in Row, NEW c \in Range(SetAlbumToCache(a, row))
    PROVE  /\ c.op \in {"set_entity", "set_mapper", "set_link"} /\ c.album = a
           /\ c.op = "set_entity" => c.row = row
           /\ c.op = "set_mapper" => c.slug = row.slug
           /\ c.op = "set_link" => c.link = row.link
  <1> DEFINE e == [op |-> "set_entity", album |-> a, row |-> row]
             m == [op |-> "set_mapper", album |-> a, slug |-> row.slug]
             l == [op |-> "set_link", album |-> a, link |-> row.link]
  <1>1. c \in {e, m, l}
    <2>0. SetAlbumToCache(a, row) = <<e, m>> \o IF row.link # None THEN <<l>> ELSE <<>>
      BY DEF SetAlbumToCache
    <2> HIDE DEF e, m, l
    <2> DEFINE S == {e, m, l}
    <2>4. e \in S /\ m \in S /\ l \in S
      OBVIOUS
    <2> HIDE DEF S
    <2>1. <<e, m>> \in Seq(S)
      BY <2>4
    <2>2. (IF row.link # None THEN <<l>> ELSE <<>>) \in Seq(S)
      BY <2>4
    <2>3. SetAlbumToCache(a, row) \in Seq(S)
      BY <2>0, <2>1, <2>2, ConcatProperties
    <2>5. c \in S
      BY <2>3, RangeOfSeq
    <2> QED BY <2>5 DEF S
  <1> QED BY <1>1

\* Among them one that writes the entity.
LEMMA SetAlbumToCacheHas ==
    ASSUME NEW a \in Albums, NEW row \in Row
    PROVE  \E c \in Range(SetAlbumToCache(a, row)) : c.op = "set_entity" /\ c.album = a
  <1> DEFINE e == [op |-> "set_entity", album |-> a, row |-> row]
  <1>1. SetAlbumToCache(a, row)[1] = e /\ 1 \in DOMAIN SetAlbumToCache(a, row)
    <2>1. SetAlbumToCache(a, row) \in Seq(Command)
      BY SetAlbumToCacheType
    <2> QED BY <2>1 DEF SetAlbumToCache
  <1>2. e \in Range(SetAlbumToCache(a, row))
    BY <1>1 DEF Range
  <1> QED BY <1>2

----------------------------------------------------------------------------
(* Coherence under light load.                                             *)

\* A command that writes to the cache.
Fills(c) == c.op \in {"set_entity", "set_mapper", "set_link"}

\* Jobs that start with what the database has leave the cache as coherent as it was.
LEMMA CoherentGrows ==
    ASSUME CoherentInv, UNCHANGED <<db, cache, tokenreq>>, Pending \subseteq Pending',
           strays \subseteq strays',
           \A c \in Pending' : c \in Pending \/ (Fills(c) /\ c.album \notin strays' => Fresh(c))
    PROVE  CoherentInv'
  <1>1. UNCHANGED <<entity, mapper, linkmap>>
    BY DEF cache
  <1>2. (\A c \in Pending : Fills(c) /\ c.album \notin strays => Fresh(c))'
    BY DEF CoherentInv, Fresh, Fills
  <1>3. (\A w \in Writers : tokenreq[w] # None =>
            LET a == tokenreq[w].album IN tokenreq[w].row = db[a] /\ db[a].status = "present")'
    BY DEF CoherentInv
  <1>4. (\A a \in Albums \ strays : EntityFresh(a) \/ EntityWaits(a))'
    BY <1>1 DEF CoherentInv, EntityFresh, EntityWaits
  <1>5. (\A k \in Users \X Slugs : mapper[k] \in strays \/ MapperFresh(k) \/ MapperWaits(k))'
    BY <1>1 DEF CoherentInv, MapperFresh, MapperWaits
  <1>6. (\A l \in Links : linkmap[l] \in strays \/ LinkFresh(l) \/ LinkWaits(l))'
    BY <1>1 DEF CoherentInv, LinkFresh, LinkWaits
  <1> QED BY <1>2, <1>3, <1>4, <1>5, <1>6 DEF CoherentInv, Fills

\* Refilling from the row of a present album is such a job.
LEMMA RefillIsFresh ==
    ASSUME NEW a \in Albums, NEW row \in Row, row = db[a], row.status = "present",
           NEW c \in Range(SetAlbumToCache(a, row))
    PROVE  Fresh(c)
  BY SetAlbumToCacheIs DEF Fresh

\* What a list refills.
LEMMA ListCoherent ==
    ASSUME LIInv, Serial, ~Failures, List PROVE CoherentInv'
  <1>0. CoherentInv /\ jobs \in [Goroutines -> Seq(Command)] /\ db \in [Albums -> Row]
    BY DEF LIInv, IInv, TypeOK
  <1>1. CASE UNCHANGED <<vars, strays>>
    <2>1. UNCHANGED <<db, cache, tokenreq, jobs>>
      BY <1>1 DEF vars, cache
    <2>2. Pending' = Pending
      BY <2>1 DEF Pending, Range
    <2> QED BY <1>0, <1>1, <2>1, <2>2, CoherentGrows
  <1>2. ASSUME NEW l \in Listers, GetAlbumsByIDs(l) PROVE CoherentInv'
    <2> DEFINE missing == {a \in OnPage(l) : lists[l].found[a] = None}
               got == {a \in missing : db[a].status \in {"present", "trashed"}}
               commands == {SetAlbumToCache(a, db[a]) : a \in got}
    <2>1. UNCHANGED <<db, cache, tokenreq>>
      BY <1>2 DEF GetAlbumsByIDs
    <2>2. \/ SpawnAll(commands) /\ strays' = strays \cup {a \in got : db[a].status = "trashed"}
          \/ UNCHANGED <<jobs, strays>>
      BY <1>2 DEF GetAlbumsByIDs
    <2>3. \A a \in got : a \in Albums /\ db[a].status \in {"present", "trashed"}
      <3>1. lists[l].rows \in Seq(Places)
        BY EveryWalk DEF Sound, Walk
      <3>2. OnPage(l) = Ids(lists[l].rows)
        BY DEF OnPage, Ids
      <3> QED BY <3>1, <3>2, IdsType
    <2>4. \A cs \in commands : \E a \in got : cs = SetAlbumToCache(a, db[a])
      OBVIOUS
    <2> HIDE DEF got, commands
    <2>5. CASE UNCHANGED <<jobs, strays>>
      <3>1. Pending' = Pending
        BY <2>5 DEF Pending, Range
      <3> QED BY <1>0, <2>1, <2>5, <3>1, CoherentGrows
    <2>6. CASE SpawnAll(commands) /\ strays' = strays \cup {a \in got : db[a].status = "trashed"}
      <3>1. /\ Pending \subseteq Pending'
            /\ \A c \in Pending' : c \in Pending \/ \E cs \in commands : c \in Range(cs)
        BY <1>0, <2>6, PendingSpawnAll
      <3>2. ASSUME NEW c \in Pending', c \notin Pending, c.album \notin strays' PROVE Fresh(c)
        <4>1. PICK a \in got : c \in Range(SetAlbumToCache(a, db[a]))
          BY <2>4, <3>1, <3>2
        <4>2. a \in Albums /\ db[a] \in Row /\ c.album = a
          BY <1>0, <2>3, <4>1, SetAlbumToCacheIs
        <4>3. db[a].status = "present"
          BY <2>3, <2>6, <3>2, <4>2
        <4> QED BY <4>1, <4>2, <4>3, RefillIsFresh
      <3> QED BY <1>0, <2>1, <2>6, <3>1, <3>2, CoherentGrows
    <2> QED BY <2>2, <2>5, <2>6
  <1>3. (\E l \in Listers : GetAlbumsByIDs(l)) \/ UNCHANGED <<vars, strays>>
    BY DEF List, FirstPage, NextPage, MGetItems, Paginated, EndWalk
  <1> QED BY <1>1, <1>2, <1>3

\* What the query of a single request refills.
LEMMA ReadCoherent ==
    ASSUME LIInv, Serial, ~Failures, Read, UNCHANGED lvars PROVE CoherentInv'
  <1>0. CoherentInv /\ jobs \in [Goroutines -> Seq(Command)] /\ db \in [Albums -> Row]
    BY DEF LIInv, IInv, TypeOK
  <1>1. UNCHANGED <<db, cache, tokenreq, strays>>
    BY DEF Read, StartRead, Lookup, Singleflight, Query, Return, EndRead, lvars
  <1>2. \/ UNCHANGED jobs
        \/ \E a \in Albums : db[a].status = "present" /\ Spawn(SetAlbumToCache(a, db[a]))
    BY DEF Read, StartRead, Lookup, Singleflight, Query, Return, EndRead
  <1>3. CASE UNCHANGED jobs
    <2>1. Pending' = Pending
      BY <1>3 DEF Pending, Range
    <2> QED BY <1>0, <1>1, <2>1, CoherentGrows
  <1>4. ASSUME NEW a \in Albums, db[a].status = "present", Spawn(SetAlbumToCache(a, db[a]))
        PROVE  CoherentInv'
    <2>1. Pending' = Pending \cup Range(SetAlbumToCache(a, db[a]))
      BY <1>0, <1>4, PendingSpawn
    <2>2. \A c \in Range(SetAlbumToCache(a, db[a])) : Fresh(c)
      BY <1>0, <1>4, RefillIsFresh
    <2> QED BY <1>0, <1>1, <2>1, <2>2, CoherentGrows
  <1> QED BY <1>2, <1>3, <1>4

\* The old token is unlinked and the refill starts.
LEMMA UnlinkOldTokenCoherent ==
    ASSUME LIInv, Serial, ~Failures, NEW w \in Writers, UnlinkOldToken(w), UNCHANGED lvars
    PROVE  CoherentInv'
  <1> DEFINE t == tokenreq[w]
  <1>0. CoherentInv /\ jobs \in [Goroutines -> Seq(Command)] /\ db \in [Albums -> Row]
    BY DEF LIInv, IInv, TypeOK
  <1>1. t \in TokenRequest /\ t # None
    BY DEF UnlinkOldToken, LIInv, IInv, TypeOK
  <1>2. /\ UNCHANGED <<db, entity, mapper, strays>>
        /\ tokenreq' = [tokenreq EXCEPT ![w] = None]
        /\ Spawn(SetAlbumToCache(t.album, t.row))
        /\ linkmap' = IF t.old # None THEN [linkmap EXCEPT ![t.old] = None] ELSE linkmap
    BY DEF UnlinkOldToken, Run, lvars, cache
  <1>3. /\ t.album \in Albums /\ t.row \in Row /\ t.old \in Links \cup {None}
        /\ t.row = db[t.album] /\ t.row.status = "present"
    BY <1>0, <1>1 DEF TokenRequest, CoherentInv
  <1>4. \A v \in Writers : tokenreq'[v] = IF v = w THEN None ELSE tokenreq[v]
    BY <1>2 DEF LIInv, IInv, TypeOK
  <1> HIDE DEF t
  <1>5. Pending' = Pending \cup Range(SetAlbumToCache(t.album, t.row))
    BY <1>0, <1>2, PendingSpawn
  <1>6. \A c \in Range(SetAlbumToCache(t.album, t.row)) : Fresh(c)
    BY <1>3, RefillIsFresh
  <1>7. \E c \in Range(SetAlbumToCache(t.album, t.row)) : c.op = "set_entity" /\ c.album = t.album
    BY <1>3, SetAlbumToCacheHas
  <1>8. (\A c \in Pending : Fills(c) /\ c.album \notin strays => Fresh(c))'
    BY <1>0, <1>2, <1>5, <1>6 DEF CoherentInv, Fresh, Fills
  <1>9. (\A v \in Writers : tokenreq[v] # None =>
            LET a == tokenreq[v].album IN tokenreq[v].row = db[a] /\ db[a].status = "present")'
    BY <1>0, <1>2, <1>4 DEF CoherentInv
  <1>10. (\A a \in Albums \ strays : EntityFresh(a) \/ EntityWaits(a))'
    BY <1>0, <1>2, <1>4, <1>5, <1>7 DEF CoherentInv, EntityFresh, EntityWaits, t
  <1>11. (\A k \in Users \X Slugs : mapper[k] \in strays \/ MapperFresh(k) \/ MapperWaits(k))'
    BY <1>0, <1>2, <1>5 DEF CoherentInv, MapperFresh, MapperWaits
  <1>12. (\A l \in Links : linkmap[l] \in strays \/ LinkFresh(l) \/ LinkWaits(l))'
    <2> SUFFICES ASSUME NEW l \in Links PROVE (linkmap[l] \in strays \/ LinkFresh(l) \/ LinkWaits(l))'
      OBVIOUS
    <2>1. CASE t.old = l
      <3>1. linkmap'[l] = None
        BY <1>2, <2>1, NoneAssumption DEF LIInv, IInv, TypeOK
      <3> QED BY <3>1 DEF LinkFresh
    <2>2. CASE t.old # l
      <3>1. linkmap'[l] = linkmap[l]
        BY <1>2, <2>2
      <3> QED BY <1>0, <1>2, <1>4, <1>5, <2>2, <3>1 DEF CoherentInv, LinkFresh, LinkWaits, t
    <2> QED BY <2>1, <2>2
  <1> QED BY <1>8, <1>9, <1>10, <1>11, <1>12 DEF CoherentInv, Fills

\* A job runs its next command: the key it waited to write or remove is fresh.
LEMMA BackgroundCoherent ==
    ASSUME LIInv, Serial, ~Failures, NEW g \in Goroutines, Background(g), UNCHANGED lvars
    PROVE  CoherentInv' /\ \A a \in Albums \ strays : EntityFresh(a) => EntityFresh(a)'
  <1> DEFINE c == Head(jobs[g])
  <1>0. /\ CoherentInv /\ jobs \in [Goroutines -> Seq(Command)] /\ db \in [Albums -> Row]
        /\ mapper \in [Users \X Slugs -> Albums \cup {None}] /\ strays \subseteq Albums
        /\ entity \in [Albums -> Row \cup {None}] /\ linkmap \in [Links -> Albums \cup {None}]
    BY DEF LIInv, IInv, TypeOK, LTypeOK
  <1>1. /\ UNCHANGED <<db, tokenreq, strays>> /\ Run(c)
        /\ jobs[g] # <<>> /\ jobs' = [jobs EXCEPT ![g] = Tail(jobs[g])]
    BY DEF Background, lvars
  <1>2. /\ c \in Pending /\ Pending' \subseteq Pending
        /\ \A d \in Pending : d = c \/ d \in Pending'
    BY <1>0, <1>1, PendingTail
  <1>3. c \in Command
    BY <1>0, <1>2, PendingType
  <1> HIDE DEF c
  <1>4. Fills(c) /\ c.album \notin strays => Fresh(c)
    BY <1>0, <1>2 DEF CoherentInv, Fills
  <1>5. (\A d \in Pending : Fills(d) /\ d.album \notin strays => Fresh(d))'
    BY <1>0, <1>1, <1>2 DEF CoherentInv, Fresh, Fills
  <1>6. (\A w \in Writers : tokenreq[w] # None =>
            LET a == tokenreq[w].album IN tokenreq[w].row = db[a] /\ db[a].status = "present")'
    BY <1>0, <1>1 DEF CoherentInv
  <1>7. ASSUME NEW a \in Albums \ strays
        PROVE  /\ EntityFresh(a) => EntityFresh(a)'
               /\ EntityFresh(a)' \/ EntityWaits(a)'
    <2>1. CASE c.op \in {"set_entity", "unlink_album"} /\ c.album = a
      <3>1. CASE c.op = "set_entity"
        <4>1. entity'[a] = c.row
          BY <1>0, <1>1, <2>1, <3>1 DEF Run
        <4>2. c.row = db[a] /\ db[a].status = "present"
          BY <1>4, <2>1, <3>1 DEF Fills, Fresh
        <4> QED BY <1>1, <4>1, <4>2 DEF EntityFresh
      <3>2. CASE c.op = "unlink_album"
        <4>1. entity'[a] = None
          BY <1>0, <1>1, <2>1, <3>2 DEF Run
        <4> QED BY <4>1 DEF EntityFresh
      <3> QED BY <2>1, <3>1, <3>2
    <2>2. CASE ~(c.op \in {"set_entity", "unlink_album"} /\ c.album = a)
      <3>1. entity'[a] = entity[a]
        BY <1>0, <1>1, <2>2 DEF Run
      <3>2. EntityWaits(a) => EntityWaits(a)'
        BY <1>1, <1>2, <2>2 DEF EntityWaits
      <3> QED BY <1>0, <1>1, <3>1, <3>2 DEF EntityFresh, CoherentInv
    <2> QED BY <2>1, <2>2
  <1>8. ASSUME NEW k \in Users \X Slugs
        PROVE  (mapper[k] \in strays \/ MapperFresh(k) \/ MapperWaits(k))'
    <2>1. CASE /\ c.op \in {"set_mapper", "unlink_album", "unlink_mapper"}
               /\ <<Owner[c.album], c.slug>> = k
      <3>1. CASE c.op = "set_mapper"
        <4>1. mapper'[k] = c.album
          BY <1>0, <1>1, <2>1, <3>1 DEF Run
        <4>2. c.album \notin strays => db[c.album].slug = c.slug /\ db[c.album].status = "present"
          BY <1>4, <3>1 DEF Fills, Fresh
        <4>3. k[1] = Owner[c.album] /\ k[2] = c.slug
          BY <2>1
        <4> QED BY <1>1, <4>1, <4>2, <4>3 DEF MapperFresh
      <3>2. CASE c.op \in {"unlink_album", "unlink_mapper"}
        <4>1. mapper'[k] = None
          BY <1>0, <1>1, <2>1, <3>2 DEF Run
        <4> QED BY <4>1 DEF MapperFresh
      <3> QED BY <2>1, <3>1, <3>2
    <2>2. CASE ~ /\ c.op \in {"set_mapper", "unlink_album", "unlink_mapper"}
                 /\ <<Owner[c.album], c.slug>> = k
      <3>1. mapper'[k] = mapper[k]
        BY <1>0, <1>1, <2>2 DEF Run
      <3>2. MapperWaits(k) => MapperWaits(k)'
        BY <1>1, <1>2, <2>2 DEF MapperWaits
      <3> QED BY <1>0, <1>1, <3>1, <3>2 DEF MapperFresh, CoherentInv
    <2> QED BY <2>1, <2>2
  <1>9. ASSUME NEW l \in Links
        PROVE  (linkmap[l] \in strays \/ LinkFresh(l) \/ LinkWaits(l))'
    <2>1. CASE c.op \in {"set_link", "unlink_link"} /\ c.link = l
      <3>1. CASE c.op = "set_link"
        <4>1. linkmap'[l] = c.album
          BY <1>0, <1>1, <2>1, <3>1 DEF Run
        <4>2. c.album \notin strays => db[c.album].link = l /\ db[c.album].status = "present"
          BY <1>4, <2>1, <3>1 DEF Fills, Fresh
        <4> QED BY <1>1, <4>1, <4>2 DEF LinkFresh
      <3>2. CASE c.op = "unlink_link"
        <4>1. linkmap'[l] = None
          BY <1>0, <1>1, <2>1, <3>2 DEF Run
        <4> QED BY <4>1 DEF LinkFresh
      <3> QED BY <2>1, <3>1, <3>2
    <2>2. CASE ~(c.op \in {"set_link", "unlink_link"} /\ c.link = l)
      <3>1. linkmap'[l] = linkmap[l]
        BY <1>0, <1>1, <2>2 DEF Run
      <3>2. LinkWaits(l) => LinkWaits(l)'
        BY <1>1, <1>2, <2>2 DEF LinkWaits
      <3> QED BY <1>0, <1>1, <3>1, <3>2 DEF LinkFresh, CoherentInv
    <2> QED BY <2>1, <2>2
  <1>10. CoherentInv'
    BY <1>1, <1>5, <1>6, <1>7, <1>8, <1>9 DEF CoherentInv, Fills
  <1> QED BY <1>7, <1>10

\* A request that no write overlaps stays exact while jobs run.
LEMMA OtherExact ==
    ASSUME LIInv, Serial, ~Failures, UNCHANGED <<db, lvars>>,
           \A a \in Albums \ strays : EntityFresh(a) => EntityFresh(a)'
    PROVE  ExactInv'
  <1> SUFFICES ASSUME NEW m \in Listers PROVE ExactWalk(lists[m])'
    BY DEF ExactInv
  <1>1. PICK q : q = lists'[m]
    OBVIOUS
  <1>2. ExactWalk(q)
    BY <1>1 DEF LIInv, ExactInv, lvars
  <1> QED BY <1>1, <1>2, ExactStands DEF lvars

\* A write that begins in silence, when every key is fresh: the keys that led to the
\* old row wait, or the new row has them too.
LEMMA CoherentWrite ==
    ASSUME LIInv, Serial, ~Failures, Quiet, NEW a \in Albums, NEW row,
           db' = [db EXCEPT ![a] = row], UNCHANGED <<cache, strays>>,
           \A c \in Pending' : Fills(c) => Fresh(c)',
           \A w \in Writers : tokenreq'[w] # None =>
              tokenreq'[w].album = a /\ tokenreq'[w].row = row /\ row.status = "present",
           db[a].status = "present" => EntityWaits(a)',
           \A k \in Users \X Slugs : k = <<Owner[a], db[a].slug>> /\ db[a].status = "present" =>
              (row.slug = db[a].slug /\ row.status = "present") \/ MapperWaits(k)',
           \A l \in Links : l = db[a].link /\ db[a].status = "present" =>
              (row.link = db[a].link /\ row.status = "present") \/ LinkWaits(l)'
    PROVE  CoherentInv'
  <1>0. /\ UNCHANGED <<entity, mapper, linkmap, strays>>
        /\ \A b \in Albums : db'[b] = IF b = a THEN row ELSE db[b]
        /\ mapper \in [Users \X Slugs -> Albums \cup {None}]
        /\ linkmap \in [Links -> Albums \cup {None}]
    BY DEF cache, LIInv, IInv, TypeOK
  <1>1. /\ \A b \in Albums \ strays : EntityFresh(b)
        /\ \A k \in Users \X Slugs : mapper[k] \in strays \/ MapperFresh(k)
        /\ \A l \in Links : linkmap[l] \in strays \/ LinkFresh(l)
    BY QuietIsFresh
  <1>2. (\A c \in Pending : Fills(c) /\ c.album \notin strays => Fresh(c))'
    BY DEF Fresh, Fills
  <1>3. (\A w \in Writers : tokenreq[w] # None =>
            LET b == tokenreq[w].album IN tokenreq[w].row = db[b] /\ db[b].status = "present")'
    BY <1>0
  <1>4. (\A b \in Albums \ strays : EntityFresh(b) \/ EntityWaits(b))'
    <2> SUFFICES ASSUME NEW b \in Albums \ strays PROVE (EntityFresh(b) \/ EntityWaits(b))'
      BY <1>0
    <2>1. CASE b = a
      BY <1>0, <1>1, <2>1 DEF EntityFresh
    <2>2. CASE b # a
      BY <1>0, <1>1, <2>2 DEF EntityFresh
    <2> QED BY <2>1, <2>2
  <1>5. (\A k \in Users \X Slugs : mapper[k] \in strays \/ MapperFresh(k) \/ MapperWaits(k))'
    <2> SUFFICES ASSUME NEW k \in Users \X Slugs, mapper[k] \notin strays
                 PROVE  (MapperFresh(k) \/ MapperWaits(k))'
      BY <1>0
    <2>1. CASE mapper[k] = a
      <3>1. Owner[a] = k[1] /\ db[a].slug = k[2] /\ db[a].status = "present"
        BY <1>1, <2>1, NoneAssumption DEF MapperFresh
      <3>2. k = <<Owner[a], db[a].slug>>
        BY <3>1
      <3> QED BY <1>0, <2>1, <3>1, <3>2 DEF MapperFresh
    <2>2. CASE mapper[k] # a
      BY <1>0, <1>1, <2>2 DEF MapperFresh
    <2> QED BY <2>1, <2>2
  <1>6. (\A l \in Links : linkmap[l] \in strays \/ LinkFresh(l) \/ LinkWaits(l))'
    <2> SUFFICES ASSUME NEW l \in Links, linkmap[l] \notin strays
                 PROVE  (LinkFresh(l) \/ LinkWaits(l))'
      BY <1>0
    <2>1. CASE linkmap[l] = a
      <3>1. db[a].link = l /\ db[a].status = "present"
        BY <1>1, <2>1, NoneAssumption DEF LinkFresh
      <3> QED BY <1>0, <2>1, <3>1 DEF LinkFresh
    <2>2. CASE linkmap[l] # a
      BY <1>0, <1>1, <2>2 DEF LinkFresh
    <2> QED BY <2>1, <2>2
  <1> QED BY <1>2, <1>3, <1>4, <1>5, <1>6 DEF CoherentInv, Fills

\* Such a write that stores row and starts a job with those commands.
LEMMA CoherentStore ==
    ASSUME LIInv, Serial, ~Failures, Quiet, NEW a \in Albums, NEW row,
           NEW cs, Store(a, row, cs), UNCHANGED strays,
           \A c \in Range(cs) : Fills(c) =>
              /\ c.album = a /\ row.status = "present"
              /\ c.op = "set_entity" => c.row = row
              /\ c.op = "set_mapper" => c.slug = row.slug
              /\ c.op = "set_link" => c.link = row.link,
           db[a].status = "present" =>
              \E c \in Range(cs) : c.op \in {"set_entity", "unlink_album"} /\ c.album = a,
           db[a].status = "present" =>
              \/ row.slug = db[a].slug /\ row.status = "present"
              \/ \E c \in Range(cs) : /\ c.op \in {"set_mapper", "unlink_album", "unlink_mapper"}
                                      /\ c.album = a /\ c.slug = db[a].slug,
           db[a].status = "present" /\ db[a].link # None =>
              \/ row.link = db[a].link /\ row.status = "present"
              \/ \E c \in Range(cs) : c.op \in {"set_link", "unlink_link"} /\ c.link = db[a].link
    PROVE  CoherentInv'
  <1>1. /\ db' = [db EXCEPT ![a] = row] /\ UNCHANGED <<cache, tokenreq>> /\ Spawn(cs)
        /\ \A b \in Albums : db'[b] = IF b = a THEN row ELSE db[b]
    BY DEF Store, LIInv, IInv, TypeOK
  <1>2. \A c : c \in Pending' <=> c \in Range(cs)
    <2>1. Pending' = Pending \cup Range(cs)
      BY <1>1, PendingSpawn DEF LIInv, IInv, TypeOK
    <2> QED BY <2>1, QuietIsFresh
  <1>3. \A c \in Pending' : Fills(c) => Fresh(c)'
    BY <1>1, <1>2 DEF Fresh
  <1>4. \A w \in Writers : tokenreq'[w] = None
    BY <1>1 DEF Quiet
  <1>5. db[a].status = "present" => EntityWaits(a)'
    BY <1>2 DEF EntityWaits
  <1>6. \A k \in Users \X Slugs : k = <<Owner[a], db[a].slug>> /\ db[a].status = "present" =>
              (row.slug = db[a].slug /\ row.status = "present") \/ MapperWaits(k)'
    BY <1>2 DEF MapperWaits
  <1>7. \A l \in Links : l = db[a].link /\ db[a].status = "present" =>
              (row.link = db[a].link /\ row.status = "present") \/ LinkWaits(l)'
    BY <1>2, NoneAssumption DEF LinkWaits
  <1> QED BY <1>1, <1>3, <1>4, <1>5, <1>6, <1>7, CoherentWrite

\* Such a write that starts no job, on a row no key may lead to.
LEMMA CoherentRow ==
    ASSUME LIInv, Serial, ~Failures, Quiet, NEW a \in Albums, NEW row,
           db' = [db EXCEPT ![a] = row], db[a].status # "present",
           UNCHANGED <<cache, jobs, tokenreq, strays>>
    PROVE  CoherentInv'
  <1>1. Pending' = Pending
    BY DEF Pending, Range
  <1>2. \A c : c \notin Pending'
    BY <1>1, QuietIsFresh
  <1>3. \A w \in Writers : tokenreq'[w] = None
    BY DEF Quiet
  <1> QED BY <1>2, <1>3, CoherentWrite

\* One command.
LEMMA RangeOfOne == ASSUME NEW c PROVE Range(<<c>>) = {c}
  <1>1. DOMAIN <<c>> = {1} /\ <<c>>[1] = c
    OBVIOUS
  <1> QED BY <1>1 DEF Range

\* The album form.
LEMMA EditCoherent ==
    ASSUME LIInv, Serial, ~Failures, UNCHANGED strays, NEW a \in Albums, NEW s \in Slugs,
           NEW active \in BOOLEAN, NEW guests \in SUBSET Users,
           Create(a, s, active, guests) \/ Update(a, s, active, guests)
    PROVE  CoherentInv'
  <1>0. Quiet /\ db[a] \in Row
    BY DEF Create, Update, StartWrite, LIInv, IInv, TypeOK
  <1>1. CASE Create(a, s, active, guests)
    <2> DEFINE row == [status |-> "present", slug |-> s, active |-> active, guests |-> guests,
                       link |-> None]
    <2>1. row \in Row /\ row.status = "present"
      BY DEF Row
    <2>2. Store(a, row, SetAlbumToCache(a, row)) /\ db[a].status = "absent"
      BY <1>1 DEF Create
    <2> HIDE DEF row
    <2> QED BY <1>0, <2>1, <2>2, SetAlbumToCacheIs, CoherentStore
  <1>2. CASE Update(a, s, active, guests)
    <2> DEFINE row == [db[a] EXCEPT !.slug = s, !.active = active, !.guests = guests]
               pre == IF s # db[a].slug THEN InvalidateAlbumMapper(a, db[a].slug) ELSE <<>>
               u == [op |-> "unlink_mapper", album |-> a, slug |-> db[a].slug]
    <2>1. /\ row \in Row /\ row.status = db[a].status /\ row.link = db[a].link /\ row.slug = s
      BY <1>0 DEF Row
    <2>2. Store(a, row, pre \o SetAlbumToCache(a, row)) /\ db[a].status = "present"
      BY <1>2 DEF Update
    <2>3. Range(pre) = IF s # db[a].slug THEN {u} ELSE {}
      BY RangeOfOne, RangeOfNothing DEF InvalidateAlbumMapper
    <2>4. u \in Command /\ pre \in Seq(Command)
      <3>1. u \in Command
        BY <1>0 DEF Command, Row
      <3> QED BY <3>1 DEF InvalidateAlbumMapper
    <2>5. u.op = "unlink_mapper" /\ u.album = a /\ u.slug = db[a].slug
      OBVIOUS
    <2> HIDE DEF row, pre, u
    <2>6. Range(pre \o SetAlbumToCache(a, row)) = Range(pre) \cup Range(SetAlbumToCache(a, row))
      BY <2>1, <2>4, SetAlbumToCacheType, RangeConcatenation
    <2>7. \A c \in Range(pre) : c = u /\ s # db[a].slug
      BY <2>3
    <2>8. \A c \in Range(SetAlbumToCache(a, row)) :
             /\ c.op \in {"set_entity", "set_mapper", "set_link"} /\ c.album = a
             /\ c.op = "set_entity" => c.row = row
             /\ c.op = "set_mapper" => c.slug = row.slug
             /\ c.op = "set_link" => c.link = row.link
      BY <2>1, SetAlbumToCacheIs
    <2>9. \E c \in Range(SetAlbumToCache(a, row)) : c.op = "set_entity" /\ c.album = a
      BY <2>1, SetAlbumToCacheHas
    <2> DEFINE cs == pre \o SetAlbumToCache(a, row)
    <2>10. \A c : c \in Range(cs) <=> c \in Range(pre) \/ c \in Range(SetAlbumToCache(a, row))
      BY <2>6
    <2> HIDE DEF cs
    <2>11. \A c \in Range(cs) : Fills(c) =>
              /\ c.album = a /\ row.status = "present"
              /\ c.op = "set_entity" => c.row = row
              /\ c.op = "set_mapper" => c.slug = row.slug
              /\ c.op = "set_link" => c.link = row.link
      BY <2>1, <2>2, <2>5, <2>7, <2>8, <2>10 DEF Fills
    <2>12. \E c \in Range(cs) : c.op \in {"set_entity", "unlink_album"} /\ c.album = a
      BY <2>9, <2>10
    <2>13. \/ row.slug = db[a].slug /\ row.status = "present"
           \/ \E c \in Range(cs) : /\ c.op \in {"set_mapper", "unlink_album", "unlink_mapper"}
                                   /\ c.album = a /\ c.slug = db[a].slug
      BY <2>1, <2>2, <2>3, <2>5, <2>10
    <2>14. Store(a, row, cs)
      BY <2>2 DEF cs
    <2> QED BY <1>0, <2>1, <2>2, <2>11, <2>12, <2>13, <2>14, CoherentStore
  <1> QED BY <1>1, <1>2

\* The switch.
LEMMA ToggleActiveCoherent ==
    ASSUME LIInv, Serial, ~Failures, UNCHANGED strays, NEW a \in Albums, NEW active \in BOOLEAN,
           ToggleActive(a, active)
    PROVE  CoherentInv'
  <1> DEFINE row == [db[a] EXCEPT !.active = active]
  <1>1. Quiet /\ db[a] \in Row
    BY DEF ToggleActive, StartWrite, LIInv, IInv, TypeOK
  <1>2. /\ row \in Row /\ row.status = db[a].status /\ row.link = db[a].link
        /\ row.slug = db[a].slug
    BY <1>1 DEF Row
  <1>3. Store(a, row, SetAlbumToCache(a, row)) /\ db[a].status = "present"
    BY DEF ToggleActive
  <1> HIDE DEF row
  <1>4. \E c \in Range(SetAlbumToCache(a, row)) : c.op = "set_entity" /\ c.album = a
    BY <1>2, SetAlbumToCacheHas
  <1> QED BY <1>1, <1>2, <1>3, <1>4, SetAlbumToCacheIs, CoherentStore

\* Into the trash and out of it.
LEMMA TrashCoherent ==
    ASSUME LIInv, Serial, ~Failures, UNCHANGED strays, NEW a \in Albums,
           Delete(a) \/ Restore(a) \/ Purge(a)
    PROVE  CoherentInv'
  <1>0. Quiet /\ db[a] \in Row
    BY DEF Delete, Restore, Purge, StartWrite, LIInv, IInv, TypeOK
  <1>1. CASE Delete(a)
    <2> DEFINE row == [db[a] EXCEPT !.status = "trashed"]
               u == [op |-> "unlink_album", album |-> a, slug |-> db[a].slug]
               k == [op |-> "unlink_link", link |-> db[a].link]
               cs == InvalidateAlbumCache(a, row)
    <2>1. row.link = db[a].link /\ row.slug = db[a].slug
      BY <1>0 DEF Row
    <2>2. Store(a, row, cs)
      BY <1>1 DEF Delete
    <2>3. cs = <<u>> \o IF db[a].link # None THEN <<k>> ELSE <<>>
      BY <2>1 DEF InvalidateAlbumCache
    <2>4. /\ u.op = "unlink_album" /\ u.album = a /\ u.slug = db[a].slug
          /\ k.op = "unlink_link" /\ k.link = db[a].link
      OBVIOUS
    <2> HIDE DEF row, u, k, cs
    <2>5. /\ \A c \in Range(cs) : c \in {u, k}
          /\ u \in Range(cs) /\ (db[a].link # None => k \in Range(cs))
      <3> DEFINE S == {u, k}
                 t == IF db[a].link # None THEN <<k>> ELSE <<>>
      <3>0. u \in S /\ k \in S /\ \A c \in S : c = u \/ c = k
        OBVIOUS
      <3>1. <<u>> \in Seq(S) /\ t \in Seq(S)
        <4> HIDE DEF S
        <4> QED BY <3>0
      <3>2. Range(<<u>>) = {u} /\ Range(t) = IF db[a].link # None THEN {k} ELSE {}
        BY RangeOfOne, RangeOfNothing
      <3> HIDE DEF S, t
      <3>3. Range(<<u>> \o t) = Range(<<u>>) \cup Range(t)
        BY <3>1, RangeConcatenation
      <3>4. cs = <<u>> \o t
        BY <2>3 DEF t
      <3> QED BY <3>2, <3>3, <3>4
    <2>6. \A c \in Range(cs) : ~Fills(c)
      BY <2>4, <2>5 DEF Fills
    <2> QED BY <1>0, <2>2, <2>4, <2>5, <2>6, CoherentStore
  <1>2. CASE Restore(a)
    <2>1. \E s \in Slugs : db' = [db EXCEPT ![a] = [db[a] EXCEPT !.status = "present", !.slug = s]]
      BY <1>2 DEF Restore
    <2>2. db[a].status # "present" /\ UNCHANGED <<cache, jobs, tokenreq>>
      BY <1>2 DEF Restore
    <2> QED BY <1>0, <2>1, <2>2, CoherentRow
  <1>3. CASE Purge(a)
    <2>1. /\ db' = [db EXCEPT ![a] = [NoRow EXCEPT !.status = "purged"]]
          /\ db[a].status # "present" /\ UNCHANGED <<cache, jobs, tokenreq>>
      BY <1>3 DEF Purge
    <2> QED BY <1>0, <2>1, CoherentRow
  <1> QED BY <1>1, <1>2, <1>3

\* The statement of a token update.
LEMMA UpdateDirectTokenCoherent ==
    ASSUME LIInv, Serial, ~Failures, UNCHANGED strays, NEW w \in Writers, NEW a \in Albums,
           NEW t \in Links \cup {None}, UpdateDirectToken(w, a, t)
    PROVE  CoherentInv'
  <1> DEFINE row == [db[a] EXCEPT !.link = t]
             token == [album |-> a, old |-> db[a].link, row |-> row]
  <1>1. Quiet /\ db[a] \in Row /\ db[a].status = "present"
    BY DEF UpdateDirectToken, StartWrite, LIInv, IInv, TypeOK
  <1>2. row.status = "present" /\ row.slug = db[a].slug
    BY <1>1 DEF Row
  <1>3. token.album = a /\ token.old = db[a].link /\ token.row = row
    OBVIOUS
  <1>4. /\ db' = [db EXCEPT ![a] = row] /\ tokenreq' = [tokenreq EXCEPT ![w] = token]
        /\ UNCHANGED <<cache, jobs>>
    BY DEF UpdateDirectToken
  <1> HIDE DEF row, token
  <1>5. \A v \in Writers : tokenreq'[v] = IF v = w THEN token ELSE None
    BY <1>1, <1>4 DEF Quiet, LIInv, IInv, TypeOK
  <1>6. \A c : c \notin Pending'
    <2>1. Pending' = Pending
      BY <1>4 DEF Pending, Range
    <2> QED BY <1>1, <2>1, QuietIsFresh
  <1>7. tokenreq'[w] # None
    <2>1. token \in TokenRequest
      <3>1. row \in Row /\ db[a].link \in Links \cup {None}
        BY <1>1 DEF row, Row
      <3> QED BY <3>1 DEF token, TokenRequest
    <2>2. tokenreq'[w] = token
      BY <1>5
    <2> QED BY <2>1, <2>2, NoRecordAssumption
  <1>8. EntityWaits(a)' /\ \A l \in Links : l = db[a].link => LinkWaits(l)'
    <2>1. tokenreq'[w] # None /\ tokenreq'[w].album = a /\ tokenreq'[w].old = db[a].link
      BY <1>3, <1>5, <1>7
    <2>2. EntityWaits(a)'
      BY <2>1 DEF EntityWaits
    <2>3. ASSUME NEW l \in Links, l = db[a].link PROVE LinkWaits(l)'
      BY <2>1, <2>3 DEF LinkWaits
    <2> QED BY <2>2, <2>3
  <1>9. /\ \A c \in Pending' : Fills(c) => Fresh(c)'
        /\ \A v \in Writers : tokenreq'[v] # None =>
              tokenreq'[v].album = a /\ tokenreq'[v].row = row /\ row.status = "present"
    BY <1>2, <1>3, <1>5, <1>6
  <1>10. /\ \A k \in Users \X Slugs : k = <<Owner[a], db[a].slug>> /\ db[a].status = "present" =>
               (row.slug = db[a].slug /\ row.status = "present") \/ MapperWaits(k)'
         /\ \A l \in Links : l = db[a].link /\ db[a].status = "present" =>
               (row.link = db[a].link /\ row.status = "present") \/ LinkWaits(l)'
    BY <1>2, <1>8
  <1>11. db[a].status = "present" => EntityWaits(a)'
    BY <1>8
  <1> QED BY <1>1, <1>4, <1>9, <1>10, <1>11, CoherentWrite

\* The albums of a purged user become strays.
LEMMA PurgeUserCoherent ==
    ASSUME LIInv, Serial, ~Failures, NEW u \in Users, PurgeUser(u),
           strays' = strays \cup {a \in Albums : Owner[a] = u}
    PROVE  CoherentInv'
  <1>1. Quiet /\ UNCHANGED <<entity, mapper, linkmap, jobs, tokenreq>>
    BY DEF PurgeUser, StartWrite, cache
  <1>2. \A a \in Albums : a \notin strays' => a \notin strays /\ db'[a] = db[a]
    BY DEF PurgeUser
  <1>3. /\ \A c : c \notin Pending
        /\ \A a \in Albums \ strays : EntityFresh(a)
        /\ \A k \in Users \X Slugs : mapper[k] \in strays \/ MapperFresh(k)
        /\ \A l \in Links : linkmap[l] \in strays \/ LinkFresh(l)
    BY <1>1, QuietIsFresh
  <1>4. \A c : c \notin Pending'
    BY <1>1, <1>3 DEF Pending, Range
  <1>5. \A w \in Writers : tokenreq'[w] = None
    BY <1>1 DEF Quiet
  <1>6. (\A a \in Albums \ strays : EntityFresh(a))'
    BY <1>1, <1>2, <1>3 DEF EntityFresh
  <1>7. (\A k \in Users \X Slugs : mapper[k] \in strays \/ MapperFresh(k))'
    <2> SUFFICES ASSUME NEW k \in Users \X Slugs, mapper'[k] \notin strays', mapper'[k] # None
                 PROVE  MapperFresh(k)'
      BY DEF MapperFresh
    <2>1. mapper[k] \in Albums /\ mapper'[k] = mapper[k]
      BY <1>1 DEF LIInv, IInv, TypeOK
    <2> QED BY <1>2, <1>3, <2>1 DEF MapperFresh
  <1>8. (\A l \in Links : linkmap[l] \in strays \/ LinkFresh(l))'
    <2> SUFFICES ASSUME NEW l \in Links, linkmap'[l] \notin strays', linkmap'[l] # None
                 PROVE  LinkFresh(l)'
      BY DEF LinkFresh
    <2>1. linkmap[l] \in Albums /\ linkmap'[l] = linkmap[l]
      BY <1>1 DEF LIInv, IInv, TypeOK
    <2> QED BY <1>2, <1>3, <2>1 DEF LinkFresh
  <1> QED BY <1>4, <1>5, <1>6, <1>7, <1>8 DEF CoherentInv

\* Every write.
LEMMA LWriteCoherent == ASSUME LIInv, Serial, ~Failures, LWrite PROVE CoherentInv'
  <1>1. ASSUME NEW a \in Albums, NEW s \in Slugs, NEW active \in IsActive,
               NEW guests \in SUBSET (Users \ {Owner[a]}), UNCHANGED strays,
               Create(a, s, active, guests) \/ Update(a, s, active, guests)
        PROVE  CoherentInv'
    BY <1>1, EditCoherent, FlagsAssumption
  <1>2. ASSUME NEW w \in Writers, NEW a \in Albums, NEW t \in Links \cup {None}, UNCHANGED strays,
               UpdateDirectToken(w, a, t)
        PROVE  CoherentInv'
    BY <1>2, UpdateDirectTokenCoherent
  <1>3. ASSUME Toggle, UNCHANGED strays PROVE CoherentInv'
    <2>1. ASSUME NEW a \in Albums, NEW active \in BOOLEAN, ToggleActive(a, active)
          PROVE  CoherentInv'
      BY <1>3, <2>1, ToggleActiveCoherent
    <2> QED BY <1>3, <2>1, TrashCoherent DEF Toggle
  <1>4. ASSUME NEW u \in Users, PurgeUser(u), strays' = strays \cup {a \in Albums : Owner[a] = u}
        PROVE  CoherentInv'
    BY <1>4, PurgeUserCoherent
  <1> QED BY <1>1, <1>2, <1>3, <1>4 DEF LWrite

----------------------------------------------------------------------------
(* The invariant and what it says.                                         *)

\* Under light load a step keeps the cache coherent and clean pages exact.
LEMMA NextCoherent ==
    ASSUME LIInv, Serial, ~Failures, [LNext]_<<vars, lvars>> PROVE CoherentInv' /\ ExactInv'
  <1>1. CASE LWrite
    BY <1>1, LWriteCoherent, LWriteBase
  <1>2. CASE List
    BY <1>2, ListCoherent, ListBase
  <1>3. CASE Read /\ UNCHANGED lvars
    <2>1. UNCHANGED <<db, entity>>
      BY <1>3 DEF Read, StartRead, Lookup, Singleflight, Query, Return, EndRead, cache
    <2>2. \A a \in Albums \ strays : EntityFresh(a) => EntityFresh(a)'
      BY <2>1 DEF EntityFresh
    <2> QED BY <1>3, <2>1, <2>2, ReadCoherent, OtherExact
  <1>4. ASSUME NEW w \in Writers, UnlinkOldToken(w), UNCHANGED lvars
        PROVE  CoherentInv' /\ ExactInv'
    <2>1. UNCHANGED <<db, entity>>
      BY <1>4 DEF UnlinkOldToken, Run, cache
    <2>2. \A a \in Albums \ strays : EntityFresh(a) => EntityFresh(a)'
      BY <2>1 DEF EntityFresh
    <2> QED BY <1>4, <2>1, <2>2, UnlinkOldTokenCoherent, OtherExact
  <1>5. ASSUME NEW g \in Goroutines, Background(g), UNCHANGED lvars
        PROVE  CoherentInv' /\ ExactInv'
    BY <1>5, BackgroundCoherent, OtherExact DEF Background
  <1>6. CASE UNCHANGED <<vars, lvars>>
    <2>1. UNCHANGED <<db, entity, cache, tokenreq, strays>> /\ Pending' = Pending
      BY <1>6 DEF vars, lvars, cache, Pending, Range
    <2>2. \A a \in Albums \ strays : EntityFresh(a) => EntityFresh(a)'
      BY <2>1 DEF EntityFresh
    <2>3. CoherentInv'
      BY <2>1, CoherentGrows DEF LIInv
    <2> QED BY <1>6, <2>1, <2>2, <2>3, OtherExact
  <1> QED BY <1>1, <1>2, <1>3, <1>4, <1>5, <1>6 DEF LNext

\* The invariant holds when the process starts.
LEMMA LInitInv == ASSUME LInit PROVE LIInv
  <1>1. IInv
    BY InitInv DEF LInit
  <1>2. \A l \in Listers : lists[l] = NoList
    BY DEF LInit
  <1>3. LTypeOK
    BY <1>1, NoListIs DEF LInit, LTypeOK, IInv, Sound
  <1>4. WalkInv /\ ExactInv
    BY <1>2, NoListIs DEF WalkInv, ExactInv, Sound
  <1>5. CoherentInv
    <2>1. \A c : c \notin Pending
      BY RangeOfNothing DEF LInit, Init, Pending
    <2> QED BY <2>1 DEF LInit, Init, CoherentInv, EntityFresh, MapperFresh, LinkFresh
  <1> QED BY <1>1, <1>3, <1>4, <1>5 DEF LIInv

\* The inductive invariant of AlbumLists.
THEOREM ListInvariance == LSpec => []LIInv
  <1>1. LInit => LIInv
    BY LInitInv
  <1>2. LIInv /\ [LNext]_<<vars, lvars>> => LIInv'
    BY NextBase, NextCoherent DEF LIInv, Base
  <1> QED BY <1>1, <1>2, PTL DEF LSpec

\* Every variable keeps its type.
THEOREM ListTypeCorrectness == LSpec => []LTypeOK
  <1>1. LIInv => LTypeOK
    BY DEF LIInv
  <1> QED BY <1>1, ListInvariance, PTL

\* Whatever is written between two pages, under any load: a walk never goes back
\* (AvailableList, OwnedList and TrashedList page by the cursor of the last row).
THEOREM WalksDescend == LSpec => []PagesDescend
  <1>1. LIInv => PagesDescend
    BY DEF LIInv, WalkInv, OrderInv, Descends, PagesDescend
  <1> QED BY <1>1, ListInvariance, PTL

\* And it misses none of the albums that nobody wrote.
THEOREM WalksAreComplete == LSpec => []NoAlbumSkipped
  <1>1. LIInv => NoAlbumSkipped
    BY DEF LIInv, WalkInv, SteadyInv, Paging, Ids, NoAlbumSkipped
  <1> QED BY <1>1, ListInvariance, PTL

\* The requests for single albums keep their authorisation beside the lists.
THEOREM ListAuthorisation == LSpec => []AnswersAreAuthorised
  <1>1. LIInv => AnswersAreAuthorised
    BY DEF LIInv, IInv
  <1> QED BY <1>1, ListInvariance, PTL

\* When requests for single albums do not overlap and Redis answers, each write
\* leaves a coherent cache behind, whatever the lists refill.
THEOREM LightLoadCoherence == ASSUME Serial, ~Failures PROVE LSpec => []CacheIsCoherent
  <1>1. LIInv => CacheIsCoherent
    <2> SUFFICES ASSUME LIInv, Quiet
                 PROVE  /\ \A a \in Albums \ strays :
                              entity[a] # None => entity[a] = db[a] /\ db[a].status = "present"
                        /\ \A k \in Users \X Slugs : mapper[k] \notin strays \cup {None} =>
                              /\ Owner[mapper[k]] = k[1] /\ db[mapper[k]].slug = k[2]
                              /\ db[mapper[k]].status = "present"
                        /\ \A l \in Links : linkmap[l] \notin strays \cup {None} => db[linkmap[l]].link = l
      BY DEF CacheIsCoherent, CoherentExcept
    <2> QED BY QuietIsFresh DEF EntityFresh, MapperFresh, LinkFresh
  <1> QED BY <1>1, ListInvariance, PTL

\* What a clean page shows and what it leaves out.
LEMMA CleanPage ==
    ASSUME LIInv, Serial, ~Failures, NEW l \in Listers, NEW q, q = lists[l], q.pc = "done", q.clean,
           NEW opens, \A a : a \in opens <=>
              /\ a \in Albums /\ Owner[a] = q.owner
              /\ IF q.kind = "trashed" THEN db[a].status = "trashed"
                 ELSE db[a].status = "present"
                      /\ Permits(a, db[a], <<"slug", q.owner, db[a].slug>>, q.viewer)
    PROVE  /\ \A a \in Albums : q.found[a] # None =>
                 a \in opens /\ (q.found[a] = db[a] \/ a \in strays)
           /\ \A a \in opens : q.found[a] = None =>
                 \/ q.cursor # None /\ ~Precedes(q.cursor, Position(a, q))
                 \/ /\ q.next # None
                    /\ \A b \in Albums : q.found[b] # None => Precedes(Position(b, q), Position(a, q))
  <1>1. Sound(q) /\ PageInv(q)
    BY EveryWalk DEF LIInv, ExactInv, ExactWalk, Paging
  <1>2. /\ q.kind \in {"available", "owned", "trashed"}
        /\ q.kind = "available" <=> q.owner # q.viewer
    BY <1>1 DEF Sound, KindInv
  <1>3. \A a \in Albums : a \in opens <=> InList(a, q)
    BY <1>2 DEF InList, Permits, CanAccess
  <1>4. ASSUME NEW a \in Albums, q.found[a] # None
        PROVE  a \in opens /\ (q.found[a] = db[a] \/ a \in strays)
    BY <1>1, <1>3, <1>4 DEF PageInv, Ids
  <1>5. ASSUME NEW a \in opens, q.found[a] = None
        PROVE  \/ q.cursor # None /\ ~Precedes(q.cursor, Position(a, q))
               \/ /\ q.next # None
                  /\ \A b \in Albums : q.found[b] # None => Precedes(Position(b, q), Position(a, q))
    <2>1. a \in Albums /\ InList(a, q) /\ a \notin Ids(q.rows)
      BY <1>1, <1>3, <1>5 DEF PageInv
    <2>2. Position(a, q) \in Places /\ q.cursor \in Places \cup {None} /\ q.next \in Places \cup {None}
      BY <1>1, <2>1, PositionType DEF Sound, Walk, LIInv
    <2>3. CASE ~Beyond(q.cursor, Position(a, q))
      <3>1. q.cursor # None
        BY <2>3 DEF Beyond
      <3> QED BY <2>2, <2>3, <3>1, BeyondIsAfter
    <2>4. CASE q.next # None /\ Beyond(q.next, Position(a, q))
      <3>1. Precedes(q.next, Position(a, q)) /\ q.next \in Places
        BY <2>2, <2>4, BeyondIsAfter
      <3>2. ASSUME NEW b \in Albums, q.found[b] # None PROVE Precedes(Position(b, q), Position(a, q))
        <4>1. PICK i \in DOMAIN q.rows : q.rows[i] = Position(b, q)
          BY <1>1, <3>2 DEF PageInv, Ids
        <4>2. Position(b, q) = q.next \/ Precedes(Position(b, q), q.next)
          BY <1>1, <2>4, <4>1 DEF Sound, OrderInv, UpTo
        <4>3. Position(b, q) \in Places
          BY PositionType DEF LIInv
        <4> QED BY <2>2, <3>1, <4>2, <4>3, PlacesInOrder
      <3> QED BY <2>4, <3>2
    <2> QED BY <1>1, <2>1, <2>3, <2>4 DEF PageInv
  <1> QED BY <1>4, <1>5

\* And a request for a page that no write overlaps gets the list as it is.
THEOREM LightLoadPages == ASSUME Serial, ~Failures PROVE LSpec => []PagesAreExact
  <1>1. LIInv => PagesAreExact
    <2> SUFFICES ASSUME LIInv, NEW l \in Listers, lists[l].pc = "done", lists[l].clean
                 PROVE  LET q == lists[l]
                            onPage == {a \in Albums : q.found[a] # None}
                            opens == {a \in Albums :
                              /\ Owner[a] = q.owner
                              /\ IF q.kind = "trashed" THEN db[a].status = "trashed"
                                 ELSE db[a].status = "present"
                                      /\ Permits(a, db[a], <<"slug", q.owner, db[a].slug>>, q.viewer)} IN
                        /\ onPage \subseteq opens
                        /\ \A a \in onPage : q.found[a] = db[a] \/ a \in strays
                        /\ \A a \in opens \ onPage :
                              \/ q.cursor # None /\ ~Precedes(q.cursor, Position(a, q))
                              \/ q.next # None
                                 /\ \A b \in onPage : Precedes(Position(b, q), Position(a, q))
      BY DEF PagesAreExact
    <2> DEFINE q == lists[l]
               opens == {a \in Albums :
                              /\ Owner[a] = q.owner
                              /\ IF q.kind = "trashed" THEN db[a].status = "trashed"
                                 ELSE db[a].status = "present"
                                      /\ Permits(a, db[a], <<"slug", q.owner, db[a].slug>>, q.viewer)}
    <2>1. /\ \A a \in Albums : q.found[a] # None =>
                 a \in opens /\ (q.found[a] = db[a] \/ a \in strays)
          /\ \A a \in opens : q.found[a] = None =>
                 \/ q.cursor # None /\ ~Precedes(q.cursor, Position(a, q))
                 \/ /\ q.next # None
                    /\ \A b \in Albums : q.found[b] # None => Precedes(Position(b, q), Position(a, q))
      BY CleanPage
    <2> QED BY <2>1
  <1> QED BY <1>1, ListInvariance, PTL

=============================================================================
