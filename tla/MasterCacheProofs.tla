------------------------- MODULE MasterCacheProofs -------------------------
(***************************************************************************)
(* What holds of the real-time cache for any tables, rows, numbers of      *)
(* changes, breaks, initialisations and failures.                          *)
(*                                                                         *)
(* The messages on the way are a program that the client will run: Step is *)
(* what one message does to its state, and Leads(b, q, e) says that the    *)
(* messages q take it from b to e, with all tables collected at every      *)
(* result.  A step of the client removes the first message of q and keeps  *)
(* e; a step of the server appends messages and moves e.  So the invariant *)
(* speaks of e only: what it has collected there is what the server has    *)
(* read so far (CollectsTables), and what it shows there is the database   *)
(* (Fresh).  That SendRows, cells and BLOBs make the client put the same   *)
(* rows together is RowsLead; that events do to the rows what the database *)
(* did is InsertMirrors, UpdateMirrors and DeleteMirrors.                  *)
(***************************************************************************)
EXTENDS MasterCache, SequenceTheorems, FiniteSetTheorems, TLAPS

(* Induction up to n, as a statement about the set of the numbers for      *)
(* which something does not hold: it is empty if it has no least element.  *)
LEMMA NoneBad ==
    ASSUME NEW n \in Nat, NEW B \in SUBSET (1 .. n), \A i \in B : i - 1 \in B
    PROVE  B = {}
<1>1. SUFFICES ASSUME NEW b \in B
               PROVE  FALSE
    OBVIOUS
<1> DEFINE T == {i \in B : i <= b}
           f == [i \in T |-> i - 1]
<1>2. /\ T \in SUBSET (1 .. n) /\ b \in T /\ b \in 1 .. n
      /\ \A i \in T : i \in 1 .. n /\ i <= b /\ i - 1 \in T
  <2>1. b \in 1 .. n /\ b <= b
    OBVIOUS
  <2>2. \A i \in T : i \in 1 .. n /\ i <= b /\ i - 1 \in B /\ i - 1 <= b
    BY <2>1
  <2> QED
    BY <2>1, <2>2
<1>3. f \in [T -> T] /\ \A i \in T : f[i] = i - 1
    BY <1>2
<1> HIDE DEF f, T
<1>4. f \in Injection(T, T)
    BY <1>2, <1>3 DEF Injection, IsInjective
<1>5. IsFiniteSet(1 .. n)
    BY FS_Interval
<1>6. IsFiniteSet(T)
    BY <1>2, <1>5, FS_Subset
<1>7. f \in Surjection(T, T)
    BY <1>4, <1>6, FS_Injection
<1>8. PICK i \in T : f[i] = b
    BY <1>2, <1>7 DEF Surjection
<1> QED
    BY <1>2, <1>3, <1>8

(* A function can be defined by recursion up to n.                         *)
Recursive(g, b, F, n) == g[0] = b /\ \A i \in 1 .. n : g[i] = F[g[i - 1]][i]

LEMMA Recursion ==
    ASSUME NEW n \in Nat, NEW V, NEW b \in V, NEW F \in [V -> [1 .. n -> V]]
    PROVE  \E g \in [0 .. n -> V] : Recursive(g, b, F, n)
<1> DEFINE Good(k) == \E g \in [0 .. k -> V] :
                          g[0] = b /\ \A i \in 1 .. k : g[i] = F[g[i - 1]][i]
           B == {k \in 1 .. n : ~Good(k)}
<1>1. Good(0)
  <2> DEFINE g == [i \in 0 .. 0 |-> b]
  <2>1. g \in [0 .. 0 -> V] /\ g[0] = b /\ \A i \in 1 .. 0 : FALSE
    OBVIOUS
  <2> HIDE DEF g
  <2> QED
    BY <2>1
<1>2. ASSUME NEW k \in 1 .. n, Good(k - 1)
      PROVE  Good(k)
  <2>1. PICK g \in [0 .. k - 1 -> V] :
            g[0] = b /\ \A i \in 1 .. k - 1 : g[i] = F[g[i - 1]][i]
    BY <1>2
  <2>2. g[k - 1] \in V /\ F[g[k - 1]] \in [1 .. n -> V]
    BY <2>1
  <2>3. F[g[k - 1]][k] \in V
    BY <2>2
  <2> DEFINE h == [i \in 0 .. k |-> IF i = k THEN F[g[k - 1]][k] ELSE g[i]]
  <2>4. h \in [0 .. k -> V] /\ h[0] = b
    BY <2>1, <2>3
  <2>5. ASSUME NEW i \in 1 .. k
        PROVE  h[i] = F[h[i - 1]][i]
    <3>1. CASE i = k
        BY <3>1
    <3>2. CASE i # k
      <4>1. h[i] = g[i] /\ h[i - 1] = g[i - 1] /\ i \in 1 .. k - 1
        BY <3>2
      <4> HIDE DEF h
      <4> QED
        BY <2>1, <4>1
    <3> QED
        BY <3>1, <3>2
  <2> QED
    BY <2>4, <2>5
<1> HIDE DEF Good
<1>3. \A k \in B : k - 1 \in B
  <2> SUFFICES ASSUME NEW k \in B
               PROVE  k - 1 \in B
    OBVIOUS
  <2>1. ~Good(k - 1) /\ k \in 1 .. n
    BY <1>2
  <2>2. k - 1 # 0
    BY <1>1, <2>1
  <2> QED
    BY <2>1, <2>2
<1>4. B \in SUBSET (1 .. n)
    OBVIOUS
<1>5. B = {}
  <2> HIDE DEF B
  <2> QED
    BY <1>3, <1>4, NoneBad
<1>6. Good(n)
    BY <1>1, <1>5
<1> QED
    BY <1>6 DEF Good, Recursive

LEMMA FunctionIsSeq ==
    ASSUME NEW S, NEW n \in Nat, NEW f \in [1 .. n -> S]
    PROVE  f \in Seq(S) /\ Len(f) = n
<1> DEFINE T == UNION {[1 .. k -> S] : k \in Nat}
<1>1. f \in T
    OBVIOUS
<1>2. T = Seq(S)
    BY SeqDef, Zenon
<1> HIDE DEF T
<1>3. f \in Seq(S)
    BY <1>1, <1>2
<1>4. Len(f) \in Nat /\ DOMAIN f = 1 .. Len(f)
    BY <1>3, LenProperties
<1> QED
    BY <1>3, <1>4

LEMMA ConcatEmpty ==
    ASSUME NEW S, NEW q \in Seq(S)
    PROVE  <<>> \o q = q /\ q \o <<>> = q
BY ConcatEmptySeq

LEMMA SeqSubset ==
    ASSUME NEW S, NEW T, S \subseteq T, NEW q \in Seq(S)
    PROVE  q \in Seq(T)
<1>1. Len(q) \in Nat /\ q \in [1 .. Len(q) -> S]
    BY LenProperties
<1>2. q \in [1 .. Len(q) -> T]
    BY <1>1
<1> QED
    BY <1>1, <1>2, FunctionIsSeq

LEMMA OneIsSeq ==
    ASSUME NEW S, NEW x \in S
    PROVE  <<x>> \in Seq(S)
OBVIOUS

----------------------------------------------------------------------------
(* The client: what one message that it takes does to it.                  *)
Cell  == Key \union Value
Cells == Seq(Cell)
Pair  == Cell \X Cell
NamedTable == [name : Table, rows : Seq(Pair)]
Sets  == Seq(NamedTable)

Events == {"insert", "update", "delete"}
MsgIds == {"opened", "not opened", "idRowsetHeader", "idTransferring",
           "idStartBLOB", "idEndBLOB", "idEndRows", "result", "failure",
           "initialise"} \union Events
Msgs == {m \in [id : MsgIds, name : Table, cells : Cells] :
             m.id = "update" => Len(m.cells) = 4}

State(c, m, t, v, b, f) ==
    [cache |-> c, mCache |-> m, meta |-> t, vData |-> v, blob |-> b, bad |-> f]
States == [cache : Sets, mCache : Sets, meta : Table, vData : Cells,
           blob : Cells, bad : {0, 1}]
St == State(cache, mCache, meta, vData, blob, IF failed THEN 1 ELSE 0)

Published(ds, m) ==
    CASE m.id = "insert" -> AddRows(ds, m.name, m.cells)
      [] m.id = "update" -> UpdateARow(ds, m.name, m.cells)
      [] OTHER -> DeleteARow(ds, m.name, m.cells[1])

Step(s, m) ==
    CASE m.id = "opened" -> State(s.cache, <<>>, s.meta, s.vData, s.blob, s.bad)
      [] m.id = "idRowsetHeader" ->
           State(s.cache, AddEmptyRowset(s.mCache, m.name), m.name, <<>>, <<>>, s.bad)
      [] m.id = "idTransferring" ->
           State(s.cache, s.mCache, s.meta, s.vData \o m.cells, s.blob, s.bad)
      [] m.id = "idStartBLOB" ->
           State(s.cache, s.mCache, s.meta, s.vData, m.cells, s.bad)
      [] m.id = "idEndBLOB" ->
           State(s.cache, s.mCache, s.meta, s.vData \o s.blob, <<>>, s.bad)
      [] m.id = "idEndRows" ->
           State(s.cache, AddRows(s.mCache, s.meta, s.vData \o m.cells), s.meta,
                 <<>>, s.blob, s.bad)
      [] m.id = "result" -> State(s.mCache, s.cache, s.meta, s.vData, s.blob, 0)
      [] m.id = "failure" -> State(s.cache, s.mCache, s.meta, s.vData, s.blob, 1)
      [] m.id = "initialise" -> State(s.cache, s.mCache, s.meta, s.vData, s.blob, 0)
      [] m.id \in Events ->
           State(Published(s.cache, m), s.mCache, s.meta, s.vData, s.blob, s.bad)
      [] OTHER -> s

Names(ds) == [i \in 1 .. Len(ds) |-> ds[i].name]

(* A result is taken when all the tables have come.                        *)
Fit(s, m) == m.id = "result" => Names(s.mCache) = Tables

LEMMA TablesKnown ==
    /\ Tables \in Seq(Table) /\ Len(Tables) \in Nat \ {0} /\ Tables[1] \in Table
    /\ \A i \in 1 .. Len(Tables) : Tables[i] \in Table
    /\ \A i, j \in 1 .. Len(Tables) : Tables[i] = Tables[j] => i = j
<1>1. /\ Tables \in Seq(Table) /\ Tables # <<>>
      /\ \A i, j \in DOMAIN Tables : Tables[i] = Tables[j] => i = j
    BY ConstantsAssumption
<1>2. Len(Tables) \in Nat /\ DOMAIN Tables = 1 .. Len(Tables)
    BY <1>1, LenProperties
<1>3. Len(Tables) # 0
    BY <1>1, EmptySeq
<1>4. \A i \in 1 .. Len(Tables) : Tables[i] \in Table
    BY <1>1, ElementOfSeq
<1> QED
    BY <1>1, <1>2, <1>3, <1>4

LEMMA SetsOf ==
    ASSUME NEW ds \in Sets
    PROVE  /\ Len(ds) \in Nat /\ DOMAIN ds = 1 .. Len(ds)
           /\ \A i \in 1 .. Len(ds) : /\ ds[i] = [name |-> ds[i].name, rows |-> ds[i].rows]
                                      /\ ds[i].name \in Table /\ ds[i].rows \in Seq(Pair)
<1>1. Len(ds) \in Nat /\ DOMAIN ds = 1 .. Len(ds)
    BY LenProperties DEF Sets
<1>2. \A i \in 1 .. Len(ds) : ds[i] \in NamedTable
    BY ElementOfSeq DEF Sets
<1> QED
    BY <1>1, <1>2 DEF NamedTable

(* The tables ds with others rows in the i-th one.                         *)
Put(ds, i, rows) == [k \in 1 .. Len(ds) |->
    IF k = i THEN [name |-> ds[k].name, rows |-> rows] ELSE ds[k]]

LEMMA PutType ==
    ASSUME NEW ds \in Sets, NEW i, NEW rows, i \in 1 .. Len(ds) => rows \in Seq(Pair)
    PROVE  /\ Put(ds, i, rows) \in Sets /\ Len(Put(ds, i, rows)) = Len(ds)
           /\ Names(Put(ds, i, rows)) = Names(ds)
           /\ i \in 1 .. Len(ds) => Put(ds, i, rows)[i].rows = rows
           /\ \A k \in 1 .. Len(ds) : k # i => Put(ds, i, rows)[k] = ds[k]
<1> DEFINE n == Len(ds)
           p == Put(ds, i, rows)
<1>1. /\ n \in Nat
      /\ \A k \in 1 .. n : /\ ds[k] = [name |-> ds[k].name, rows |-> ds[k].rows]
                           /\ ds[k].name \in Table /\ ds[k].rows \in Seq(Pair)
    BY SetsOf
<1>2. /\ DOMAIN p = 1 .. n
      /\ \A k \in 1 .. n : p[k] = IF k = i THEN [name |-> ds[k].name, rows |-> rows]
                                  ELSE ds[k]
      /\ p \in [1 .. n -> NamedTable]
  <2>1. ASSUME NEW k \in 1 .. n
        PROVE  (IF k = i THEN [name |-> ds[k].name, rows |-> rows] ELSE ds[k]) \in NamedTable
    <3>1. ds[k] \in NamedTable /\ ds[k].name \in Table
        BY <1>1, ElementOfSeq DEF Sets
    <3>2. CASE k = i
      <4>1. rows \in Seq(Pair)
        BY <3>2
      <4> QED
        BY <3>1, <3>2, <4>1 DEF NamedTable
    <3> QED
        BY <3>1, <3>2
  <2> QED
    BY <2>1 DEF Put
<1>3. p \in Sets /\ Len(p) = n
    BY <1>1, <1>2, FunctionIsSeq DEF Sets
<1> HIDE DEF p, n
<1>4. \A k \in 1 .. n : p[k].name = ds[k].name
    BY <1>1, <1>2
<1>5. Names(p) = Names(ds)
    BY <1>3, <1>4 DEF Names, n
<1>6. i \in 1 .. n => p[i].rows = rows
    BY <1>2
<1>7. \A k \in 1 .. n : k # i => p[k] = ds[k]
    BY <1>2
<1> QED
    BY <1>3, <1>5, <1>6, <1>7 DEF p, n

----------------------------------------------------------------------------
(* CDataSet.                                                               *)
LEMMA ExceptPut ==
    ASSUME NEW ds \in Sets, NEW i, NEW x
    PROVE  [ds EXCEPT ![i].rows = x] = Put(ds, i, x)
<1> DEFINE l == [ds EXCEPT ![i].rows = x]
           r == Put(ds, i, x)
<1>1. /\ DOMAIN ds = 1 .. Len(ds)
      /\ \A k \in 1 .. Len(ds) : ds[k] = [name |-> ds[k].name, rows |-> ds[k].rows]
    BY SetsOf
<1>2. DOMAIN l = 1 .. Len(ds) /\ DOMAIN r = 1 .. Len(ds)
    BY <1>1 DEF Put
<1>3. ASSUME NEW k \in 1 .. Len(ds)
      PROVE  l[k] = r[k]
  <2>1. CASE k = i
    <3> DEFINE d == ds[i]
               a == ds[i].name
    <3>1. l[k] = [d EXCEPT !.rows = x] /\ d = [name |-> a, rows |-> ds[i].rows]
        BY <1>1, <2>1
    <3>2. r[k] = [name |-> a, rows |-> x]
        BY <2>1 DEF Put
    <3> HIDE DEF l, r, a
    <3> QED
        BY <3>1, <3>2
  <2>2. CASE k # i
    BY <1>1, <2>2 DEF Put
  <2> QED
    BY <2>1, <2>2
<1>4. l = [k \in 1 .. Len(ds) |-> l[k]] /\ r = [k \in 1 .. Len(ds) |-> r[k]]
    BY <1>1, <1>2 DEF Put
<1> HIDE DEF l, r
<1>5. l = r
    BY <1>3, <1>4
<1> QED
    BY <1>5 DEF l, r

New(cells) == [n \in 1 .. Len(cells) \div 2 |-> <<cells[2 * n - 1], cells[2 * n]>>]

LEMMA NewType ==
    ASSUME NEW cells \in Cells
    PROVE  New(cells) \in Seq(Pair) /\ Len(New(cells)) = Len(cells) \div 2
<1> DEFINE n == Len(cells)
           k == n \div 2
<1>1. n \in Nat /\ k \in Nat
    BY LenProperties DEF Cells
<1>2. \A i \in 1 .. k : 2 * i - 1 \in 1 .. n /\ 2 * i \in 1 .. n
    BY <1>1
<1>3. \A j \in 1 .. n : cells[j] \in Cell
    BY ElementOfSeq DEF Cells
<1>4. New(cells) \in [1 .. k -> Pair]
    BY <1>2, <1>3 DEF New, Pair
<1> HIDE DEF k
<1>5. New(cells) \in Seq(Pair) /\ Len(New(cells)) = k
    BY <1>1, <1>4, FunctionIsSeq
<1> QED
    BY <1>5 DEF k

LEMMA AddRowsIs ==
    ASSUME NEW ds \in Sets, NEW name, NEW cells
    PROVE  AddRows(ds, name, cells) =
             IF TableOf(ds, name) = 0 \/ Len(cells) % 2 # 0 THEN ds
             ELSE Put(ds, TableOf(ds, name), ds[TableOf(ds, name)].rows \o New(cells))
<1> DEFINE i == TableOf(ds, name)
           x == ds[i].rows \o New(cells)
<1>1. AddRows(ds, name, cells) =
        IF i = 0 \/ Len(cells) % 2 # 0 THEN ds ELSE [ds EXCEPT ![i].rows = x]
    BY DEF AddRows, New
<1> HIDE DEF i, x
<1>2. [ds EXCEPT ![i].rows = x] = Put(ds, i, x)
    BY ExceptPut
<1>3. AddRows(ds, name, cells) =
        IF i = 0 \/ Len(cells) % 2 # 0 THEN ds ELSE Put(ds, i, x)
    BY <1>1, <1>2
<1> QED
    BY <1>3 DEF i, x

LEMMA AddRowsType ==
    ASSUME NEW ds \in Sets, NEW name, NEW cells \in Cells
    PROVE  /\ AddRows(ds, name, cells) \in Sets
           /\ Names(AddRows(ds, name, cells)) = Names(ds)
<1> DEFINE i == TableOf(ds, name)
           x == ds[i].rows \o New(cells)
<1>1. ASSUME i \in 1 .. Len(ds)
      PROVE  x \in Seq(Pair)
  <2>1. ds[i].rows \in Seq(Pair) /\ New(cells) \in Seq(Pair)
    BY <1>1, SetsOf, NewType
  <2> QED
    BY <2>1, ConcatProperties
<1>2. AddRows(ds, name, cells) = ds \/ AddRows(ds, name, cells) = Put(ds, i, x)
    BY AddRowsIs
<1> HIDE DEF i, x
<1>3. Put(ds, i, x) \in Sets /\ Names(Put(ds, i, x)) = Names(ds)
    BY <1>1, PutType
<1> QED
    BY <1>2, <1>3

(* The update of one row.                                                  *)
LEMMA UpdateIs ==
    ASSUME NEW ds \in Sets, NEW name, NEW pvt
    PROVE  LET r == FindARow(ds, name, pvt[1])
               i == TableOf(ds, name)
           IN  UpdateARow(ds, name, pvt) =
                 IF r = 0 THEN ds
                 ELSE Put(ds, i, [ds[i].rows EXCEPT ![r] = <<pvt[2], pvt[4]>>])
<1> DEFINE r == FindARow(ds, name, pvt[1])
           i == TableOf(ds, name)
           y == <<pvt[2], pvt[4]>>
           x == [ds[i].rows EXCEPT ![r] = y]
<1>1. UpdateARow(ds, name, pvt) = IF r = 0 THEN ds ELSE [ds EXCEPT ![i].rows[r] = y]
    BY DEF UpdateARow
<1> HIDE DEF i, r, y
<1>2. [ds EXCEPT ![i].rows[r] = y] = [ds EXCEPT ![i].rows = x]
    OBVIOUS
<1> HIDE DEF x
<1>3. [ds EXCEPT ![i].rows = x] = Put(ds, i, x)
    BY ExceptPut
<1>4. UpdateARow(ds, name, pvt) = IF r = 0 THEN ds ELSE Put(ds, i, x)
    BY <1>1, <1>2, <1>3
<1> QED
    BY <1>4 DEF x, i, r, y

LEMMA DeleteIs ==
    ASSUME NEW ds \in Sets, NEW name, NEW key
    PROVE  LET r == FindARow(ds, name, key)
               i == TableOf(ds, name)
           IN  DeleteARow(ds, name, key) =
                 IF r = 0 THEN ds ELSE Put(ds, i, RemoveAt(ds[i].rows, r))
<1> DEFINE r == FindARow(ds, name, key)
           i == TableOf(ds, name)
           x == RemoveAt(ds[i].rows, r)
<1>1. DeleteARow(ds, name, key) = IF r = 0 THEN ds ELSE [ds EXCEPT ![i].rows = x]
    BY DEF DeleteARow
<1> HIDE DEF i, r, x
<1>2. [ds EXCEPT ![i].rows = x] = Put(ds, i, x)
    BY ExceptPut
<1>3. DeleteARow(ds, name, key) = IF r = 0 THEN ds ELSE Put(ds, i, x)
    BY <1>1, <1>2
<1> QED
    BY <1>3 DEF x, i, r

(* The first element that is equal to one in a part, as SelectInSeq says.  *)
LEMMA LeastOf ==
    ASSUME NEW n \in Nat, NEW I \in SUBSET (1 .. n), I # {}
    PROVE  Min(I) \in I
<1> DEFINE B == {k \in 1 .. n : \E j \in 1 .. k : j \in I}
           Least(x) == x \in I /\ \A y \in I : x <= y
<1>1. ASSUME ~ \E x : Least(x)
      PROVE  FALSE
  <2>1. \A k \in B : k - 1 \in B
    <3> SUFFICES ASSUME NEW k \in B
                 PROVE  k - 1 \in B
        OBVIOUS
    <3>1. PICK j \in 1 .. k : j \in I
        OBVIOUS
    <3>2. PICK y \in I : ~(j <= y)
        BY <1>1, <3>1
    <3>3. y \in 1 .. n /\ y \in 1 .. k - 1 /\ k - 1 \in 1 .. n
        BY <3>1, <3>2
    <3> QED
        BY <3>3
  <2>2. B \in SUBSET (1 .. n)
    OBVIOUS
  <2>3. PICK z : z \in I
    OBVIOUS
  <2>4. z \in B
    BY <2>3
  <2> HIDE DEF B
  <2>5. B = {}
    BY <2>1, <2>2, NoneBad
  <2> QED
    BY <2>4, <2>5
<1>2. PICK x : Least(x)
    BY <1>1
<1>3. Least(CHOOSE y : Least(y))
    BY <1>2
<1>4. Min(I) = CHOOSE y \in I : \A z \in I : y <= z
    BY DEF Min
<1>5. \E y \in I : \A z \in I : y <= z
    BY <1>2
<1> QED
    BY <1>4, <1>5

LEMMA TableOfType ==
    ASSUME NEW ds \in Sets, NEW name
    PROVE  \/ /\ TableOf(ds, name) = 0
              /\ \A i \in 1 .. Len(ds) : ds[i].name # name
           \/ TableOf(ds, name) \in 1 .. Len(ds) /\ ds[TableOf(ds, name)].name = name
<1> DEFINE I == {i \in 1 .. Len(ds) : ds[i].name = name}
<1>1. TableOf(ds, name) = IF I # {} THEN Min(I) ELSE 0
    BY DEF TableOf, SelectInSeq
<1>2. Len(ds) \in Nat
    BY SetsOf
<1>3. I # {} => Min(I) \in I
  <2>1. I \in SUBSET (1 .. Len(ds))
    OBVIOUS
  <2> HIDE DEF I
  <2> QED
    BY <1>2, <2>1, LeastOf
<1> QED
    BY <1>1, <1>3

LEMMA FindARowType ==
    ASSUME NEW ds \in Sets, NEW name, NEW key
    PROVE  LET r == FindARow(ds, name, key)
               rows == ds[TableOf(ds, name)].rows
           IN  \/ r = 0 /\ (TableOf(ds, name) # 0 =>
                                \A i \in 1 .. Len(rows) : rows[i][1] # key)
               \/ /\ TableOf(ds, name) \in 1 .. Len(ds)
                  /\ r \in 1 .. Len(rows) /\ rows[r][1] = key
<1> DEFINE t == TableOf(ds, name)
           rows == ds[t].rows
           I == {i \in 1 .. Len(rows) : rows[i][1] = key}
<1>1. FindARow(ds, name, key) = IF t = 0 THEN 0 ELSE IF I # {} THEN Min(I) ELSE 0
    BY DEF FindARow, SelectInSeq
<1>2. t = 0 \/ t \in 1 .. Len(ds)
    BY TableOfType
<1>3. ASSUME t # 0, I # {}
      PROVE  Min(I) \in I
  <2>1. I \in SUBSET (1 .. Len(rows)) /\ Len(rows) \in Nat
    BY <1>2, <1>3, SetsOf, LenProperties
  <2> HIDE DEF I
  <2> QED
    BY <1>3, <2>1, LeastOf
<1> QED
    BY <1>1, <1>2, <1>3

LEMMA UpdateType ==
    ASSUME NEW ds \in Sets, NEW name, NEW pvt \in Cells, Len(pvt) = 4
    PROVE  /\ UpdateARow(ds, name, pvt) \in Sets
           /\ Names(UpdateARow(ds, name, pvt)) = Names(ds)
<1> DEFINE r == FindARow(ds, name, pvt[1])
           i == TableOf(ds, name)
           y == <<pvt[2], pvt[4]>>
           x == [ds[i].rows EXCEPT ![r] = y]
<1>1. y \in Pair
  <2>1. 2 \in 1 .. Len(pvt) /\ 4 \in 1 .. Len(pvt)
    OBVIOUS
  <2>2. pvt[2] \in Cell /\ pvt[4] \in Cell
    BY <2>1, ElementOfSeq DEF Cells
  <2> QED
    BY <2>2 DEF Pair
<1>2. CASE r = 0
    BY <1>2, UpdateIs
<1>3. CASE r # 0
  <2>1. i \in 1 .. Len(ds) /\ r \in 1 .. Len(ds[i].rows)
    BY <1>3, FindARowType
  <2>2. UpdateARow(ds, name, pvt) = Put(ds, i, x)
    BY <1>3, UpdateIs
  <2>3. ds[i].rows \in Seq(Pair)
    BY <2>1, SetsOf
  <2> HIDE DEF i, r, y
  <2>4. x \in Seq(Pair)
    BY <1>1, <2>1, <2>3, ExceptSeq
  <2> HIDE DEF x
  <2>5. Put(ds, i, x) \in Sets /\ Names(Put(ds, i, x)) = Names(ds)
    BY <2>4, PutType
  <2> QED
    BY <2>2, <2>5
<1> QED
    BY <1>2, <1>3

LEMMA Removed ==
    ASSUME NEW S, NEW s \in Seq(S), NEW r \in 1 .. Len(s)
    PROVE  /\ RemoveAt(s, r) \in Seq(S) /\ Len(RemoveAt(s, r)) = Len(s) - 1
           /\ \A k \in 1 .. Len(s) - 1 :
                 RemoveAt(s, r)[k] = IF k < r THEN s[k] ELSE s[k + 1]
<1> DEFINE n == Len(s)
           a == SubSeq(s, 1, r - 1)
           b == SubSeq(s, r + 1, n)
<1>1. n \in Nat /\ r \in 1 .. n
    BY LenProperties
<1>2. /\ a \in Seq(S) /\ Len(a) = r - 1 /\ \A k \in 1 .. r - 1 : a[k] = s[k]
  <2>1. \A k \in 1 .. r - 1 : k \in 1 .. n /\ s[k] \in S
    BY <1>1, ElementOfSeq
  <2> QED
    BY <1>1, <2>1, SubSeqProperties
<1>3. /\ b \in Seq(S) /\ Len(b) = n - r /\ \A k \in 1 .. n - r : b[k] = s[r + k]
  <2>1. \A k \in r + 1 .. n : k \in 1 .. n /\ s[k] \in S
    BY <1>1, ElementOfSeq
  <2>2. b \in Seq(S) /\ Len(b) = n - r /\ \A k \in 1 .. n - r : b[k] = s[(r + 1) + k - 1]
    BY <1>1, <2>1, SubSeqProperties
  <2>3. \A k \in 1 .. n - r : (r + 1) + k - 1 = r + k
    BY <1>1
  <2> QED
    BY <2>2, <2>3
<1>4. RemoveAt(s, r) = a \o b
    BY DEF RemoveAt
<1> HIDE DEF a, b, n
<1>5. /\ a \o b \in Seq(S) /\ Len(a \o b) = (r - 1) + (n - r)
      /\ \A k \in 1 .. (r - 1) + (n - r) :
            (a \o b)[k] = IF k <= r - 1 THEN a[k] ELSE b[k - (r - 1)]
  <2>1. /\ a \o b \in Seq(S) /\ Len(a \o b) = Len(a) + Len(b)
        /\ \A k \in 1 .. Len(a) + Len(b) :
              (a \o b)[k] = IF k <= Len(a) THEN a[k] ELSE b[k - Len(a)]
    BY <1>2, <1>3, ConcatProperties
  <2> QED
    BY <1>2, <1>3, <2>1
<1>6. (r - 1) + (n - r) = n - 1
    BY <1>1
<1>7. ASSUME NEW k \in 1 .. n - 1
      PROVE  (a \o b)[k] = IF k < r THEN s[k] ELSE s[k + 1]
  <2>1. CASE k < r
    <3>1. k \in 1 .. r - 1
        BY <1>1, <2>1
    <3> QED
        BY <1>2, <1>5, <1>6, <2>1, <3>1
  <2>2. CASE ~(k < r)
    <3> DEFINE j == k - (r - 1)
    <3>1. j \in 1 .. n - r /\ r + j = k + 1 /\ ~(k <= r - 1)
        BY <1>1, <2>2
    <3>2. (a \o b)[k] = b[j]
        BY <1>5, <1>6, <3>1
    <3> HIDE DEF j
    <3>3. b[j] = s[k + 1]
        BY <1>3, <3>1
    <3> QED
        BY <2>2, <3>2, <3>3
  <2> QED
    BY <2>1, <2>2
<1> QED
    BY <1>4, <1>5, <1>6, <1>7 DEF n

LEMMA DeleteType ==
    ASSUME NEW ds \in Sets, NEW name, NEW key
    PROVE  /\ DeleteARow(ds, name, key) \in Sets
           /\ Names(DeleteARow(ds, name, key)) = Names(ds)
<1> DEFINE r == FindARow(ds, name, key)
           i == TableOf(ds, name)
           x == RemoveAt(ds[i].rows, r)
<1>1. CASE r = 0
    BY <1>1, DeleteIs
<1>2. CASE r # 0
  <2>1. i \in 1 .. Len(ds) /\ r \in 1 .. Len(ds[i].rows)
    BY <1>2, FindARowType
  <2>2. x \in Seq(Pair)
    BY <2>1, SetsOf, Removed
  <2>3. DeleteARow(ds, name, key) = Put(ds, i, x)
    BY <1>2, DeleteIs
  <2> HIDE DEF i, x, r
  <2>4. Put(ds, i, x) \in Sets /\ Names(Put(ds, i, x)) = Names(ds)
    BY <2>2, PutType
  <2> QED
    BY <2>3, <2>4
<1> QED
    BY <1>1, <1>2

LEMMA PublishedType ==
    ASSUME NEW ds \in Sets, NEW m \in Msgs
    PROVE  Published(ds, m) \in Sets /\ Names(Published(ds, m)) = Names(ds)
<1>1. m.cells \in Cells /\ (m.id = "update" => Len(m.cells) = 4)
    BY DEF Msgs
<1>2. CASE m.id = "insert"
    BY <1>1, <1>2, AddRowsType DEF Published
<1>3. CASE m.id = "update"
    BY <1>1, <1>3, UpdateType DEF Published
<1>4. CASE m.id # "insert" /\ m.id # "update"
    BY <1>4, DeleteType DEF Published
<1> QED
    BY <1>2, <1>3, <1>4

LEMMA AddEmptyType ==
    ASSUME NEW ds \in Sets, NEW t \in Table
    PROVE  AddEmptyRowset(ds, t) \in Sets
<1> DEFINE x == [name |-> t, rows |-> <<>>]
<1>1. x \in NamedTable
  <2>1. <<>> \in Seq(Pair)
    BY EmptySeq
  <2> QED
    BY <2>1 DEF NamedTable
<1> HIDE DEF x
<1>2. Append(ds, x) \in Sets
    BY <1>1, AppendProperties DEF Sets
<1> QED
    BY <1>2 DEF x, AddEmptyRowset

LEMMA StateType ==
    ASSUME NEW c \in Sets, NEW m \in Sets, NEW t \in Table, NEW v \in Cells,
           NEW b \in Cells, NEW f \in {0, 1}
    PROVE  /\ State(c, m, t, v, b, f) \in States
           /\ State(c, m, t, v, b, f).cache = c /\ State(c, m, t, v, b, f).mCache = m
           /\ State(c, m, t, v, b, f).meta = t /\ State(c, m, t, v, b, f).vData = v
           /\ State(c, m, t, v, b, f).blob = b /\ State(c, m, t, v, b, f).bad = f
BY DEF State, States

LEMMA StatesOf ==
    ASSUME NEW s \in States
    PROVE  /\ s.cache \in Sets /\ s.mCache \in Sets /\ s.meta \in Table
           /\ s.vData \in Cells /\ s.blob \in Cells /\ s.bad \in {0, 1}
           /\ s = State(s.cache, s.mCache, s.meta, s.vData, s.blob, s.bad)
BY DEF State, States

LEMMA StepIs ==
    ASSUME NEW s, NEW m
    PROVE  /\ m.id = "opened" =>
                Step(s, m) = State(s.cache, <<>>, s.meta, s.vData, s.blob, s.bad)
           /\ m.id = "idRowsetHeader" =>
                Step(s, m) = State(s.cache, AddEmptyRowset(s.mCache, m.name), m.name,
                                   <<>>, <<>>, s.bad)
           /\ m.id = "idTransferring" =>
                Step(s, m) = State(s.cache, s.mCache, s.meta, s.vData \o m.cells,
                                   s.blob, s.bad)
           /\ m.id = "idStartBLOB" =>
                Step(s, m) = State(s.cache, s.mCache, s.meta, s.vData, m.cells, s.bad)
           /\ m.id = "idEndBLOB" =>
                Step(s, m) = State(s.cache, s.mCache, s.meta, s.vData \o s.blob, <<>>,
                                   s.bad)
           /\ m.id = "idEndRows" =>
                Step(s, m) = State(s.cache, AddRows(s.mCache, s.meta, s.vData \o m.cells),
                                   s.meta, <<>>, s.blob, s.bad)
           /\ m.id = "result" =>
                Step(s, m) = State(s.mCache, s.cache, s.meta, s.vData, s.blob, 0)
           /\ m.id = "failure" =>
                Step(s, m) = State(s.cache, s.mCache, s.meta, s.vData, s.blob, 1)
           /\ m.id = "initialise" =>
                Step(s, m) = State(s.cache, s.mCache, s.meta, s.vData, s.blob, 0)
           /\ m.id \in Events =>
                Step(s, m) = State(Published(s.cache, m), s.mCache, s.meta, s.vData,
                                   s.blob, s.bad)
           /\ m.id = "not opened" => Step(s, m) = s
BY DEF Step, Events

LEMMA StepType ==
    ASSUME NEW s \in States, NEW m \in Msgs
    PROVE  Step(s, m) \in States
<1> DEFINE v == s.vData \o m.cells
           w == s.vData \o s.blob
           e == <<>>
<1>1. /\ s.cache \in Sets /\ s.mCache \in Sets /\ s.meta \in Table
      /\ s.vData \in Cells /\ s.blob \in Cells /\ s.bad \in {0, 1}
    BY StatesOf
<1>2. m.cells \in Cells /\ m.name \in Table
    BY DEF Msgs
<1>3. e \in Cells /\ e \in Sets /\ 0 \in {0, 1} /\ 1 \in {0, 1}
    BY EmptySeq DEF Cells, Sets
<1>4. v \in Cells /\ w \in Cells
    BY <1>1, <1>2, ConcatProperties DEF Cells
<1>5. CASE m.id = "opened"
  <2>1. Step(s, m) = State(s.cache, e, s.meta, s.vData, s.blob, s.bad)
    BY <1>5, StepIs
  <2> HIDE DEF e
  <2> QED
    BY <1>1, <1>3, <2>1 DEF State, States
<1>6. CASE m.id = "idRowsetHeader"
  <2>1. Step(s, m) = State(s.cache, AddEmptyRowset(s.mCache, m.name), m.name, e, e,
                           s.bad)
    BY <1>6, StepIs
  <2> HIDE DEF e
  <2>2. AddEmptyRowset(s.mCache, m.name) \in Sets
    BY <1>1, <1>2, AddEmptyType
  <2> QED
    BY <1>1, <1>2, <1>3, <2>1, <2>2 DEF State, States
<1>7. CASE m.id = "idTransferring"
  <2>1. Step(s, m) = State(s.cache, s.mCache, s.meta, v, s.blob, s.bad)
    BY <1>7, StepIs
  <2> HIDE DEF v
  <2> QED
    BY <1>1, <1>4, <2>1 DEF State, States
<1>8. CASE m.id = "idStartBLOB"
  <2>1. Step(s, m) = State(s.cache, s.mCache, s.meta, s.vData, m.cells, s.bad)
    BY <1>8, StepIs
  <2> QED
    BY <1>1, <1>2, <2>1 DEF State, States
<1>9. CASE m.id = "idEndBLOB"
  <2>1. Step(s, m) = State(s.cache, s.mCache, s.meta, w, e, s.bad)
    BY <1>9, StepIs
  <2> HIDE DEF w, e
  <2> QED
    BY <1>1, <1>3, <1>4, <2>1 DEF State, States
<1>10. CASE m.id = "idEndRows"
  <2>1. Step(s, m) = State(s.cache, AddRows(s.mCache, s.meta, v), s.meta, e, s.blob,
                           s.bad)
    BY <1>10, StepIs
  <2> HIDE DEF v, e
  <2>2. AddRows(s.mCache, s.meta, v) \in Sets
    BY <1>1, <1>4, AddRowsType
  <2> QED
    BY <1>1, <1>3, <2>1, <2>2 DEF State, States
<1>11. CASE m.id \in {"result", "failure", "initialise"}
  <2>1. \/ \E f \in {0, 1} :
              Step(s, m) = State(s.cache, s.mCache, s.meta, s.vData, s.blob, f)
        \/ Step(s, m) = State(s.mCache, s.cache, s.meta, s.vData, s.blob, 0)
    BY <1>3, <1>11, StepIs
  <2> QED
    BY <1>1, <1>3, <2>1 DEF State, States
<1>12. CASE m.id \in Events
  <2>1. Published(s.cache, m) \in Sets
    BY <1>1, PublishedType
  <2>2. Step(s, m) = State(Published(s.cache, m), s.mCache, s.meta, s.vData, s.blob,
                           s.bad)
    BY <1>12, StepIs
  <2> QED
    BY <1>1, <1>12, <2>1, <2>2 DEF State, States
<1>13. CASE m.id = "not opened"
    BY <1>13, StepIs
<1> QED
    BY <1>5, <1>6, <1>7, <1>8, <1>9, <1>10, <1>11, <1>12, <1>13 DEF Msgs, MsgIds

----------------------------------------------------------------------------
(* a is the client before and after each message of q.                     *)
Chain(a, q) ==
    /\ a \in [0 .. Len(q) -> States]
    /\ \A i \in 1 .. Len(q) : a[i] = Step(a[i - 1], q[i]) /\ Fit(a[i - 1], q[i])

(* The messages of q lead from b to e.                                     *)
Leads(b, q, e) == \E a : Chain(a, q) /\ a[0] = b /\ a[Len(q)] = e

(* Leading: none, one, one sequence after the other, one less in front.    *)
LEMMA LeadsNone ==
    ASSUME NEW b \in States
    PROVE  Leads(b, <<>>, b)
<1> DEFINE a == [i \in 0 .. 0 |-> b]
<1>1. a \in [0 .. 0 -> States] /\ a[0] = b
    OBVIOUS
<1> HIDE DEF a
<1>2. Len(<<>>) = 0 /\ \A i \in 1 .. 0 : FALSE
    BY EmptySeq
<1>3. Chain(a, <<>>)
    BY <1>1, <1>2 DEF Chain
<1> QED
    BY <1>1, <1>2, <1>3 DEF Leads

LEMMA LeadsOne ==
    ASSUME NEW b \in States, NEW m \in Msgs, Fit(b, m)
    PROVE  Leads(b, <<m>>, Step(b, m))
<1> DEFINE f == Step(b, m)
           a == [i \in 0 .. 1 |-> IF i = 0 THEN b ELSE f]
           q == <<m>>
<1>1. f \in States
    BY StepType
<1>2. Len(q) = 1 /\ q[1] = m
    OBVIOUS
<1> HIDE DEF q, f
<1>3. a \in [0 .. 1 -> States] /\ a[0] = b /\ a[1] = f
    BY <1>1
<1> HIDE DEF a
<1>4. \A i \in 1 .. 1 : i = 1 /\ i - 1 = 0
    OBVIOUS
<1>5. Chain(a, q)
    BY <1>2, <1>3, <1>4 DEF Chain, f
<1>6. Leads(b, q, f)
    BY <1>2, <1>3, <1>5 DEF Leads
<1> QED
    BY <1>6 DEF q, f

LEMMA LeadsConcat ==
    ASSUME NEW q \in Seq(Msgs), NEW r \in Seq(Msgs), NEW b, NEW c, NEW e,
           Leads(b, q, c), Leads(c, r, e)
    PROVE  Leads(b, q \o r, e)
<1> DEFINE n == Len(q)
           k == Len(r)
           s == q \o r
<1>1. n \in Nat /\ k \in Nat
    BY LenProperties
<1>2. /\ Len(s) = n + k
      /\ \A i \in 1 .. n + k : s[i] = IF i <= n THEN q[i] ELSE r[i - n]
    BY ConcatProperties
<1>3. PICK a : Chain(a, q) /\ a[0] = b /\ a[n] = c
    BY DEF Leads
<1>4. PICK g : Chain(g, r) /\ g[0] = c /\ g[k] = e
    BY DEF Leads
<1> DEFINE d == [i \in 0 .. n + k |-> IF i <= n THEN a[i] ELSE g[i - n]]
<1>5. /\ a \in [0 .. n -> States]
      /\ \A i \in 1 .. n : a[i] = Step(a[i - 1], q[i]) /\ Fit(a[i - 1], q[i])
      /\ g \in [0 .. k -> States]
      /\ \A i \in 1 .. k : g[i] = Step(g[i - 1], r[i]) /\ Fit(g[i - 1], r[i])
      /\ g[0] = a[n]
    BY <1>3, <1>4 DEF Chain
<1> HIDE DEF n, k, s
<1>6. /\ d \in [0 .. n + k -> States]
      /\ \A i \in 0 .. n : d[i] = a[i]
      /\ \A i \in 0 .. k : d[n + i] = g[i]
    BY <1>1, <1>5
<1> HIDE DEF d
<1>7. ASSUME NEW i \in 1 .. n + k
      PROVE  d[i] = Step(d[i - 1], s[i]) /\ Fit(d[i - 1], s[i])
  <2>1. CASE i <= n
    <3>1. i \in 1 .. n /\ d[i] = a[i] /\ d[i - 1] = a[i - 1] /\ s[i] = q[i]
        BY <1>1, <1>2, <1>6, <2>1
    <3> QED
        BY <1>5, <3>1
  <2>2. CASE i > n
    <3> DEFINE j == i - n
    <3>1. j \in 1 .. k /\ j - 1 \in 0 .. k /\ i = n + j /\ i - 1 = n + (j - 1)
        BY <1>1, <2>2
    <3>2. s[i] = r[j]
        BY <1>1, <1>2, <2>2
    <3> HIDE DEF j
    <3>3. d[i] = g[j] /\ d[i - 1] = g[j - 1]
        BY <1>6, <3>1
    <3> QED
        BY <1>5, <3>1, <3>2, <3>3
  <2> QED
    BY <1>1, <2>1, <2>2
<1>8. Chain(d, s)
    BY <1>2, <1>6, <1>7 DEF Chain
<1>9. d[0] = b /\ d[n + k] = e
    BY <1>1, <1>3, <1>4, <1>6
<1>10. Leads(b, s, e)
    BY <1>2, <1>8, <1>9 DEF Leads
<1> QED
    BY <1>10 DEF s

LEMMA LeadsAppend ==
    ASSUME NEW q \in Seq(Msgs), NEW m \in Msgs, NEW b, NEW c \in States,
           Leads(b, q, c), Fit(c, m)
    PROVE  Leads(b, Append(q, m), Step(c, m))
<1> DEFINE r == <<m>>
<1>1. r \in Seq(Msgs) /\ Append(q, m) = q \o r
    BY OneIsSeq, AppendIsConcat
<1>2. Leads(c, r, Step(c, m))
    BY LeadsOne
<1> HIDE DEF r
<1> QED
    BY <1>1, <1>2, LeadsConcat

LEMMA LeadsTail ==
    ASSUME NEW q \in Seq(Msgs), q # <<>>, NEW b, NEW e, Leads(b, q, e)
    PROVE  Leads(Step(b, Head(q)), Tail(q), e) /\ Fit(b, Head(q))
<1> DEFINE n == Len(q)
           t == Tail(q)
<1>1. PICK a : Chain(a, q) /\ a[0] = b /\ a[n] = e
    BY DEF Leads
<1> DEFINE d == [i \in 0 .. n - 1 |-> a[i + 1]]
<1>2. /\ n \in Nat \ {0} /\ a \in [0 .. n -> States]
      /\ \A i \in 1 .. n : a[i] = Step(a[i - 1], q[i]) /\ Fit(a[i - 1], q[i])
    BY <1>1, EmptySeq DEF Chain
<1>3. /\ Len(t) = n - 1 /\ Head(q) = q[1] /\ \A i \in 1 .. n - 1 : t[i] = q[i + 1]
    BY HeadTailProperties
<1> HIDE DEF n, t
<1>4. d \in [0 .. n - 1 -> States] /\ \A i \in 0 .. n - 1 : d[i] = a[i + 1]
    BY <1>2
<1> HIDE DEF d
<1>5. ASSUME NEW i \in 1 .. n - 1
      PROVE  d[i] = Step(d[i - 1], t[i]) /\ Fit(d[i - 1], t[i])
  <2> DEFINE l == i + 1
  <2>1. l \in 1 .. n /\ l - 1 = i
    BY <1>2
  <2>2. d[i] = a[l] /\ d[i - 1] = a[i] /\ t[i] = q[l]
    BY <1>2, <1>3, <1>4
  <2> HIDE DEF l
  <2> QED
    BY <1>2, <2>1, <2>2
<1>6. d[0] = Step(b, q[1]) /\ Fit(b, q[1]) /\ d[n - 1] = e
  <2>1. 1 \in 1 .. n /\ 1 - 1 = 0 /\ 0 \in 0 .. n - 1 /\ n - 1 \in 0 .. n - 1
    BY <1>2
  <2>2. a[1] = Step(a[0], q[1]) /\ Fit(a[0], q[1])
    BY <1>2, <2>1
  <2>3. d[0] = a[1] /\ d[n - 1] = a[n]
    BY <1>2, <1>4, <2>1
  <2> QED
    BY <1>1, <2>2, <2>3 DEF n
<1>7. Chain(d, t)
    BY <1>3, <1>4, <1>5 DEF Chain
<1> QED
    BY <1>3, <1>6, <1>7 DEF Leads, t

LEMMA LeadsEmpty ==
    ASSUME NEW b, NEW e, Leads(b, <<>>, e)
    PROVE  b = e
<1>1. Len(<<>>) = 0
    BY EmptySeq
<1> QED
    BY <1>1 DEF Leads

LEMMA LeadsStates ==
    ASSUME NEW q \in Seq(Msgs), NEW b, NEW e, Leads(b, q, e)
    PROVE  b \in States /\ e \in States
<1>1. Len(q) \in Nat
    BY LenProperties
<1> QED
    BY <1>1 DEF Leads, Chain

----------------------------------------------------------------------------
(* SendRows: the messages it returns make the client put the rows together.*)

(* w are the cells of the first n rows.                                    *)
Flat(w, rows, n) ==
    /\ w \in Cells /\ Len(w) = 2 * n
    /\ \A j \in 1 .. n : w[2 * j - 1] = rows[j][1] /\ w[2 * j] = rows[j][2]

LEMMA RowIs ==
    ASSUME NEW r \in Row
    PROVE  /\ r = <<r[1], r[2]>> /\ r[1] \in Cell /\ r[2] \in Cell
           /\ r \in Cells /\ Len(r) = 2 /\ r \in Pair
<1>1. r = <<r[1], r[2]>> /\ r[1] \in Cell /\ r[2] \in Cell /\ r \in Pair
    BY DEF Row, Cell, Pair
<1>2. <<r[1], r[2]>> \in Cells /\ Len(<<r[1], r[2]>>) = 2
    BY <1>1 DEF Cells
<1> QED
    BY <1>1, <1>2

LEMMA TwoCells ==
    ASSUME NEW x \in Cell, NEW y \in Cell
    PROVE  <<x, y>> = <<x>> \o <<y>> /\ <<x>> \in Cells /\ <<y>> \in Cells
<1>1. <<x>> \in Cells /\ <<y>> \in Cells
    BY DEF Cells
<1>2. <<x, y>> = Append(<<x>>, y)
    OBVIOUS
<1>3. Append(<<x>>, y) = <<x>> \o <<y>>
    BY <1>1, AppendIsConcat DEF Cells
<1> QED
    BY <1>1, <1>2, <1>3

LEMMA FlatNext ==
    ASSUME NEW rows \in Seq(Row), NEW n \in 1 .. Len(rows), NEW w, Flat(w, rows, n - 1)
    PROVE  Flat((w \o <<rows[n][1]>>) \o <<rows[n][2]>>, rows, n)
<1> DEFINE x == rows[n][1]
           y == rows[n][2]
           c == <<x>>
           d == <<y>>
           k == 2 * (n - 1)
           w1 == w \o c
           w2 == w1 \o d
<1>1. n \in Nat \ {0} /\ k \in Nat /\ 2 * n = k + 2
    BY LenProperties
<1>2. w \in Cells /\ Len(w) = k
    BY DEF Flat
<1>3. x \in Cell /\ y \in Cell
    BY ElementOfSeq, RowIs
<1>4. c \in Seq(Cell) /\ Len(c) = 1 /\ c[1] = x
    BY <1>3
<1>5. d \in Seq(Cell) /\ Len(d) = 1 /\ d[1] = y
    BY <1>3
<1> HIDE DEF c, d, x, y, k
<1>6. /\ w1 \in Seq(Cell) /\ Len(w1) = k + 1
      /\ \A i \in 1 .. k + 1 : w1[i] = IF i <= k THEN w[i] ELSE c[i - k]
  <2>1. /\ w1 \in Seq(Cell) /\ Len(w1) = Len(w) + Len(c)
        /\ \A i \in 1 .. Len(w) + Len(c) :
              w1[i] = IF i <= Len(w) THEN w[i] ELSE c[i - Len(w)]
    BY <1>2, <1>4, ConcatProperties DEF Cells
  <2> HIDE DEF w1
  <2> QED
    BY <1>2, <1>4, <2>1
<1> HIDE DEF w1
<1>7. /\ w2 \in Seq(Cell) /\ Len(w2) = (k + 1) + 1
      /\ \A i \in 1 .. (k + 1) + 1 : w2[i] = IF i <= k + 1 THEN w1[i] ELSE d[i - (k + 1)]
  <2>1. /\ w2 \in Seq(Cell) /\ Len(w2) = Len(w1) + Len(d)
        /\ \A i \in 1 .. Len(w1) + Len(d) :
              w2[i] = IF i <= Len(w1) THEN w1[i] ELSE d[i - Len(w1)]
    BY <1>5, <1>6, ConcatProperties
  <2> HIDE DEF w2
  <2> QED
    BY <1>5, <1>6, <2>1
<1> HIDE DEF w2
<1>8. w2[k + 1] = x /\ w2[k + 2] = y /\ \A i \in 1 .. k : w2[i] = w[i]
    BY <1>1, <1>4, <1>5, <1>6, <1>7
<1>9. ASSUME NEW j \in 1 .. n
      PROVE  w2[2 * j - 1] = rows[j][1] /\ w2[2 * j] = rows[j][2]
  <2>1. CASE j = n
    <3>1. 2 * j - 1 = k + 1 /\ 2 * j = k + 2
        BY <1>1, <2>1
    <3> QED
        BY <1>8, <2>1, <3>1 DEF x, y
  <2>2. CASE j # n
    <3>1. j \in 1 .. n - 1
        BY <1>1, <2>2
    <3>2. 2 * j - 1 \in 1 .. k /\ 2 * j \in 1 .. k
        BY <1>1, <3>1 DEF k
    <3> QED
        BY <1>8, <3>1, <3>2 DEF Flat
  <2> QED
    BY <2>1, <2>2
<1>10. w2 \in Cells /\ Len(w2) = 2 * n
    BY <1>1, <1>7 DEF Cells
<1>11. Flat(w2, rows, n)
    BY <1>9, <1>10 DEF Flat
<1> QED
    BY <1>11 DEF w2, w1, c, d, x, y

(* The client with the cells v.                                            *)
Holding(s, v) == State(s.cache, s.mCache, s.meta, v, <<>>, s.bad)

(* What a snapshot sends asks nobody to initialise again.                  *)
RowMsgs == {m \in Msgs : m.id # "initialise"}

LoopStates == [out : Seq(RowMsgs), sb : Cells]

LEMMA RowMsgsAre ==
    ASSUME NEW q \in Seq(RowMsgs)
    PROVE  q \in Seq(Msgs)
<1>1. RowMsgs \subseteq Msgs
    BY DEF RowMsgs
<1> QED
    BY <1>1, SeqSubset

(* After n rows, those sent and those in the buffer are theirs.            *)
Loop(s, rows, n, u) ==
    /\ u \in LoopStates
    /\ \E v \in Cells : Leads(s, u.out, Holding(s, v)) /\ Flat(v \o u.sb, rows, n)

LEMMA HoldingIs ==
    ASSUME NEW s \in States, NEW v \in Cells
    PROVE  /\ Holding(s, v) \in States /\ Holding(s, v).vData = v
           /\ Holding(s, v).blob = <<>> /\ Holding(s, v).cache = s.cache
           /\ Holding(s, v).mCache = s.mCache /\ Holding(s, v).meta = s.meta
           /\ Holding(s, v).bad = s.bad
<1> DEFINE e == <<>>
<1>1. e \in Cells
    BY EmptySeq DEF Cells
<1>2. /\ s.cache \in Sets /\ s.mCache \in Sets /\ s.meta \in Table /\ s.bad \in {0, 1}
    BY StatesOf
<1>3. Holding(s, v) = State(s.cache, s.mCache, s.meta, v, e, s.bad)
    BY DEF Holding
<1> HIDE DEF e
<1>4. /\ Holding(s, v) \in States /\ Holding(s, v).vData = v
      /\ Holding(s, v).blob = e /\ Holding(s, v).cache = s.cache
      /\ Holding(s, v).mCache = s.mCache /\ Holding(s, v).meta = s.meta
      /\ Holding(s, v).bad = s.bad
    BY <1>1, <1>2, <1>3 DEF State, States
<1> QED
    BY <1>4 DEF e

LEMMA BlobLeads ==
    ASSUME NEW s \in States, NEW t \in Table, NEW v \in Cells, NEW w \in Cells,
           NEW x \in Cells, NEW out \in Seq(Msgs), Leads(s, out, Holding(s, v))
    PROVE  LET q == <<Msg("idTransferring", t, w), Msg("idStartBLOB", t, x),
                      Msg("idEndBLOB", t, <<>>)>>
           IN  out \o q \in Seq(Msgs) /\ Leads(s, out \o q, Holding(s, (v \o w) \o x))
<1> DEFINE m1 == Msg("idTransferring", t, w)
           m2 == Msg("idStartBLOB", t, x)
           m3 == Msg("idEndBLOB", t, <<>>)
           h0 == Holding(s, v)
           v1 == v \o w
           v2 == v1 \o x
           h1 == Holding(s, v1)
           h2 == State(s.cache, s.mCache, s.meta, v1, x, s.bad)
           h3 == Holding(s, v2)
<1>1. v1 \in Cells /\ v2 \in Cells /\ <<>> \in Cells
    BY ConcatProperties, EmptySeq DEF Cells
<1>2. /\ m1 \in Msgs /\ m1.id = "idTransferring" /\ m1.cells = w
      /\ m2 \in Msgs /\ m2.id = "idStartBLOB" /\ m2.cells = x
      /\ m3 \in Msgs /\ m3.id = "idEndBLOB"
    BY <1>1 DEF Msg, Msgs, MsgIds
<1>3. Fit(h0, m1) /\ Fit(h1, m2) /\ Fit(h2, m3)
    BY <1>2 DEF Fit
<1> HIDE DEF m1, m2, m3
<1>4. h0 \in States /\ Step(h0, m1) = h1
  <2>1. Step(h0, m1) = State(h0.cache, h0.mCache, h0.meta, h0.vData \o m1.cells,
                             h0.blob, h0.bad)
    BY <1>2, StepIs
  <2>2. /\ h0 \in States /\ h0.vData = v /\ h0.blob = <<>> /\ h0.cache = s.cache
        /\ h0.mCache = s.mCache /\ h0.meta = s.meta /\ h0.bad = s.bad
    BY HoldingIs
  <2> HIDE DEF h0
  <2> QED
    BY <1>2, <2>1, <2>2 DEF Holding
<1>5. h1 \in States /\ Step(h1, m2) = h2
  <2>1. Step(h1, m2) = State(h1.cache, h1.mCache, h1.meta, h1.vData, m2.cells, h1.bad)
    <3> HIDE DEF h1
    <3> QED
      BY <1>2, StepIs
  <2>2. /\ h1 \in States /\ h1.vData = v1 /\ h1.cache = s.cache
        /\ h1.mCache = s.mCache /\ h1.meta = s.meta /\ h1.bad = s.bad
    <3> HIDE DEF v1
    <3> QED
      BY <1>1, HoldingIs
  <2> HIDE DEF h1, v1
  <2> QED
    BY <1>2, <2>1, <2>2
<1>6. h2 \in States /\ Step(h2, m3) = h3
  <2>1. /\ h2 \in States /\ h2.cache = s.cache /\ h2.mCache = s.mCache
        /\ h2.meta = s.meta /\ h2.vData = v1 /\ h2.blob = x /\ h2.bad = s.bad
    <3> HIDE DEF v1
    <3> QED
      BY <1>1, StatesOf DEF State, States
  <2>2. Step(h2, m3) = State(h2.cache, h2.mCache, h2.meta, h2.vData \o h2.blob, <<>>,
                             h2.bad)
    <3> HIDE DEF h2
    <3> QED
      BY <1>2, StepIs
  <2> HIDE DEF h2, v1
  <2> QED
    BY <2>1, <2>2 DEF Holding
<1> DEFINE q == <<m1, m2, m3>>
           o1 == Append(out, m1)
           o2 == Append(o1, m2)
           o3 == Append(o2, m3)
<1>7. o1 \in Seq(Msgs) /\ o2 \in Seq(Msgs) /\ o3 \in Seq(Msgs) /\ out \o q = o3
  <2>1. o1 \in Seq(Msgs) /\ o2 \in Seq(Msgs) /\ o3 \in Seq(Msgs)
    BY <1>2, AppendProperties
  <2>2. out \o q = o3
    BY <1>2
  <2> QED
    BY <2>1, <2>2
<1> HIDE DEF h0, h1, h2, h3
<1>8. Leads(s, o1, h1)
    BY <1>2, <1>3, <1>4, LeadsAppend DEF h0
<1> HIDE DEF o1
<1>9. Leads(s, o2, h2)
    BY <1>2, <1>3, <1>5, <1>7, <1>8, LeadsAppend
<1> HIDE DEF o2
<1>10. Leads(s, o3, h3)
    BY <1>2, <1>3, <1>6, <1>7, <1>9, LeadsAppend
<1> QED
    BY <1>7, <1>10 DEF h3, v2, v1, m1, m2, m3

LEMMA CellsAssociate ==
    ASSUME NEW x \in Cells, NEW y \in Cells, NEW z \in Cells
    PROVE  x \o (y \o z) = (x \o y) \o z
<1> DEFINE S == Cell
<1>1. x \in Seq(S) /\ y \in Seq(S) /\ z \in Seq(S)
    BY DEF Cells
<1> HIDE DEF S
<1> QED
    BY <1>1, ConcatAssociative

LEMMA SendRowType ==
    ASSUME NEW t \in Table, NEW u \in LoopStates, NEW r \in Row
    PROVE  SendRow(t, u, r) \in LoopStates
<1> DEFINE w == Append(u.sb, r[1])
           x == <<r[2]>>
           q == <<Msg("idTransferring", t, w), Msg("idStartBLOB", t, x),
                  Msg("idEndBLOB", t, <<>>)>>
           y == u.sb \o r
<1>1. u.out \in Seq(RowMsgs) /\ u.sb \in Cells
    BY DEF LoopStates
<1>2. w \in Cells /\ x \in Cells /\ y \in Cells /\ <<>> \in Cells
    BY <1>1, RowIs, AppendProperties, ConcatProperties, EmptySeq DEF Cells
<1> HIDE DEF w, x, y
<1>3. q \in Seq(RowMsgs)
    BY <1>2 DEF Msg, Msgs, MsgIds, RowMsgs
<1> HIDE DEF q
<1>4. u.out \o q \in Seq(RowMsgs)
    BY <1>1, <1>3, ConcatProperties
<1>5. CASE r \in Big
  <2>1. SendRow(t, u, r) = [out |-> u.out \o q, sb |-> <<>>]
    BY <1>5 DEF SendRow, q, w, x
  <2> QED
    BY <1>2, <1>4, <2>1 DEF LoopStates
<1>6. CASE r \notin Big
  <2>1. SendRow(t, u, r) = [u EXCEPT !.sb = y]
    BY <1>6 DEF SendRow, y
  <2> QED
    BY <1>2, <2>1 DEF LoopStates
<1> QED
    BY <1>5, <1>6

LEMMA RowKeepsLoop ==
    ASSUME NEW s \in States, NEW t \in Table, NEW rows \in Seq(Row),
           NEW n \in 1 .. Len(rows), NEW u, Loop(s, rows, n - 1, u)
    PROVE  Loop(s, rows, n, SendRow(t, u, rows[n]))
<1> DEFINE r == rows[n]
           c == <<r[1]>>
           d == <<r[2]>>
           sb == u.sb
           z == SendRow(t, u, r)
<1>1. r \in Row
    BY ElementOfSeq
<1>2. u \in LoopStates /\ u.out \in Seq(Msgs) /\ sb \in Cells
    BY RowMsgsAre DEF Loop, LoopStates
<1>3. PICK v \in Cells : Leads(s, u.out, Holding(s, v)) /\ Flat(v \o sb, rows, n - 1)
    BY DEF Loop
<1>4. Flat(((v \o sb) \o c) \o d, rows, n)
    BY <1>3, FlatNext
<1>5. r = c \o d /\ c \in Cells /\ d \in Cells /\ r[1] \in Cell
    BY <1>1, RowIs, TwoCells
<1>6. z \in LoopStates
    BY <1>1, <1>2, SendRowType
<1>7. CASE r \in Big
  <2> DEFINE w == Append(sb, r[1])
             q == <<Msg("idTransferring", t, w), Msg("idStartBLOB", t, d),
                    Msg("idEndBLOB", t, <<>>)>>
             x == (v \o w) \o d
  <2>1. z.out = u.out \o q /\ z.sb = <<>>
    BY <1>7 DEF SendRow
  <2>2. w \in Cells /\ w = sb \o c
    BY <1>2, <1>5, AppendProperties, AppendIsConcat DEF Cells
  <2> HIDE DEF c, d, sb, z
  <2>3. v \o (sb \o c) = (v \o sb) \o c
    BY <1>2, <1>5, CellsAssociate
  <2>4. Leads(s, u.out \o q, Holding(s, x))
    <3> HIDE DEF w
    <3> QED
      BY <1>2, <1>3, <1>5, <2>2, BlobLeads
  <2>5. x \in Cells
    <3>1. v \o w \in Cells
        BY <2>2, ConcatProperties DEF Cells
    <3> HIDE DEF w
    <3> QED
        BY <1>5, <3>1, ConcatProperties DEF Cells
  <2>6. x \o <<>> = x
    <3> HIDE DEF x
    <3> QED
      BY <2>5, ConcatEmpty DEF Cells
  <2>7. Flat(x, rows, n)
    BY <1>4, <2>2, <2>3
  <2> HIDE DEF x, q
  <2>8. Leads(s, z.out, Holding(s, x)) /\ Flat(x \o z.sb, rows, n)
    BY <2>1, <2>4, <2>6, <2>7
  <2>9. Loop(s, rows, n, z)
    BY <1>6, <2>5, <2>8 DEF Loop
  <2> QED
    BY <2>9 DEF z
<1>8. CASE r \notin Big
  <2>1. z.out = u.out /\ z.sb = sb \o r
    BY <1>2, <1>8 DEF SendRow, LoopStates
  <2> HIDE DEF c, d, sb, z, r
  <2>2. sb \o r = (sb \o c) \o d
    BY <1>2, <1>5, CellsAssociate
  <2>3. v \o ((sb \o c) \o d) = (v \o (sb \o c)) \o d /\ v \o (sb \o c) = (v \o sb) \o c
    <3>1. sb \o c \in Cells
        BY <1>2, <1>5, ConcatProperties DEF Cells
    <3> DEFINE y == sb \o c
    <3>2. v \o (sb \o c) = (v \o sb) \o c
        BY <1>2, <1>5, CellsAssociate
    <3> HIDE DEF y
    <3>3. v \o (y \o d) = (v \o y) \o d
        BY <1>5, <3>1, CellsAssociate, ZenonT(60) DEF y
    <3> QED
        BY <3>2, <3>3 DEF y
  <2>4. Flat(v \o z.sb, rows, n)
    BY <1>4, <2>1, <2>2, <2>3
  <2>5. Loop(s, rows, n, z)
    BY <1>3, <1>6, <2>1, <2>4 DEF Loop
  <2> QED
    BY <2>5 DEF z, r
<1> QED
    BY <1>7, <1>8

(* What SendRows returns, from the last state of its loop.                 *)
LEMMA RowsLoop ==
    ASSUME NEW s \in States, NEW t \in Table, NEW rows \in Seq(Row),
           s.vData = <<>>, s.blob = <<>>
    PROVE  \E u : /\ Loop(s, rows, Len(rows), u)
                  /\ SendRows(t, rows) = Append(u.out, Msg("idEndRows", t, u.sb))
<1> DEFINE N == Len(rows)
           b == [out |-> <<>>, sb |-> <<>>]
           Eq(g) == g = [n \in 0 .. Len(rows) |->
                           IF n = 0 THEN [out |-> <<>>, sb |-> <<>>]
                           ELSE SendRow(t, g[n - 1], rows[n])]
           f == CHOOSE g : Eq(g)
           F == [u \in LoopStates |-> [i \in 1 .. N |-> SendRow(t, u, rows[i])]]
<1>1. N \in Nat /\ \A i \in 1 .. N : rows[i] \in Row
    BY LenProperties, ElementOfSeq
<1>2. SendRows(t, rows) = Append(f[N].out, Msg("idEndRows", t, f[N].sb))
    BY DEF SendRows
<1>3. b \in LoopStates /\ <<>> \in Cells
    BY EmptySeq DEF LoopStates, Cells
<1>4. /\ F \in [LoopStates -> [1 .. N -> LoopStates]]
      /\ \A u \in LoopStates, i \in 1 .. N : F[u][i] = SendRow(t, u, rows[i])
    BY <1>1, SendRowType
<1>5. Loop(s, rows, 0, b)
  <2> DEFINE e == <<>>
  <2>1. s = Holding(s, e)
    BY StatesOf DEF Holding
  <2>2. Leads(s, e, s)
    BY LeadsNone
  <2>3. Len(e) = 0 /\ \A j \in 1 .. 0 : FALSE
    BY EmptySeq
  <2>4. e \o e = e /\ b.out = e /\ b.sb = e
    BY <1>3, ConcatEmpty DEF Cells
  <2> HIDE DEF e, b
  <2>5. Flat(e, rows, 0)
    BY <1>3, <2>3 DEF Flat, e
  <2>6. e \in Cells
    BY <1>3 DEF e
  <2>7. Leads(s, b.out, Holding(s, e)) /\ Flat(e \o b.sb, rows, 0)
    BY <2>1, <2>2, <2>4, <2>5
  <2> QED
    BY <1>3, <2>6, <2>7 DEF Loop
<1> HIDE DEF F, N, b
<1>6. \E h \in [0 .. N -> LoopStates] : Recursive(h, b, F, N)
    BY <1>1, <1>3, <1>4, Recursion
<1>7. PICK h \in [0 .. N -> LoopStates] : Recursive(h, b, F, N)
    BY <1>6
<1>8. \A i \in 1 .. N : h[i] = SendRow(t, h[i - 1], rows[i])
  <2> SUFFICES ASSUME NEW i \in 1 .. N
               PROVE  h[i] = SendRow(t, h[i - 1], rows[i])
    OBVIOUS
  <2>1. i - 1 \in 0 .. N /\ h[i] = F[h[i - 1]][i]
    BY <1>1, <1>7 DEF Recursive
  <2>2. h[i - 1] \in LoopStates
    BY <1>7, <2>1
  <2> QED
    BY <1>4, <2>1, <2>2
<1>9. Eq(h)
  <2>1. h = [n \in 0 .. N |-> h[n]] /\ h[0] = b
    BY <1>7 DEF Recursive
  <2>2. \A n \in 0 .. N : n # 0 => n \in 1 .. N
    BY <1>1
  <2>3. \A n \in 0 .. N : h[n] = IF n = 0 THEN b ELSE SendRow(t, h[n - 1], rows[n])
    BY <1>8, <2>1, <2>2
  <2>4. [n \in 0 .. N |-> h[n]]
            = [n \in 0 .. N |-> IF n = 0 THEN b ELSE SendRow(t, h[n - 1], rows[n])]
    BY <2>3
  <2> QED
    BY <2>1, <2>4 DEF N, b
<1>10. Eq(f)
  <2> HIDE DEF Eq
  <2> QED
    BY <1>9
<1>11. f = [n \in 0 .. N |-> IF n = 0 THEN b ELSE SendRow(t, f[n - 1], rows[n])]
    BY <1>10 DEF N, b
<1> HIDE DEF f, Eq
<1>12. f[0] = b /\ \A i \in 1 .. N : f[i] = SendRow(t, f[i - 1], rows[i])
  <2>1. 0 \in 0 .. N /\ \A i \in 1 .. N : i \in 0 .. N /\ i # 0
    BY <1>1
  <2> QED
    BY <1>11, <2>1
<1> DEFINE B == {i \in 1 .. N : ~Loop(s, rows, i, f[i])}
<1>13. \A i \in B : i - 1 \in B
  <2> SUFFICES ASSUME NEW i \in B
               PROVE  i - 1 \in B
    OBVIOUS
  <2>1. i \in 1 .. N /\ ~Loop(s, rows, i, f[i])
    OBVIOUS
  <2>2. ~Loop(s, rows, i - 1, f[i - 1])
    BY <1>12, <2>1, RowKeepsLoop DEF N
  <2>3. i - 1 # 0
    BY <1>5, <1>12, <2>2
  <2> QED
    BY <1>1, <2>1, <2>2, <2>3
<1>14. B = {}
  <2>1. B \in SUBSET (1 .. N) /\ N \in Nat
    BY <1>1
  <2> HIDE DEF B
  <2> QED
    BY <1>13, <2>1, NoneBad
<1>15. Loop(s, rows, N, f[N])
  <2>1. CASE N = 0
    BY <1>5, <1>12, <2>1
  <2>2. CASE N # 0
    <3>1. N \in 1 .. N
        BY <1>1, <2>2
    <3> QED
        BY <1>14, <3>1
  <2> QED
    BY <2>1, <2>2
<1> QED
    BY <1>2, <1>15 DEF N

LEMMA NewIs ==
    ASSUME NEW rows \in Seq(Row), NEW w, Flat(w, rows, Len(rows))
    PROVE  Len(w) % 2 = 0 /\ New(w) = rows
<1> DEFINE n == Len(rows)
<1>1. n \in Nat /\ w \in Cells /\ Len(w) = 2 * n
    BY LenProperties DEF Flat
<1> HIDE DEF n
<1>2. Len(w) % 2 = 0 /\ Len(w) \div 2 = n
    BY <1>1
<1>3. \A j \in 1 .. n : rows[j] = <<w[2 * j - 1], w[2 * j]>>
  <2> SUFFICES ASSUME NEW j \in 1 .. n
               PROVE  rows[j] = <<w[2 * j - 1], w[2 * j]>>
    OBVIOUS
  <2>1. rows[j] \in Row
    BY ElementOfSeq DEF n
  <2>2. rows[j] = <<rows[j][1], rows[j][2]>>
    BY <2>1, RowIs
  <2>3. w[2 * j - 1] = rows[j][1] /\ w[2 * j] = rows[j][2]
    BY DEF Flat, n
  <2> QED
    BY <2>2, <2>3
<1>4. New(w) \in Seq(Pair) /\ Len(New(w)) = n
    BY <1>1, <1>2, NewType
<1>5. \A j \in 1 .. n : New(w)[j] = rows[j]
    BY <1>2, <1>3 DEF New
<1>6. New(w) = rows
    BY <1>4, <1>5, SeqEqual DEF n
<1> QED
    BY <1>2, <1>6

LEMMA AddedRows ==
    ASSUME NEW ds \in Sets, NEW t \in Table, \A i \in 1 .. Len(ds) : ds[i].name # t,
           NEW rows \in Seq(Row), NEW w, Flat(w, rows, Len(rows))
    PROVE  AddRows(AddEmptyRowset(ds, t), t, w) = Append(ds, [name |-> t, rows |-> rows])
<1> DEFINE n == Len(ds)
           x == AddEmptyRowset(ds, t)
           e == [name |-> t, rows |-> <<>>]
           f == [name |-> t, rows |-> rows]
           y == Append(ds, f)
<1>1. n \in Nat /\ x \in Sets
    BY SetsOf, AddEmptyType
<1>2. e \in NamedTable /\ f \in NamedTable
  <2>1. rows \in Seq(Pair) /\ <<>> \in Seq(Pair)
    BY SeqSubset, RowIs, EmptySeq
  <2> QED
    BY <2>1 DEF NamedTable
<1>3. Len(x) = n + 1 /\ x[n + 1] = e /\ \A i \in 1 .. n : x[i] = ds[i]
  <2> HIDE DEF e
  <2>1. x = Append(ds, e)
    BY DEF AddEmptyRowset, e
  <2> QED
    BY <1>1, <1>2, <2>1, AppendProperties DEF Sets
<1>4. y \in Seq(NamedTable) /\ Len(y) = n + 1 /\ y[n + 1] = f /\ \A i \in 1 .. n : y[i] = ds[i]
  <2> HIDE DEF f
  <2> QED
    BY <1>1, <1>2, AppendProperties DEF Sets
<1> HIDE DEF x, y, n
<1>5. TableOf(x, t) = n + 1
  <2>1. n + 1 \in 1 .. Len(x) /\ x[n + 1].name = t
    BY <1>1, <1>3
  <2>2. \A i \in 1 .. Len(x) : x[i].name = t => i = n + 1
    BY <1>1, <1>3 DEF n
  <2> QED
    BY <1>1, <2>1, <2>2, TableOfType
<1>6. New(w) = rows /\ Len(w) % 2 = 0
    BY NewIs
<1>7. x[n + 1].rows \o New(w) = rows
  <2>1. <<>> \o rows = rows
    BY ConcatEmpty
  <2> QED
    BY <1>3, <1>6, <2>1
<1>8. AddRows(x, t, w) = Put(x, n + 1, rows)
  <2>1. AddRows(x, t, w) =
          IF TableOf(x, t) = 0 \/ Len(w) % 2 # 0 THEN x
          ELSE Put(x, TableOf(x, t), x[TableOf(x, t)].rows \o New(w))
    BY <1>1, AddRowsIs
  <2>2. n + 1 # 0
    BY <1>1
  <2> QED
    BY <1>5, <1>6, <1>7, <2>1, <2>2
<1>9. Put(x, n + 1, rows) = [k \in 1 .. n + 1 |-> IF k = n + 1 THEN f ELSE ds[k]]
  <2>1. \A k \in 1 .. n + 1 : k # n + 1 => k \in 1 .. n
    BY <1>1
  <2>2. \A k \in 1 .. n + 1 :
          (IF k = n + 1 THEN [name |-> x[k].name, rows |-> rows] ELSE x[k])
            = (IF k = n + 1 THEN f ELSE ds[k])
    BY <1>3, <2>1
  <2> HIDE DEF f
  <2> QED
    BY <1>3, <2>2 DEF Put
<1>10. y = [k \in 1 .. n + 1 |-> IF k = n + 1 THEN f ELSE ds[k]]
  <2>1. \A k \in 1 .. n + 1 : k # n + 1 => k \in 1 .. n
    BY <1>1
  <2>2. y = [k \in 1 .. n + 1 |-> y[k]]
    BY <1>4, LenProperties
  <2> HIDE DEF f
  <2> QED
    BY <1>4, <2>1, <2>2
<1> QED
    BY <1>8, <1>9, <1>10 DEF x, y

(* The client after a table has come.                                      *)
WithTable(s, t, rows) ==
    State(s.cache, Append(s.mCache, [name |-> t, rows |-> rows]), t, <<>>, <<>>, s.bad)

LEMMA HeaderLeads ==
    ASSUME NEW s \in States, NEW t \in Table
    PROVE  /\ Msg("idRowsetHeader", t, <<>>) \in Msgs
           /\ WithTable(s, t, <<>>) \in States
           /\ Leads(s, <<Msg("idRowsetHeader", t, <<>>)>>, WithTable(s, t, <<>>))
<1> DEFINE m == Msg("idRowsetHeader", t, <<>>)
<1>1. m \in Msgs /\ m.id = "idRowsetHeader" /\ m.name = t
  <2>1. <<>> \in Cells
    BY EmptySeq DEF Cells
  <2> QED
    BY <2>1 DEF Msg, Msgs, MsgIds
<1> HIDE DEF m
<1>2. Step(s, m) = WithTable(s, t, <<>>)
    BY <1>1, StepIs DEF WithTable, AddEmptyRowset
<1>3. Fit(s, m)
    BY <1>1 DEF Fit
<1>4. m \in Msgs /\ WithTable(s, t, <<>>) \in States
      /\ Leads(s, <<m>>, WithTable(s, t, <<>>))
    BY <1>1, <1>2, <1>3, LeadsOne, StepType
<1> QED
    BY <1>4 DEF m

LEMMA RowsLead ==
    ASSUME NEW s \in States, NEW t \in Table, NEW rows \in Seq(Row),
           \A i \in 1 .. Len(s.mCache) : s.mCache[i].name # t
    PROVE  /\ SendRows(t, rows) \in Seq(RowMsgs) /\ SendRows(t, rows) \in Seq(Msgs)
           /\ Leads(WithTable(s, t, <<>>), SendRows(t, rows), WithTable(s, t, rows))
<1> DEFINE h == WithTable(s, t, <<>>)
<1>1. /\ s.cache \in Sets /\ s.mCache \in Sets /\ s.bad \in {0, 1} /\ h \in States
    BY StatesOf, HeaderLeads
<1>2. /\ h.vData = <<>> /\ h.blob = <<>> /\ h.meta = t /\ h.cache = s.cache
      /\ h.mCache = AddEmptyRowset(s.mCache, t) /\ h.bad = s.bad
    BY DEF WithTable, State, AddEmptyRowset
<1> HIDE DEF h
<1>3. PICK u : /\ Loop(h, rows, Len(rows), u)
               /\ SendRows(t, rows) = Append(u.out, Msg("idEndRows", t, u.sb))
    BY <1>1, <1>2, RowsLoop
<1>4. u.out \in Seq(RowMsgs) /\ u.out \in Seq(Msgs) /\ u.sb \in Cells
    BY <1>3, RowMsgsAre DEF Loop, LoopStates
<1>5. PICK v \in Cells : /\ Leads(h, u.out, Holding(h, v))
                         /\ Flat(v \o u.sb, rows, Len(rows))
    BY <1>3 DEF Loop
<1> DEFINE m == Msg("idEndRows", t, u.sb)
           g == Holding(h, v)
<1>6. m \in Msgs /\ m \in RowMsgs /\ m.id = "idEndRows" /\ m.cells = u.sb
    BY <1>4 DEF Msg, Msgs, MsgIds, RowMsgs
<1>7. /\ g \in States /\ g.vData = v /\ g.blob = <<>> /\ g.meta = t
      /\ g.cache = s.cache /\ g.mCache = AddEmptyRowset(s.mCache, t) /\ g.bad = s.bad
    BY <1>1, <1>2, HoldingIs
<1> HIDE DEF m, g
<1>8. Step(g, m) = State(g.cache, AddRows(g.mCache, g.meta, g.vData \o m.cells), g.meta,
                         <<>>, g.blob, g.bad)
    BY <1>6, StepIs
<1>9. AddRows(AddEmptyRowset(s.mCache, t), t, v \o u.sb)
        = Append(s.mCache, [name |-> t, rows |-> rows])
    BY <1>1, <1>5, AddedRows
<1>10. Step(g, m) = WithTable(s, t, rows)
    BY <1>6, <1>7, <1>8, <1>9 DEF WithTable
<1>11. Fit(g, m)
    BY <1>6 DEF Fit
<1>12. Leads(h, Append(u.out, m), WithTable(s, t, rows))
    BY <1>4, <1>5, <1>6, <1>7, <1>10, <1>11, LeadsAppend DEF g
<1>13. Append(u.out, m) \in Seq(RowMsgs) /\ Append(u.out, m) \in Seq(Msgs)
    BY <1>4, <1>6, AppendProperties
<1> QED
    BY <1>3, <1>12, <1>13 DEF m, h

----------------------------------------------------------------------------
(* The rows of a cached table are those of the database, none of them      *)
(* twice; and changes keep it so.                                          *)
Matches(rows, S) ==
    /\ \A i \in 1 .. Len(rows) : rows[i] \in S
    /\ \A x \in S : \E i \in 1 .. Len(rows) : rows[i] = x
    /\ \A i, j \in 1 .. Len(rows) : rows[i] = rows[j] => i = j

Keyed(S) == \A q, r \in S : q[1] = r[1] => q = r

LEMMA MatchesNone == Matches(<<>>, {})
<1>1. Len(<<>>) = 0 /\ \A i \in 1 .. 0 : FALSE
    BY EmptySeq
<1> QED
    BY <1>1 DEF Matches

LEMMA MatchesTable ==
    ASSUME NEW S \in SUBSET Row, IsFiniteSet(S)
    PROVE  SetToSeq(S) \in Seq(Row) /\ Matches(SetToSeq(S), S)
<1> DEFINE n == Cardinality(S)
           D == 1 .. n
           One(f) == f \in [D -> S] /\ IsInjective(f)
           g == SetToSeq(S)
<1>1. n \in Nat /\ ExistsBijection(D, S)
    BY FS_CardinalityType
<1>2. PICK f \in Bijection(D, S) : TRUE
    BY <1>1 DEF ExistsBijection
<1>3. f \in [D -> S] /\ IsInjective(f)
    BY <1>2 DEF Bijection, Injection
<1>4. g \in [D -> S] /\ IsInjective(g)
  <2>1. \E f2 \in [D -> S] : IsInjective(f2)
    BY <1>3
  <2> QED
    BY <2>1 DEF SetToSeq
<1>5. g \in Seq(Row) /\ Len(g) = n
  <2>1. g \in [D -> Row]
    BY <1>4
  <2> HIDE DEF g, n
  <2> QED
    BY <1>1, <2>1, FunctionIsSeq
<1>6. g \in Injection(D, S)
    BY <1>4 DEF Injection
<1>7. IsFiniteSet(D) /\ Cardinality(D) = n
  <2> HIDE DEF n
  <2>1. IsFiniteSet(1 .. n) /\ Cardinality(1 .. n) = IF 1 > n THEN 0 ELSE n - 1 + 1
    BY <1>1, FS_Interval
  <2> QED
    BY <1>1, <2>1
<1> HIDE DEF g, D
<1>8. g \in Surjection(D, S)
    BY <1>6, <1>7, FS_Injection
<1>9. \A x \in S : \E i \in D : g[i] = x
    BY <1>8 DEF Surjection
<1>10. \A i, j \in D : g[i] = g[j] => i = j
    BY <1>4 DEF IsInjective
<1>11. \A i \in D : g[i] \in S
    BY <1>4
<1>12. Matches(g, S)
    BY <1>5, <1>9, <1>10, <1>11 DEF Matches, D
<1> QED
    BY <1>5, <1>12 DEF g

LEMMA MatchesInsert ==
    ASSUME NEW rows \in Seq(Pair), NEW S, Matches(rows, S), NEW r \in Pair, r \notin S
    PROVE  Append(rows, r) \in Seq(Pair) /\ Matches(Append(rows, r), S \union {r})
<1> DEFINE n == Len(rows)
           x == Append(rows, r)
<1>1. /\ x \in Seq(Pair) /\ n \in Nat /\ Len(x) = n + 1 /\ x[n + 1] = r
      /\ \A i \in 1 .. n : x[i] = rows[i]
    BY AppendProperties, LenProperties
<1>2. /\ \A i \in 1 .. n : rows[i] \in S
      /\ \A y \in S : \E i \in 1 .. n : rows[i] = y
      /\ \A i, j \in 1 .. n : rows[i] = rows[j] => i = j
    BY DEF Matches
<1> HIDE DEF n, x
<1>3. 1 .. n + 1 = (1 .. n) \union {n + 1} /\ n + 1 \in 1 .. n + 1
    BY <1>1
<1>4. \A i \in 1 .. n + 1 : x[i] \in S \union {r}
    BY <1>1, <1>2, <1>3
<1>5. \A y \in S \union {r} : \E i \in 1 .. n + 1 : x[i] = y
    BY <1>1, <1>2, <1>3
<1>6. \A i, j \in 1 .. n + 1 : x[i] = x[j] => i = j
    BY <1>1, <1>2, <1>3
<1>7. Matches(x, S \union {r})
    BY <1>1, <1>4, <1>5, <1>6 DEF Matches
<1> QED
    BY <1>1, <1>7 DEF x

LEMMA MatchesUpdate ==
    ASSUME NEW rows \in Seq(Pair), NEW S, Matches(rows, S), NEW k \in 1 .. Len(rows),
           NEW r \in Pair, r \notin S \ {rows[k]}
    PROVE  /\ [rows EXCEPT ![k] = r] \in Seq(Pair)
           /\ Matches([rows EXCEPT ![k] = r], (S \ {rows[k]}) \union {r})
<1> DEFINE n == Len(rows)
           x == [rows EXCEPT ![k] = r]
           q == rows[k]
<1>1. /\ x \in Seq(Pair) /\ Len(x) = n /\ k \in 1 .. n
      /\ \A i \in 1 .. n : x[i] = IF i = k THEN r ELSE rows[i]
    BY ExceptSeq
<1>2. /\ \A i \in 1 .. n : rows[i] \in S
      /\ \A y \in S : \E i \in 1 .. n : rows[i] = y
      /\ \A i, j \in 1 .. n : rows[i] = rows[j] => i = j
    BY DEF Matches
<1>3. q = rows[k] /\ r \notin S \ {q}
    OBVIOUS
<1> HIDE DEF n, x, q
<1>4. \A i \in 1 .. n : i # k => rows[i] \in S \ {q}
    BY <1>1, <1>2, <1>3
<1>5. \A i \in 1 .. n : x[i] \in (S \ {q}) \union {r}
    BY <1>1, <1>4
<1>6. \A y \in (S \ {q}) \union {r} : \E i \in 1 .. n : x[i] = y
  <2> SUFFICES ASSUME NEW y \in (S \ {q}) \union {r}
               PROVE  \E i \in 1 .. n : x[i] = y
    OBVIOUS
  <2>1. CASE y = r
    BY <1>1, <2>1
  <2>2. CASE y # r
    <3>1. PICK i \in 1 .. n : rows[i] = y
        BY <1>2, <2>2
    <3>2. i # k
        BY <1>3, <2>2, <3>1
    <3> QED
        BY <1>1, <3>1, <3>2
  <2> QED
    BY <2>1, <2>2
<1>7. ASSUME NEW i \in 1 .. n, NEW j \in 1 .. n, x[i] = x[j]
      PROVE  i = j
  <2>1. CASE i = k \/ j = k
    BY <1>1, <1>3, <1>4, <1>7, <2>1
  <2>2. CASE i # k /\ j # k
    <3>1. x[i] = rows[i] /\ x[j] = rows[j]
        BY <1>1, <2>2
    <3> QED
        BY <1>2, <1>7, <3>1
  <2> QED
    BY <2>1, <2>2
<1>8. Matches(x, (S \ {q}) \union {r})
    BY <1>1, <1>5, <1>6, <1>7 DEF Matches
<1> QED
    BY <1>1, <1>8 DEF x, q

LEMMA MatchesDelete ==
    ASSUME NEW rows \in Seq(Pair), NEW S, Matches(rows, S), NEW k \in 1 .. Len(rows)
    PROVE  /\ RemoveAt(rows, k) \in Seq(Pair)
           /\ Matches(RemoveAt(rows, k), S \ {rows[k]})
<1> DEFINE n == Len(rows)
           x == RemoveAt(rows, k)
           q == rows[k]
<1>1. /\ x \in Seq(Pair) /\ Len(x) = n - 1 /\ k \in 1 .. n /\ n \in Nat
      /\ \A i \in 1 .. n - 1 : x[i] = IF i < k THEN rows[i] ELSE rows[i + 1]
    BY Removed, LenProperties
<1>2. /\ \A i \in 1 .. n : rows[i] \in S
      /\ \A y \in S : \E i \in 1 .. n : rows[i] = y
      /\ \A i, j \in 1 .. n : rows[i] = rows[j] => i = j
    BY DEF Matches
<1>3. q = rows[k]
    OBVIOUS
<1> HIDE DEF n, x, q
<1> DEFINE at == [i \in 1 .. n - 1 |-> IF i < k THEN i ELSE i + 1]
<1>4. /\ \A i \in 1 .. n - 1 : at[i] \in 1 .. n /\ at[i] # k /\ x[i] = rows[at[i]]
      /\ \A i, j \in 1 .. n - 1 : at[i] = at[j] => i = j
      /\ \A l \in 1 .. n : l # k => \E i \in 1 .. n - 1 : at[i] = l
  <2>1. \A i \in 1 .. n - 1 : at[i] \in 1 .. n /\ at[i] # k /\ x[i] = rows[at[i]]
    BY <1>1
  <2>2. \A i, j \in 1 .. n - 1 : at[i] = at[j] => i = j
    BY <1>1
  <2>3. ASSUME NEW l \in 1 .. n, l # k
        PROVE  \E i \in 1 .. n - 1 : at[i] = l
    <3>1. CASE l < k
      <4>1. l \in 1 .. n - 1 /\ at[l] = l
        BY <1>1, <3>1
      <4> HIDE DEF at
      <4> QED
        BY <4>1
    <3>2. CASE ~(l < k)
      <4>1. l - 1 \in 1 .. n - 1 /\ at[l - 1] = l
        BY <1>1, <2>3, <3>2
      <4> HIDE DEF at
      <4> QED
        BY <4>1
    <3> QED
        BY <3>1, <3>2
  <2> QED
    BY <2>1, <2>2, <2>3
<1> HIDE DEF at
<1>5. ASSUME NEW i \in 1 .. n - 1
      PROVE  x[i] \in S \ {q}
  <2>1. at[i] \in 1 .. n /\ at[i] # k /\ x[i] = rows[at[i]]
    BY <1>4
  <2>2. rows[at[i]] \in S /\ rows[at[i]] # rows[k]
    BY <1>1, <1>2, <2>1
  <2> QED
    BY <1>3, <2>1, <2>2
<1>6. \A y \in S \ {q} : \E i \in 1 .. n - 1 : x[i] = y
  <2> SUFFICES ASSUME NEW y \in S \ {q}
               PROVE  \E i \in 1 .. n - 1 : x[i] = y
    OBVIOUS
  <2>1. PICK l \in 1 .. n : rows[l] = y
    BY <1>2
  <2>2. l # k
    BY <1>3, <2>1
  <2>3. PICK i \in 1 .. n - 1 : at[i] = l
    BY <1>4, <2>2
  <2> QED
    BY <1>4, <2>1, <2>3
<1>7. \A i, j \in 1 .. n - 1 : x[i] = x[j] => i = j
    BY <1>2, <1>4
<1>8. Matches(x, S \ {q})
    BY <1>1, <1>5, <1>6, <1>7 DEF Matches
<1> QED
    BY <1>1, <1>8 DEF x, q

(* All the cached tables are what the database d is.                       *)
Mirrors(ds, d) ==
    /\ Names(ds) = Tables
    /\ \A j \in 1 .. Len(Tables) : Matches(ds[j].rows, d[Tables[j]])

LEMMA NamesLen ==
    ASSUME NEW ds \in Sets
    PROVE  /\ Len(Names(ds)) = Len(ds) /\ Names(ds) \in Seq(Table)
           /\ \A i \in 1 .. Len(ds) : Names(ds)[i] = ds[i].name
<1> DEFINE n == Len(ds)
<1>1. n \in Nat /\ \A i \in 1 .. n : ds[i].name \in Table
    BY SetsOf
<1>2. Names(ds) \in [1 .. n -> Table] /\ \A i \in 1 .. n : Names(ds)[i] = ds[i].name
    BY <1>1 DEF Names
<1> HIDE DEF n
<1>3. Names(ds) \in Seq(Table) /\ Len(Names(ds)) = n
    BY <1>1, <1>2, FunctionIsSeq
<1> QED
    BY <1>2, <1>3 DEF n

(* A table is where its name is in Tables.                                 *)
LEMMA TableAt ==
    ASSUME NEW ds \in Sets, Names(ds) = Tables, NEW t \in Table
    PROVE  /\ TableOf(ds, t) \in 1 .. Len(Tables) /\ Len(ds) = Len(Tables)
           /\ Tables[TableOf(ds, t)] = t
<1>1. Len(ds) = Len(Tables) /\ \A i \in 1 .. Len(Tables) : Tables[i] = ds[i].name
    BY NamesLen
<1>2. PICK i \in 1 .. Len(Tables) : Tables[i] = t
  <2>1. DOMAIN Tables = 1 .. Len(Tables)
    BY TablesKnown, LenProperties
  <2> QED
    BY <2>1 DEF Table, Range
<1>3. TableOf(ds, t) # 0
    BY <1>1, <1>2, TablesKnown, TableOfType
<1> QED
    BY <1>1, <1>3, TableOfType

LEMMA PutMirrors ==
    ASSUME NEW ds \in Sets, NEW d \in [Table -> SUBSET Row], Mirrors(ds, d),
           NEW i \in 1 .. Len(Tables), NEW x \in Seq(Pair), NEW S, Matches(x, S)
    PROVE  Mirrors(Put(ds, i, x), [d EXCEPT ![Tables[i]] = S])
<1> DEFINE p == Put(ds, i, x)
           f == [d EXCEPT ![Tables[i]] = S]
<1>1. Names(ds) = Tables /\ Len(ds) = Len(Tables)
    BY NamesLen DEF Mirrors
<1>2. /\ Names(p) = Names(ds) /\ p[i].rows = x
      /\ \A k \in 1 .. Len(Tables) : k # i => p[k] = ds[k]
    BY <1>1, PutType
<1>3. /\ f[Tables[i]] = S
      /\ \A k \in 1 .. Len(Tables) : k # i => f[Tables[k]] = d[Tables[k]]
    BY TablesKnown
<1> HIDE DEF p, f
<1>4. \A k \in 1 .. Len(Tables) : Matches(p[k].rows, f[Tables[k]])
    BY <1>2, <1>3 DEF Mirrors
<1>5. Mirrors(p, f)
    BY <1>1, <1>2, <1>4 DEF Mirrors
<1> QED
    BY <1>5 DEF p, f

LEMMA InsertMirrors ==
    ASSUME NEW ds \in Sets, NEW d \in [Table -> SUBSET Row], Mirrors(ds, d),
           NEW t \in Table, NEW r \in Row, r \notin d[t]
    PROVE  Mirrors(AddRows(ds, t, r), [d EXCEPT ![t] = @ \union {r}])
<1> DEFINE i == TableOf(ds, t)
           rows == ds[i].rows
           S == d[t] \union {r}
           x == Append(rows, r)
<1>1. /\ i \in 1 .. Len(Tables) /\ Len(ds) = Len(Tables) /\ Tables[i] = t /\ i # 0
    BY TableAt, TablesKnown DEF Mirrors
<1>2. rows \in Seq(Pair) /\ Matches(rows, d[t])
    BY <1>1, SetsOf DEF Mirrors
<1>3. r \in Pair /\ r \in Cells /\ Len(r) = 2 /\ r = <<r[1], r[2]>>
    BY RowIs
<1>4. New(r) = <<r>>
  <2>1. New(r) \in Seq(Pair) /\ Len(New(r)) = 2 \div 2
    BY <1>3, NewType
  <2>2. 2 \div 2 = 1 /\ 1 \in 1 .. 1 /\ 2 * 1 - 1 = 1 /\ 2 * 1 = 2
    OBVIOUS
  <2>3. New(r)[1] = <<r[1], r[2]>>
    BY <1>3, <2>2 DEF New
  <2>4. <<r>> \in Seq(Pair) /\ Len(<<r>>) = 1 /\ <<r>>[1] = r
    BY <1>3
  <2>5. \A k \in 1 .. 1 : k = 1
    OBVIOUS
  <2>6. \A k \in 1 .. Len(New(r)) : New(r)[k] = <<r>>[k]
    BY <1>3, <2>1, <2>2, <2>3, <2>4, <2>5
  <2> QED
    BY <2>1, <2>2, <2>4, <2>6, SeqEqual
<1>5. rows \o New(r) = x
    BY <1>2, <1>3, <1>4, AppendIsConcat
<1>6. AddRows(ds, t, r) = Put(ds, i, x)
  <2>1. AddRows(ds, t, r) = IF i = 0 \/ Len(r) % 2 # 0 THEN ds
                            ELSE Put(ds, i, rows \o New(r))
    BY AddRowsIs
  <2>2. 2 % 2 = 0
    OBVIOUS
  <2> HIDE DEF i, rows, x
  <2> QED
    BY <1>1, <1>3, <1>5, <2>1, <2>2
<1>7. x \in Seq(Pair) /\ Matches(x, S)
    BY <1>2, <1>3, MatchesInsert
<1> HIDE DEF i, x, S
<1>8. Mirrors(Put(ds, i, x), [d EXCEPT ![Tables[i]] = S])
    BY <1>1, <1>7, PutMirrors
<1> QED
    BY <1>1, <1>6, <1>8 DEF S

(* The row of the old key.                                                 *)
LEMMA RowFound ==
    ASSUME NEW ds \in Sets, NEW d \in [Table -> SUBSET Row], Mirrors(ds, d),
           NEW t \in Table, Keyed(d[t]), NEW q \in d[t]
    PROVE  LET k == FindARow(ds, t, q[1])
               rows == ds[TableOf(ds, t)].rows
           IN  k # 0 /\ k \in 1 .. Len(rows) /\ rows[k] = q
<1> DEFINE i == TableOf(ds, t)
           rows == ds[i].rows
           k == FindARow(ds, t, q[1])
<1>1. i \in 1 .. Len(Tables) /\ Tables[i] = t /\ i # 0 /\ Len(ds) = Len(Tables)
    BY TableAt, TablesKnown DEF Mirrors
<1>2. rows \in Seq(Pair) /\ Matches(rows, d[t])
    BY <1>1, SetsOf DEF Mirrors
<1>3. PICK j \in 1 .. Len(rows) : rows[j] = q
    BY <1>2 DEF Matches
<1>4. /\ k = 0 => \A l \in 1 .. Len(rows) : rows[l][1] # q[1]
      /\ k # 0 => k \in 1 .. Len(rows) /\ rows[k][1] = q[1]
    BY <1>1, FindARowType
<1>5. k # 0 /\ k \in 1 .. Len(rows) /\ rows[k][1] = q[1]
    BY <1>3, <1>4
<1>6. rows[k] \in d[t]
    BY <1>2, <1>5 DEF Matches
<1> QED
    BY <1>5, <1>6 DEF Keyed

LEMMA UpdateMirrors ==
    ASSUME NEW ds \in Sets, NEW d \in [Table -> SUBSET Row], Mirrors(ds, d),
           NEW t \in Table, Keyed(d[t]), NEW q \in d[t], NEW r \in Row,
           r \notin d[t] \ {q}
    PROVE  Mirrors(UpdateARow(ds, t, <<q[1], r[1], q[2], r[2]>>),
                   [d EXCEPT ![t] = (@ \ {q}) \union {r}])
<1> DEFINE i == TableOf(ds, t)
           rows == ds[i].rows
           p == <<q[1], r[1], q[2], r[2]>>
           k == FindARow(ds, t, q[1])
           S == (d[t] \ {q}) \union {r}
           x == [rows EXCEPT ![k] = r]
<1>1. i \in 1 .. Len(Tables) /\ Tables[i] = t /\ Len(ds) = Len(Tables)
    BY TableAt DEF Mirrors
<1>2. rows \in Seq(Pair) /\ Matches(rows, d[t])
    BY <1>1, SetsOf DEF Mirrors
<1>3. k # 0 /\ k \in 1 .. Len(rows) /\ rows[k] = q
    BY RowFound
<1>4. p[1] = q[1] /\ p[2] = r[1] /\ p[4] = r[2]
    OBVIOUS
<1>5. r \in Pair /\ r = <<r[1], r[2]>>
    BY RowIs
<1>6. UpdateARow(ds, t, p) = Put(ds, i, x)
  <2> HIDE DEF p
  <2>1. UpdateARow(ds, t, p) =
          IF FindARow(ds, t, p[1]) = 0 THEN ds
          ELSE Put(ds, i, [rows EXCEPT ![FindARow(ds, t, p[1])] = <<p[2], p[4]>>])
    BY UpdateIs
  <2> QED
    BY <1>3, <1>4, <1>5, <2>1
<1>7. x \in Seq(Pair) /\ Matches(x, S)
  <2> HIDE DEF rows, k
  <2> QED
    BY <1>2, <1>3, <1>5, MatchesUpdate
<1> HIDE DEF i, x, S, p
<1>8. Mirrors(Put(ds, i, x), [d EXCEPT ![Tables[i]] = S])
    BY <1>1, <1>7, PutMirrors
<1>9. Mirrors(UpdateARow(ds, t, p), [d EXCEPT ![t] = S])
    BY <1>1, <1>6, <1>8
<1> QED
    BY <1>9 DEF S, p

LEMMA DeleteMirrors ==
    ASSUME NEW ds \in Sets, NEW d \in [Table -> SUBSET Row], Mirrors(ds, d),
           NEW t \in Table, Keyed(d[t]), NEW q \in d[t]
    PROVE  Mirrors(DeleteARow(ds, t, q[1]), [d EXCEPT ![t] = @ \ {q}])
<1> DEFINE i == TableOf(ds, t)
           rows == ds[i].rows
           k == FindARow(ds, t, q[1])
           S == d[t] \ {q}
           x == RemoveAt(rows, k)
<1>1. i \in 1 .. Len(Tables) /\ Tables[i] = t /\ Len(ds) = Len(Tables)
    BY TableAt DEF Mirrors
<1>2. rows \in Seq(Pair) /\ Matches(rows, d[t])
    BY <1>1, SetsOf DEF Mirrors
<1>3. k # 0 /\ k \in 1 .. Len(rows) /\ rows[k] = q
    BY RowFound
<1>4. DeleteARow(ds, t, q[1]) = Put(ds, i, x)
    BY <1>3, DeleteIs
<1>5. x \in Seq(Pair) /\ Matches(x, S)
  <2> HIDE DEF rows, k
  <2> QED
    BY <1>2, <1>3, MatchesDelete
<1> HIDE DEF i, x, S
<1>6. Mirrors(Put(ds, i, x), [d EXCEPT ![Tables[i]] = S])
    BY <1>1, <1>5, PutMirrors
<1> QED
    BY <1>1, <1>4, <1>6 DEF S

----------------------------------------------------------------------------
(* The requests that the server has not answered: Open always has its      *)
(* Execute behind it, and nothing but an Open is behind a request for the  *)
(* tables.                                                                 *)
Requests == {"open", "tables"}

Alternate(u) ==
    \A i \in 1 .. Len(u) : /\ u[i] = "open" => i < Len(u) /\ u[i + 1] = "tables"
                           /\ u[i] = "tables" /\ i < Len(u) => u[i + 1] = "open"

LEMMA AlternateTail ==
    ASSUME NEW u \in Seq(Requests), u # <<>>, Alternate(u)
    PROVE  /\ Tail(u) \in Seq(Requests) /\ Alternate(Tail(u))
           /\ Len(u) \in Nat \ {0} /\ Len(Tail(u)) = Len(u) - 1 /\ Head(u) = u[1]
           /\ Head(u) \in Requests
           /\ Head(u) = "open" => Tail(u) # <<>> /\ Head(Tail(u)) = "tables"
           /\ Head(u) = "tables" /\ Tail(u) # <<>> => Head(Tail(u)) = "open"
           /\ Tail(u) = <<>> <=> Len(u) = 1
<1> DEFINE n == Len(u)
           t == Tail(u)
<1>1. n \in Nat \ {0}
    BY EmptySeq
<1>2. /\ t \in Seq(Requests) /\ Len(t) = n - 1 /\ Head(u) = u[1]
      /\ \A i \in 1 .. n - 1 : t[i] = u[i + 1]
    BY HeadTailProperties
<1>3. /\ \A i \in 1 .. n : u[i] = "open" => i < n /\ u[i + 1] = "tables"
      /\ \A i \in 1 .. n : u[i] = "tables" /\ i < n => u[i + 1] = "open"
    BY DEF Alternate
<1>4. u[1] \in Requests
    BY <1>1, ElementOfSeq
<1>5. t = <<>> <=> n = 1
  <2> HIDE DEF t, n
  <2>1. t = <<>> <=> Len(t) = 0
    BY <1>2, EmptySeq
  <2> QED
    BY <1>1, <1>2, <2>1
<1>6. t # <<>> => Head(t) = t[1]
    BY <1>2, HeadTailProperties
<1> HIDE DEF n, t
<1>7. Alternate(t)
  <2> SUFFICES ASSUME NEW i \in 1 .. Len(t)
               PROVE  /\ t[i] = "open" => i < Len(t) /\ t[i + 1] = "tables"
                      /\ t[i] = "tables" /\ i < Len(t) => t[i + 1] = "open"
    BY DEF Alternate
  <2> DEFINE j == i + 1
  <2>1. j \in 1 .. n /\ t[i] = u[j]
    BY <1>1, <1>2
  <2>2. i < n - 1 <=> j < n
    BY <1>1
  <2>3. j < n => i + 1 \in 1 .. n - 1 /\ t[i + 1] = u[j + 1]
    BY <1>1, <1>2
  <2> QED
    BY <1>2, <1>3, <2>1, <2>2, <2>3
<1>8. 1 < n => t[1] = u[2]
    BY <1>1, <1>2
<1>9. /\ u[1] = "open" => t # <<>> /\ Head(t) = "tables"
      /\ u[1] = "tables" /\ t # <<>> => Head(t) = "open"
  <2>1. n # 1 => 1 < n
    BY <1>1
  <2>2. 1 \in 1 .. n /\ 1 + 1 = 2 /\ ~(1 < 1)
    BY <1>1
  <2> QED
    BY <1>3, <1>5, <1>6, <1>8, <2>1, <2>2
<1> QED
    BY <1>1, <1>2, <1>4, <1>5, <1>7, <1>9 DEF n, t

LEMMA AlternateMore ==
    ASSUME NEW u \in Seq(Requests), Alternate(u)
    PROVE  LET v == u \o <<"open", "tables">>
           IN  /\ v \in Seq(Requests) /\ Alternate(v) /\ v # <<>> /\ Len(v) # 1
               /\ Head(v) = IF u = <<>> THEN "open" ELSE Head(u)
<1> DEFINE a == <<"open", "tables">>
           v == u \o a
           n == Len(u)
<1>1. a \in Seq(Requests) /\ Len(a) = 2 /\ a[1] = "open" /\ a[2] = "tables"
    BY DEF Requests
<1> HIDE DEF a
<1>2. n \in Nat
    BY LenProperties
<1>3. /\ v \in Seq(Requests) /\ Len(v) = n + 2
      /\ \A i \in 1 .. n + 2 : v[i] = IF i <= n THEN u[i] ELSE a[i - n]
  <2>1. /\ v \in Seq(Requests) /\ Len(v) = n + Len(a)
        /\ \A i \in 1 .. n + Len(a) : v[i] = IF i <= n THEN u[i] ELSE a[i - n]
    BY <1>1, ConcatProperties
  <2> HIDE DEF v, n
  <2> QED
    BY <1>1, <2>1
<1>4. /\ \A i \in 1 .. n : u[i] = "open" => i < n /\ u[i + 1] = "tables"
      /\ \A i \in 1 .. n : u[i] = "tables" /\ i < n => u[i + 1] = "open"
    BY DEF Alternate
<1>5. u # <<>> => Head(u) = u[1] /\ n # 0
    BY HeadTailProperties, EmptySeq
<1>6. u = <<>> => n = 0
    BY EmptySeq
<1>7. v # <<>> /\ Head(v) = v[1]
    BY <1>2, <1>3, HeadTailProperties, EmptySeq
<1> HIDE DEF v, n
<1>8. /\ \A i \in 1 .. n : v[i] = u[i]
      /\ v[n + 1] = "open" /\ v[n + 2] = "tables"
    BY <1>1, <1>2, <1>3
<1>9. Alternate(v)
  <2> SUFFICES ASSUME NEW i \in 1 .. n + 2
               PROVE  /\ v[i] = "open" => i < n + 2 /\ v[i + 1] = "tables"
                      /\ v[i] = "tables" /\ i < n + 2 => v[i + 1] = "open"
    BY <1>3 DEF Alternate
  <2>1. CASE i < n
    <3>1. i \in 1 .. n /\ i + 1 \in 1 .. n /\ i < n + 2
        BY <1>2, <2>1
    <3> QED
        BY <1>4, <1>8, <2>1, <3>1
  <2>2. CASE i = n
    <3>1. i \in 1 .. n /\ ~(i < n) /\ i + 1 = n + 1
        BY <1>2, <2>2
    <3> QED
        BY <1>4, <1>8, <3>1
  <2>3. CASE i = n + 1
    <3>1. i + 1 = n + 2 /\ i < n + 2
        BY <1>2, <2>3
    <3> QED
        BY <1>8, <2>3, <3>1
  <2>4. CASE i = n + 2
    <3>1. ~(i < n + 2)
        BY <1>2, <2>4
    <3> QED
        BY <1>8, <2>4, <3>1
  <2> QED
    BY <1>2, <2>1, <2>2, <2>3, <2>4
<1>10. v[1] = IF u = <<>> THEN "open" ELSE Head(u)
  <2>1. CASE u = <<>>
    BY <1>6, <1>8, <2>1
  <2>2. CASE u # <<>>
    <3>1. 1 \in 1 .. n
        BY <1>2, <1>5, <2>2
    <3> QED
        BY <1>5, <1>8, <2>2, <3>1
  <2> QED
    BY <2>1, <2>2
<1>11. Len(v) # 1
    BY <1>2, <1>3
<1> QED
    BY <1>3, <1>7, <1>9, <1>10, <1>11 DEF v, a

(* The request that SetInitialCache of CMasterPool sends.                  *)
LEMMA AlternateOne ==
    LET u == <<"tables">>
    IN  u \in Seq(Requests) /\ Alternate(u) /\ u # <<>> /\ Len(u) = 1 /\ Head(u) = "tables"
<1> DEFINE u == <<"tables">>
<1>1. u \in Seq(Requests) /\ u # <<>> /\ Len(u) = 1 /\ Head(u) = "tables" /\ u[1] = "tables"
    BY DEF Requests
<1> HIDE DEF u
<1>2. \A i \in 1 .. 1 : i = 1 /\ ~(i < 1)
    OBVIOUS
<1>3. Alternate(u)
    BY <1>1, <1>2 DEF Alternate
<1> QED
    BY <1>1, <1>3 DEF u

LEMMA AlternateNone == <<>> \in Seq(Requests) /\ Alternate(<<>>)
<1>1. <<>> \in Seq(Requests) /\ Len(<<>>) = 0 /\ \A i \in 1 .. 0 : FALSE
    BY EmptySeq
<1> QED
    BY <1>1 DEF Alternate

----------------------------------------------------------------------------
(* The client is yet to be asked to initialise, at most once.              *)
Asks(m) == m.id = "initialise"
Waiting(q) == \E i \in 1 .. Len(q) : Asks(q[i])
AtMostOne(q) == \A i, j \in 1 .. Len(q) : Asks(q[i]) /\ Asks(q[j]) => i = j

LEMMA WaitingNone == ~Waiting(<<>>) /\ AtMostOne(<<>>)
<1>1. Len(<<>>) = 0 /\ \A i \in 1 .. 0 : FALSE
    BY EmptySeq
<1> QED
    BY <1>1 DEF Waiting, AtMostOne

LEMMA WaitingConcat ==
    ASSUME NEW q \in Seq(Msgs), NEW r \in Seq(Msgs), \A i \in 1 .. Len(r) : ~Asks(r[i])
    PROVE  /\ Waiting(q \o r) <=> Waiting(q)
           /\ AtMostOne(q) => AtMostOne(q \o r)
<1> DEFINE n == Len(q)
           k == Len(r)
           s == q \o r
<1>1. /\ n \in Nat /\ k \in Nat /\ Len(s) = n + k
      /\ \A i \in 1 .. n + k : s[i] = IF i <= n THEN q[i] ELSE r[i - n]
    BY LenProperties, ConcatProperties
<1>2. \A i \in 1 .. k : ~Asks(r[i])
    OBVIOUS
<1> HIDE DEF n, k, s
<1>3. \A i \in 1 .. n + k : Asks(s[i]) => i \in 1 .. n /\ Asks(q[i])
  <2> SUFFICES ASSUME NEW i \in 1 .. n + k, Asks(s[i])
               PROVE  i \in 1 .. n /\ Asks(q[i])
    OBVIOUS
  <2>1. CASE i <= n
    BY <1>1, <2>1
  <2>2. CASE ~(i <= n)
    <3>1. i - n \in 1 .. k /\ s[i] = r[i - n]
        BY <1>1, <2>2
    <3> QED
        BY <1>2, <3>1
  <2> QED
    BY <2>1, <2>2
<1>4. \A i \in 1 .. n : i \in 1 .. n + k /\ s[i] = q[i]
    BY <1>1
<1>5. Waiting(s) <=> Waiting(q)
    BY <1>1, <1>3, <1>4 DEF Waiting, n
<1>6. AtMostOne(q) => AtMostOne(s)
    BY <1>1, <1>3 DEF AtMostOne, n
<1> QED
    BY <1>5, <1>6 DEF s

LEMMA WaitingAppend ==
    ASSUME NEW q \in Seq(Msgs), NEW m \in Msgs
    PROVE  /\ ~Asks(m) => (Waiting(Append(q, m)) <=> Waiting(q))
           /\ ~Asks(m) /\ AtMostOne(q) => AtMostOne(Append(q, m))
           /\ Asks(m) => Waiting(Append(q, m))
           /\ Waiting(q) => Waiting(Append(q, m))
           /\ Asks(m) /\ ~Waiting(q) => AtMostOne(Append(q, m))
<1> DEFINE n == Len(q)
           s == Append(q, m)
<1>1. /\ n \in Nat /\ Len(s) = n + 1 /\ s[n + 1] = m
      /\ \A i \in 1 .. n : s[i] = q[i]
    BY LenProperties, AppendProperties
<1> HIDE DEF n, s
<1>2. /\ 1 .. n + 1 = (1 .. n) \union {n + 1} /\ n + 1 \in 1 .. n + 1
      /\ \A i \in 1 .. n : i \in 1 .. n + 1
    BY <1>1
<1>3. /\ Waiting(s) <=> (Waiting(q) \/ Asks(m))
    BY <1>1, <1>2 DEF Waiting, n
<1>4. /\ ~Asks(m) /\ AtMostOne(q) => AtMostOne(s)
      /\ Asks(m) /\ ~Waiting(q) => AtMostOne(s)
    BY <1>1, <1>2 DEF Waiting, AtMostOne, n
<1> QED
    BY <1>3, <1>4 DEF s

LEMMA WaitingTail ==
    ASSUME NEW q \in Seq(Msgs), q # <<>>
    PROVE  /\ Tail(q) \in Seq(Msgs) /\ Head(q) \in Msgs
           /\ Waiting(q) <=> (Asks(Head(q)) \/ Waiting(Tail(q)))
           /\ AtMostOne(q) => AtMostOne(Tail(q))
           /\ AtMostOne(q) /\ Asks(Head(q)) => ~Waiting(Tail(q))
<1> DEFINE n == Len(q)
           t == Tail(q)
<1>1. /\ n \in Nat \ {0} /\ t \in Seq(Msgs) /\ Len(t) = n - 1 /\ Head(q) = q[1]
      /\ \A i \in 1 .. n - 1 : t[i] = q[i + 1]
    BY EmptySeq, HeadTailProperties
<1>2. Head(q) \in Msgs
    BY <1>1, ElementOfSeq
<1> HIDE DEF n, t
<1>3. /\ 1 \in 1 .. n /\ \A i \in 1 .. n - 1 : i + 1 \in 1 .. n /\ i + 1 # 1
      /\ \A i \in 1 .. n : i = 1 \/ (i - 1 \in 1 .. n - 1 /\ t[i - 1] = q[i])
      /\ \A i, j \in 1 .. n - 1 : i + 1 = j + 1 => i = j
    BY <1>1
<1>4. Waiting(q) <=> (Asks(Head(q)) \/ Waiting(t))
    BY <1>1, <1>3 DEF Waiting, n
<1>5. /\ AtMostOne(q) => AtMostOne(t)
      /\ AtMostOne(q) /\ Asks(Head(q)) => ~Waiting(t)
    BY <1>1, <1>3 DEF Waiting, AtMostOne, n
<1> QED
    BY <1>1, <1>2, <1>4, <1>5 DEF t

----------------------------------------------------------------------------
(* The client takes one message in each of its steps.                      *)
Bad(f) == IF f THEN 1 ELSE 0

LEMMA StIs ==
    /\ St = State(cache, mCache, meta, vData, blob, Bad(failed))
    /\ St.cache = cache /\ St.mCache = mCache /\ St.meta = meta
    /\ St.vData = vData /\ St.blob = blob /\ St.bad = Bad(failed)
BY DEF St, State, Bad

LEMMA ClientStep ==
    ASSUME ClientNext, failed \in BOOLEAN, down \in Seq(Msgs)
    PROVE  /\ conn = "up" /\ down # <<>> /\ down' = Tail(down)
           /\ St' = Step(St, Head(down))
           /\ up' = IF Asks(Head(down)) THEN up \o SetInitialCache ELSE up
           /\ UNCHANGED <<sql, conn, sub, reading, db>> /\ failed' \in BOOLEAN
<1> DEFINE m == Head(down)
           f == Bad(failed)
<1>2. St' = State(cache', mCache', meta', vData', blob', Bad(failed'))
    BY DEF St, Bad
<1>3. /\ conn = "up" /\ down # <<>> /\ down' = Tail(down)
      /\ UNCHANGED <<sql, conn, sub, reading, db>>
    BY DEF ClientNext, OnOpened, OnTable, OnTransferring, OnBLOB, OnRows, OnResult,
           OnPublish, Arrives, Taken
<1> HIDE DEF m
<1> DEFINE s == St
           z == State(cache', mCache', meta', vData', blob', Bad(failed'))
<1> SUFFICES /\ z = Step(s, m) /\ failed' \in BOOLEAN
             /\ up' = IF Asks(m) THEN up \o SetInitialCache ELSE up
    BY <1>2, <1>3 DEF m
<1>1. /\ s.cache = cache /\ s.mCache = mCache /\ s.meta = meta
      /\ s.vData = vData /\ s.blob = blob /\ s.bad = f
    BY StIs
<1> HIDE DEF s
<1>4. CASE OnOpened
  <2>1. /\ m.id \in {"opened", "not opened"} /\ UNCHANGED <<cache, meta, vData, blob, up, failed>>
        /\ mCache' = IF m.id = "opened" THEN <<>> ELSE mCache
    BY <1>4 DEF OnOpened, Arrives, m
  <2>2. ~Asks(m) /\ Bad(failed') = f /\ failed' \in BOOLEAN
    BY <2>1 DEF Asks
  <2> HIDE DEF f
  <2>3. CASE m.id = "opened"
    <3>1. Step(s, m) = State(cache, <<>>, meta, vData, blob, f)
      <4>1. Step(s, m) = State(s.cache, <<>>, s.meta, s.vData, s.blob, s.bad)
        BY <2>3, StepIs
      <4> QED
        BY <1>1, <4>1
    <3> QED
        BY <2>1, <2>2, <2>3, <3>1
  <2>4. CASE m.id = "not opened"
    <3>1. Step(s, m) = s /\ s = State(cache, mCache, meta, vData, blob, f)
        BY <2>4, StepIs, StIs DEF f, s
    <3> QED
        BY <2>1, <2>2, <2>4, <3>1
  <2> QED
    BY <2>1, <2>3, <2>4
<1>5. CASE OnTable
  <2>1. /\ m.id = "idRowsetHeader" /\ UNCHANGED <<cache, up, failed>>
        /\ mCache' = AddEmptyRowset(mCache, m.name) /\ meta' = m.name
        /\ vData' = <<>> /\ blob' = <<>>
    BY <1>5 DEF OnTable, Arrives, m
  <2>2. ~Asks(m) /\ Bad(failed') = f /\ failed' \in BOOLEAN
    BY <2>1 DEF Asks
  <2> HIDE DEF f
  <2>3. Step(s, m) = State(cache, AddEmptyRowset(mCache, m.name), m.name, <<>>, <<>>, f)
    <3>1. Step(s, m) = State(s.cache, AddEmptyRowset(s.mCache, m.name), m.name, <<>>, <<>>, s.bad)
      BY <2>1, StepIs
    <3> QED
      BY <1>1, <3>1
  <2> QED
    BY <2>1, <2>2, <2>3
<1>6. CASE OnTransferring
  <2>1. /\ m.id = "idTransferring" /\ UNCHANGED <<cache, mCache, meta, blob, up, failed>>
        /\ vData' = vData \o m.cells
    BY <1>6 DEF OnTransferring, Arrives, m
  <2>2. ~Asks(m) /\ Bad(failed') = f /\ failed' \in BOOLEAN
    BY <2>1 DEF Asks
  <2> HIDE DEF f
  <2>3. Step(s, m) = State(cache, mCache, meta, vData \o m.cells, blob, f)
    <3>1. Step(s, m) = State(s.cache, s.mCache, s.meta, s.vData \o m.cells, s.blob, s.bad)
      BY <2>1, StepIs
    <3> QED
      BY <1>1, <3>1
  <2> QED
    BY <2>1, <2>2, <2>3
<1>7. CASE OnBLOB
  <2>1. /\ m.id \in {"idStartBLOB", "idEndBLOB"}
        /\ UNCHANGED <<cache, mCache, meta, up, failed>>
        /\ m.id = "idStartBLOB" => blob' = m.cells /\ vData' = vData
        /\ m.id # "idStartBLOB" => blob' = <<>> /\ vData' = vData \o blob
    BY <1>7 DEF OnBLOB, Arrives, m
  <2>2. ~Asks(m) /\ Bad(failed') = f /\ failed' \in BOOLEAN
    BY <2>1 DEF Asks
  <2> HIDE DEF f
  <2>3. CASE m.id = "idStartBLOB"
    <3>1. Step(s, m) = State(cache, mCache, meta, vData, m.cells, f)
      <4>1. Step(s, m) = State(s.cache, s.mCache, s.meta, s.vData, m.cells, s.bad)
        BY <2>3, StepIs
      <4> QED
        BY <1>1, <4>1
    <3> QED
        BY <2>1, <2>2, <2>3, <3>1
  <2>4. CASE m.id = "idEndBLOB"
    <3>1. Step(s, m) = State(cache, mCache, meta, vData \o blob, <<>>, f)
      <4>1. Step(s, m) = State(s.cache, s.mCache, s.meta, s.vData \o s.blob, <<>>, s.bad)
        BY <2>4, StepIs
      <4> QED
        BY <1>1, <4>1
    <3> QED
        BY <2>1, <2>2, <2>4, <3>1
  <2> QED
    BY <2>1, <2>3, <2>4
<1>8. CASE OnRows
  <2>1. /\ m.id = "idEndRows" /\ UNCHANGED <<cache, meta, blob, up, failed>>
        /\ mCache' = AddRows(mCache, meta, vData \o m.cells) /\ vData' = <<>>
    BY <1>8 DEF OnRows, Arrives, m
  <2>2. ~Asks(m) /\ Bad(failed') = f /\ failed' \in BOOLEAN
    BY <2>1 DEF Asks
  <2> HIDE DEF f
  <2>3. Step(s, m) = State(cache, AddRows(mCache, meta, vData \o m.cells), meta, <<>>, blob, f)
    <3>1. Step(s, m) = State(s.cache, AddRows(s.mCache, s.meta, s.vData \o m.cells), s.meta, <<>>, s.blob, s.bad)
      BY <2>1, StepIs
    <3> QED
      BY <1>1, <3>1
  <2> QED
    BY <2>1, <2>2, <2>3
<1>9. CASE OnResult
  <2>1. /\ m.id \in {"result", "failure"} /\ UNCHANGED <<meta, vData, blob, up>>
        /\ m.id = "result" => cache' = mCache /\ mCache' = cache /\ failed' = FALSE
        /\ m.id # "result" => cache' = cache /\ mCache' = mCache /\ failed' = TRUE
    BY <1>9 DEF OnResult, Arrives, m
  <2>2. ~Asks(m) /\ failed' \in BOOLEAN
    BY <2>1 DEF Asks
  <2>3. CASE m.id = "result"
    <3>1. Step(s, m) = State(mCache, cache, meta, vData, blob, 0)
      <4>1. Step(s, m) = State(s.mCache, s.cache, s.meta, s.vData, s.blob, 0)
        BY <2>3, StepIs
      <4> QED
        BY <1>1, <4>1
    <3>2. Bad(failed') = 0
        BY <2>1, <2>3 DEF Bad
    <3> QED
        BY <2>1, <2>2, <2>3, <3>1, <3>2
  <2>4. CASE m.id = "failure"
    <3>1. Step(s, m) = State(cache, mCache, meta, vData, blob, 1)
      <4>1. Step(s, m) = State(s.cache, s.mCache, s.meta, s.vData, s.blob, 1)
        BY <2>4, StepIs
      <4> QED
        BY <1>1, <4>1
    <3>2. Bad(failed') = 1
        BY <2>1, <2>4 DEF Bad
    <3> QED
        BY <2>1, <2>2, <2>4, <3>1, <3>2
  <2> QED
    BY <2>1, <2>3, <2>4
<1>10. CASE OnPublish
  <2>1. /\ m.id \in Events \union {"initialise"} /\ UNCHANGED <<mCache, meta, vData, blob>>
        /\ m.id \in Events => cache' = Published(cache, m)
        /\ m.id \notin Events => cache' = cache
        /\ up' = IF m.id = "initialise" THEN up \o SetInitialCache ELSE up
        /\ failed' = IF m.id = "initialise" THEN FALSE ELSE failed
    BY <1>10 DEF OnPublish, Arrives, m, Events, Published
  <2>2. up' = IF Asks(m) THEN up \o SetInitialCache ELSE up
    BY <2>1 DEF Asks
  <2>3. failed' \in BOOLEAN
    BY <2>1
  <2>4. CASE m.id = "initialise"
    <3>1. Step(s, m) = State(cache, mCache, meta, vData, blob, 0)
      <4>1. Step(s, m) = State(s.cache, s.mCache, s.meta, s.vData, s.blob, 0)
        BY <2>4, StepIs
      <4> QED
        BY <1>1, <4>1
    <3>2. Bad(failed') = 0 /\ cache' = cache
        BY <2>1, <2>4 DEF Bad, Events
    <3> QED
        BY <2>1, <2>2, <2>3, <3>1, <3>2
  <2>5. CASE m.id \in Events
    <3>1. Step(s, m) = State(Published(cache, m), mCache, meta, vData, blob, f)
      <4>1. Step(s, m) = State(Published(s.cache, m), s.mCache, s.meta, s.vData, s.blob, s.bad)
        BY <2>5, StepIs
      <4> QED
        BY <1>1, <4>1
    <3>2. Bad(failed') = f /\ cache' = Published(cache, m)
        BY <2>1, <2>5 DEF Events
    <3> QED
        BY <2>1, <2>2, <2>3, <3>1, <3>2
  <2> QED
    BY <2>1, <2>4, <2>5
<1> QED
    BY <1>4, <1>5, <1>6, <1>7, <1>8, <1>9, <1>10 DEF ClientNext

(* Only a result exchanges the tables, and it finds all of them.           *)
LEMMA StepWhole ==
    ASSUME NEW s \in States, NEW m \in Msgs, Fit(s, m), Names(s.cache) \in {<<>>, Tables}
    PROVE  Names(Step(s, m).cache) \in {<<>>, Tables}
<1>1. s.cache \in Sets /\ m.id \in MsgIds
    BY StatesOf DEF Msgs
<1>2. CASE m.id = "result"
  <2>1. Step(s, m) = State(s.mCache, s.cache, s.meta, s.vData, s.blob, 0)
    BY <1>2, StepIs
  <2>2. Step(s, m).cache = s.mCache
    BY <2>1 DEF State
  <2> QED
    BY <1>2, <2>2 DEF Fit
<1>3. CASE m.id \in Events
  <2>1. Step(s, m) = State(Published(s.cache, m), s.mCache, s.meta, s.vData, s.blob, s.bad)
    BY <1>3, StepIs
  <2>2. Step(s, m).cache = Published(s.cache, m)
    BY <2>1 DEF State
  <2> QED
    BY <1>1, <2>2, PublishedType
<1>4. CASE m.id \in MsgIds \ (Events \union {"result"})
  <2>1. m.id \in {"opened", "not opened", "idRowsetHeader", "idTransferring",
                  "idStartBLOB", "idEndBLOB", "idEndRows", "failure", "initialise"}
    BY <1>4 DEF MsgIds
  <2>2. Step(s, m).cache = s.cache
    BY <2>1 DEF Step, State, Events
  <2> QED
    BY <2>2
<1> QED
    BY <1>1, <1>2, <1>3, <1>4

----------------------------------------------------------------------------
(* The inductive invariant.  Its heart is the state e in which the client  *)
(* will be when it has taken all that was sent to it: what the server has  *)
(* sent so far fits what it is at (CollectsTables), and what it has sent   *)
(* since the last request to initialise is the database (Fresh).           *)
GoodDatabase(d) ==
    /\ d \in [Table -> SUBSET Row]
    /\ \A t \in Table : IsFiniteSet(d[t]) /\ Keyed(d[t])

Types ==
    /\ sql \in BOOLEAN /\ sub \in BOOLEAN /\ failed \in BOOLEAN
    /\ conn \in {"up", "down"}
    /\ down \in Seq(Msgs) /\ up \in Seq(Requests)
    /\ reading \in 0 .. Len(Tables) + 1
    /\ GoodDatabase(db)

Shape ==
    /\ Alternate(up)
    /\ reading > 0 => up # <<>> /\ Head(up) = "tables"
    /\ ~sql => /\ up \in {<<>>, <<"tables">>}
               /\ AtMostOne(down)
               /\ Waiting(down) => up = <<>>
    /\ conn = "down" => up = <<>> /\ down = <<>> /\ ~sub

First(n) == [i \in 1 .. n |-> Tables[i]]

CollectsTables(e, q, u, n, sq) ==
    /\ n > 0 => Names(e.mCache) = First(n - 1)
    /\ n = 0 /\ u # <<>> /\ Head(u) = "tables" => e.mCache = <<>>
    /\ ~sq /\ Waiting(q) => e.mCache = <<>>

Fresh(e, q, u, n, sb, d) ==
    /\ n > 0 /\ Len(u) = 1 /\ ~Waiting(q) =>
         \A j \in 1 .. n - 1 : Matches(e.mCache[j].rows, d[Tables[j]])
    /\ sb /\ n = 0 /\ u = <<>> /\ ~Waiting(q) /\ e.bad = 0 => Mirrors(e.cache, d)

End(e, s, q, u, n, sq, sb, d) ==
    /\ Leads(s, q, e)
    /\ CollectsTables(e, q, u, n, sq)
    /\ QuietSnapshot => Fresh(e, q, u, n, sb, d)

IInv ==
    /\ Types /\ Shape
    /\ Names(cache) \in {<<>>, Tables}
    /\ \E e : End(e, St, down, up, reading, sql, sub, db)

LEMMA EndTypes ==
    ASSUME Types, NEW e, Leads(St, down, e)
    PROVE  /\ St \in States /\ e \in States
           /\ cache \in Sets /\ mCache \in Sets
<1>1. St \in States /\ e \in States
    BY LeadsStates DEF Types
<1> QED
    BY <1>1, StatesOf, StIs

LEMMA NamesNone == Names(<<>>) = <<>> /\ First(0) = <<>> /\ <<>> \in Sets
<1>1. Len(<<>>) = 0 /\ <<>> \in Sets
    BY EmptySeq DEF Sets
<1>2. 1 .. 0 = {}
    OBVIOUS
<1>3. Names(<<>>) = [i \in {} |-> <<>>[i].name] /\ First(0) = [i \in {} |-> Tables[i]]
    BY <1>1, <1>2 DEF Names, First
<1>4. <<>> = [i \in {} |-> <<>>[i].name] /\ <<>> = [i \in {} |-> Tables[i]]
    OBVIOUS
<1> QED
    BY <1>1, <1>3, <1>4

LEMMA GoodChange ==
    ASSUME NEW d, GoodDatabase(d), NEW t \in Table, NEW S \in SUBSET Row,
           IsFiniteSet(S), Keyed(S)
    PROVE  GoodDatabase([d EXCEPT ![t] = S])
<1> DEFINE f == [d EXCEPT ![t] = S]
<1>1. /\ f \in [Table -> SUBSET Row] /\ f[t] = S
      /\ \A x \in Table : x # t => f[x] = d[x]
    BY DEF GoodDatabase
<1> HIDE DEF f
<1>2. GoodDatabase(f)
    BY <1>1 DEF GoodDatabase
<1> QED
    BY <1>2 DEF f

LEMMA InitIInv == Init => IInv
<1> SUFFICES ASSUME Init
             PROVE  IInv
    OBVIOUS
<1> DEFINE e == <<>>
<1>1. /\ cache = e /\ mCache = e /\ meta = Tables[1] /\ vData = e /\ blob = e
      /\ conn = "down" /\ up = e /\ down = e /\ sub = FALSE /\ reading = 0
      /\ failed = FALSE /\ sql \in Kinds /\ db \in Databases
    BY DEF Init
<1>2. /\ e \in Sets /\ e \in Cells /\ e \in Seq(Msgs) /\ Tables[1] \in Table
      /\ Bad(FALSE) = 0
    BY EmptySeq, TablesKnown DEF Sets, Cells, Bad
<1>3. ~Waiting(e) /\ AtMostOne(e) /\ e \in Seq(Requests) /\ Alternate(e) /\ Names(e) = e
    BY WaitingNone, AlternateNone, NamesNone
<1> HIDE DEF e
<1>4. St \in States
    BY <1>1, <1>2, StIs, StateType
<1>5. Leads(St, down, St)
    BY <1>1, <1>4, LeadsNone DEF e
<1>6. GoodDatabase(db)
    BY <1>1, ConstantsAssumption DEF GoodDatabase, Keyed
<1>7. Types
  <2>1. Len(Tables) \in Nat /\ 0 \in 0 .. Len(Tables) + 1
    BY TablesKnown
  <2>2. sql \in BOOLEAN
    BY <1>1, ConstantsAssumption
  <2> QED
    BY <1>1, <1>2, <1>3, <1>6, <2>1, <2>2 DEF Types
<1>8. Shape
    BY <1>1, <1>3 DEF Shape, e
<1>9. End(St, St, down, up, reading, sql, sub, db)
  <2>1. CollectsTables(St, down, up, reading, sql)
    BY <1>1, <1>3 DEF CollectsTables, e
  <2>2. Fresh(St, down, up, reading, sub, db)
    BY <1>1 DEF Fresh
  <2> QED
    BY <1>5, <2>1, <2>2 DEF End
<1> QED
    BY <1>1, <1>3, <1>7, <1>8, <1>9 DEF IInv, e

----------------------------------------------------------------------------
(* The session and its server.                                             *)
LEMMA ConnectKeeps ==
    ASSUME IInv, OnConnected
    PROVE  IInv'
<1> DEFINE e == <<>>
           z == St'
<1>1. PICK f : End(f, St, down, up, reading, sql, sub, db)
    BY DEF IInv
<1>2. Types /\ Shape /\ Leads(St, down, f) /\ Names(cache) \in {<<>>, Tables}
    BY <1>1 DEF IInv, End
<1>3. /\ conn = "down" /\ conn' = "up" /\ mCache' = (IF sql THEN mCache ELSE e)
      /\ up' = SetInitialCache /\ failed' = FALSE
      /\ UNCHANGED <<sql, cache, meta, vData, blob, down, sub, reading, db>>
    BY DEF OnConnected
<1>4. up = e /\ down = e /\ ~sub /\ reading = 0
  <2>1. up = e /\ down = e /\ ~sub
    BY <1>2, <1>3 DEF Shape
  <2>2. ~(reading > 0) /\ reading \in Nat
    BY <1>2, <2>1, TablesKnown DEF Shape, Types
  <2> QED
    BY <2>1, <2>2
<1>5. e \in Sets /\ Names(e) = e /\ ~Waiting(e) /\ AtMostOne(e)
    BY NamesNone, WaitingNone
<1>6. z \in States /\ z.mCache = mCache'
  <2>1. z = State(cache, mCache', meta, vData, blob, 0)
    BY <1>3 DEF St
  <2>2. St \in States
    BY <1>2, EndTypes
  <2>3. /\ cache \in Sets /\ mCache \in Sets /\ meta \in Table
        /\ vData \in Cells /\ blob \in Cells
    BY <2>2, StatesOf, StIs
  <2>4. mCache' \in Sets /\ 0 \in {0, 1}
    BY <1>3, <1>5, <2>3
  <2> QED
    BY <2>1, <2>3, <2>4, StateType
<1> HIDE DEF z
<1>7. Leads(z, e, z)
    BY <1>6, LeadsNone
<1>8. /\ up' \in Seq(Requests) /\ Alternate(up') /\ up' # e
      /\ sql => Head(up') = "open"
      /\ ~sql => up' = <<"tables">>
  <2>1. CASE sql
    <3> DEFINE a == <<"open", "tables">>
               u == e \o a
    <3>1. up' = a
        BY <1>3, <2>1 DEF SetInitialCache
    <3>2. a \in Seq(Requests)
        BY DEF Requests
    <3> HIDE DEF a
    <3>3. u = a
        BY <3>2, ConcatEmpty
    <3>4. u \in Seq(Requests) /\ Alternate(u) /\ u # e /\ Head(u) = "open"
        BY AlternateNone, AlternateMore DEF a
    <3> HIDE DEF u
    <3> QED
        BY <2>1, <3>1, <3>3, <3>4
  <2>2. CASE ~sql
    <3>1. up' = <<"tables">>
        BY <1>3, <2>2 DEF SetInitialCache
    <3> QED
        BY <2>2, <3>1, AlternateOne
  <2> QED
    BY <2>1, <2>2
<1> HIDE DEF e
<1>9. Types'
    BY <1>2, <1>3, <1>8 DEF Types
<1>10. Shape'
    BY <1>3, <1>4, <1>5, <1>8 DEF Shape, e
<1>11. Names(cache') \in {<<>>, Tables}
    BY <1>2, <1>3
<1>12. CollectsTables(z, down', up', reading', sql')
    BY <1>3, <1>4, <1>5, <1>6, <1>8 DEF CollectsTables, e
<1>13. Fresh(z, down', up', reading', sub', db')
    BY <1>3, <1>4 DEF Fresh
<1>14. End(z, St', down', up', reading', sql', sub', db')
  <2>1. Leads(St', down', z)
    BY <1>3, <1>4, <1>7 DEF z
  <2> QED
    BY <1>12, <1>13, <2>1 DEF End
<1> QED
    BY <1>9, <1>10, <1>11, <1>14 DEF IInv

LEMMA BreakKeeps ==
    ASSUME IInv, Break
    PROVE  IInv'
<1> DEFINE e == <<>>
           z == St
<1>1. PICK f : End(f, St, down, up, reading, sql, sub, db)
    BY DEF IInv
<1>2. Types /\ Shape /\ Leads(St, down, f) /\ Names(cache) \in {<<>>, Tables}
    BY <1>1 DEF IInv, End
<1>3. /\ conn' = "down" /\ up' = e /\ down' = e /\ sub' = FALSE /\ reading' = 0
      /\ UNCHANGED <<sql, db, failed, cache, mCache, meta, vData, blob>>
    BY DEF Break, clientVars
<1>4. z \in States /\ St' = z
    BY <1>2, <1>3, EndTypes DEF St
<1>5. ~Waiting(e) /\ AtMostOne(e) /\ Alternate(e) /\ e \in Seq(Requests) /\ e \in Seq(Msgs)
    BY WaitingNone, AlternateNone, EmptySeq
<1>6. Leads(z, e, z)
    BY <1>4, LeadsNone
<1> HIDE DEF e, z
<1>7. Types'
  <2>1. 0 \in 0 .. Len(Tables) + 1
    BY TablesKnown
  <2> QED
    BY <1>2, <1>3, <1>5, <2>1 DEF Types
<1>8. Shape'
    BY <1>3, <1>5 DEF Shape, e
<1>9. Names(cache') \in {<<>>, Tables}
    BY <1>2, <1>3
<1>10. CollectsTables(z, down', up', reading', sql')
    BY <1>3, <1>5 DEF CollectsTables, e
<1>11. Fresh(z, down', up', reading', sub', db')
    BY <1>3 DEF Fresh
<1>12. End(z, St', down', up', reading', sql', sub', db')
    BY <1>3, <1>4, <1>6, <1>10, <1>11 DEF End
<1> QED
    BY <1>7, <1>8, <1>9, <1>12 DEF IInv

LEMMA PlainMsg ==
    ASSUME NEW id \in MsgIds, id # "update"
    PROVE  /\ Msg(id, Tables[1], <<>>) \in Msgs
           /\ Msg(id, Tables[1], <<>>).id = id
<1>1. <<>> \in Cells /\ Tables[1] \in Table
    BY EmptySeq, TablesKnown DEF Cells
<1> QED
    BY <1>1 DEF Msg, Msgs

(* What the answers of the server do to the client.                        *)
LEMMA AnswerIs ==
    ASSUME NEW s \in States, NEW m \in Msgs
    PROVE  /\ m.id = "opened" => Step(s, m).mCache = <<>>
           /\ m.id = "not opened" => Step(s, m) = s
           /\ m.id = "failure" => Step(s, m).mCache = s.mCache /\ Step(s, m).bad = 1
           /\ m.id = "result" => Step(s, m).cache = s.mCache
           /\ m.id = "initialise" => Step(s, m).mCache = s.mCache
           /\ m.id \in Events => /\ Step(s, m).mCache = s.mCache /\ Step(s, m).bad = s.bad
                                 /\ Step(s, m).cache = Published(s.cache, m)
<1>1. CASE m.id = "opened"
  <2>1. Step(s, m) = State(s.cache, <<>>, s.meta, s.vData, s.blob, s.bad)
    BY <1>1, StepIs
  <2> QED
    BY <1>1, <2>1 DEF State, Events
<1>2. CASE m.id = "not opened"
  <2>1. Step(s, m) = s
    BY <1>2, StepIs
  <2> QED
    BY <1>2, <2>1 DEF Events
<1>3. CASE m.id = "failure"
  <2>1. Step(s, m) = State(s.cache, s.mCache, s.meta, s.vData, s.blob, 1)
    BY <1>3, StepIs
  <2> QED
    BY <1>3, <2>1 DEF State, Events
<1>4. CASE m.id = "result"
  <2>1. Step(s, m) = State(s.mCache, s.cache, s.meta, s.vData, s.blob, 0)
    BY <1>4, StepIs
  <2> QED
    BY <1>4, <2>1 DEF State, Events
<1>5. CASE m.id = "initialise"
  <2>1. Step(s, m) = State(s.cache, s.mCache, s.meta, s.vData, s.blob, 0)
    BY <1>5, StepIs
  <2> QED
    BY <1>5, <2>1 DEF State, Events
<1>6. CASE m.id \in Events
  <2>1. Step(s, m) = State(Published(s.cache, m), s.mCache, s.meta, s.vData, s.blob,
                           s.bad)
    BY <1>6, StepIs
  <2>2. m.id \notin {"opened", "not opened", "failure", "result", "initialise"}
    BY <1>6 DEF Events
  <2>3. /\ Step(s, m).mCache = s.mCache /\ Step(s, m).bad = s.bad
        /\ Step(s, m).cache = Published(s.cache, m)
    BY <2>1 DEF State
  <2> QED
    BY <2>2, <2>3
<1> QED
    BY <1>1, <1>2, <1>3, <1>4, <1>5, <1>6

LEMMA ServeOpenKeeps ==
    ASSUME IInv, ServeOpen
    PROVE  IInv'
<1>1. PICK e : End(e, St, down, up, reading, sql, sub, db)
    BY DEF IInv
<1>2. /\ Types /\ Shape /\ Leads(St, down, e) /\ Names(cache) \in {<<>>, Tables}
      /\ CollectsTables(e, down, up, reading, sql)
    BY <1>1 DEF IInv, End
<1>3. e \in States /\ down \in Seq(Msgs) /\ up \in Seq(Requests) /\ Alternate(up)
    BY <1>2, EndTypes DEF Types, Shape
<1>4. /\ reading = 0 /\ up # <<>> /\ Head(up) = "open"
      /\ UNCHANGED <<sql, conn, reading, db, failed, cache, mCache, meta, vData, blob>>
    BY DEF ServeOpen, clientVars
<1>5. St' = St
    BY <1>4 DEF St
<1>6. sql /\ conn # "down"
  <2>1. Head(<<"tables">>) = "tables"
    OBVIOUS
  <2> QED
    BY <1>2, <1>4, <2>1 DEF Shape, Types
<1>7. /\ Tail(up) \in Seq(Requests) /\ Alternate(Tail(up)) /\ Tail(up) # <<>>
      /\ Head(Tail(up)) = "tables"
    BY <1>3, <1>4, AlternateTail
<1>8. Names(cache') \in {<<>>, Tables}
    BY <1>2, <1>4
<1>9. CASE /\ sub' = TRUE /\ up' = Tail(up)
           /\ down' = Append(down, Msg("opened", Tables[1], <<>>))
  <2> DEFINE m == Msg("opened", Tables[1], <<>>)
             z == Step(e, m)
  <2>1. m \in Msgs /\ m.id = "opened"
    BY PlainMsg DEF MsgIds
  <2>2. down' = Append(down, m)
    BY <1>9
  <2> HIDE DEF m
  <2>3. Fit(e, m) /\ z.mCache = <<>>
    BY <1>3, <2>1, AnswerIs DEF Fit
  <2>4. Leads(St, down', z)
    BY <1>2, <1>3, <2>1, <2>2, <2>3, LeadsAppend
  <2>5. down' \in Seq(Msgs)
    BY <1>3, <2>1, <2>2, AppendProperties
  <2> HIDE DEF z
  <2>6. Types'
    BY <1>2, <1>4, <1>7, <1>9, <2>5 DEF Types
  <2>7. Shape'
    BY <1>4, <1>6, <1>7, <1>9 DEF Shape
  <2>8. CollectsTables(z, down', up', reading', sql')
    BY <1>4, <1>6, <2>3 DEF CollectsTables
  <2>9. Fresh(z, down', up', reading', sub', db')
    BY <1>4, <1>7, <1>9 DEF Fresh
  <2>10. End(z, St', down', up', reading', sql', sub', db')
    BY <1>5, <2>4, <2>8, <2>9 DEF End
  <2> QED
    BY <1>8, <2>6, <2>7, <2>10 DEF IInv
<1>10. CASE /\ sub' = sub /\ up' = Tail(Tail(up))
            /\ down' = down \o <<Msg("not opened", Tables[1], <<>>),
                                Msg("failure", Tables[1], <<>>)>>
  <2> DEFINE m == Msg("not opened", Tables[1], <<>>)
             k == Msg("failure", Tables[1], <<>>)
             q == Append(down, m)
             z == Step(e, k)
  <2>1. m \in Msgs /\ m.id = "not opened" /\ k \in Msgs /\ k.id = "failure"
    BY PlainMsg DEF MsgIds
  <2>2. down' = down \o <<m, k>>
    BY <1>10
  <2> HIDE DEF m, k
  <2>3. down' = Append(q, k)
    <3> DEFINE S == Msgs
    <3>1. down \in Seq(S) /\ m \in S /\ k \in S
        BY <1>3, <2>1
    <3> HIDE DEF S
    <3>2. down \o <<m, k>> = Append(Append(down, m), k)
        BY <3>1
    <3> QED
        BY <2>2, <3>2
  <2>4. Fit(e, m) /\ Fit(e, k) /\ Step(e, m) = e /\ z.bad = 1
    BY <1>3, <2>1, AnswerIs DEF Fit
  <2>5. q \in Seq(Msgs) /\ Leads(St, q, e)
    BY <1>2, <1>3, <2>1, <2>4, LeadsAppend, AppendProperties
  <2> HIDE DEF q
  <2>6. Leads(St, down', z)
    BY <1>3, <2>1, <2>3, <2>4, <2>5, LeadsAppend
  <2>7. down' \in Seq(Msgs)
    BY <2>1, <2>3, <2>5, AppendProperties
  <2> HIDE DEF z
  <2>8. /\ up' \in Seq(Requests) /\ Alternate(up')
        /\ up' # <<>> => Head(up') = "open"
    BY <1>7, <1>10, AlternateTail
  <2>9. Types'
    BY <1>2, <1>4, <1>10, <2>7, <2>8 DEF Types
  <2>10. Shape'
    BY <1>4, <1>6, <2>8 DEF Shape
  <2>11. CollectsTables(z, down', up', reading', sql')
    BY <1>4, <1>6, <2>8 DEF CollectsTables
  <2>12. Fresh(z, down', up', reading', sub', db')
    BY <1>4, <2>4 DEF Fresh
  <2>13. End(z, St', down', up', reading', sql', sub', db')
    BY <1>5, <2>6, <2>11, <2>12 DEF End
  <2> QED
    BY <1>8, <2>9, <2>10, <2>13 DEF IInv
<1> QED
    BY <1>9, <1>10 DEF ServeOpen

LEMMA ServeTablesKeeps ==
    ASSUME IInv, ServeTables
    PROVE  IInv'
<1>1. PICK e : End(e, St, down, up, reading, sql, sub, db)
    BY DEF IInv
<1>2. /\ Types /\ Shape /\ Leads(St, down, e) /\ Names(cache) \in {<<>>, Tables}
      /\ CollectsTables(e, down, up, reading, sql)
    BY <1>1 DEF IInv, End
<1>3. /\ reading = 0 /\ up # <<>> /\ Head(up) = "tables" /\ sub' = TRUE /\ reading' = 1
      /\ UNCHANGED <<sql, conn, up, down, db, failed, cache, mCache, meta, vData, blob>>
    BY DEF ServeTables, clientVars
<1>4. St' = St
    BY <1>3 DEF St
<1>5. e.mCache = <<>> /\ conn # "down"
    BY <1>2, <1>3 DEF CollectsTables, Shape
<1>6. Types'
  <2>1. 1 \in 0 .. Len(Tables) + 1
    BY TablesKnown
  <2> QED
    BY <1>2, <1>3, <2>1 DEF Types
<1>7. Shape'
    BY <1>2, <1>3, <1>5 DEF Shape
<1>8. CollectsTables(e, down', up', reading', sql')
  <2>1. 1 - 1 = 0 /\ 1 # 0
    OBVIOUS
  <2> QED
    BY <1>3, <1>5, <2>1, NamesNone DEF CollectsTables
<1>9. Fresh(e, down', up', reading', sub', db')
  <2>1. 1 # 0 /\ \A j \in 1 .. 1 - 1 : FALSE
    OBVIOUS
  <2> QED
    BY <1>3, <2>1 DEF Fresh
<1>10. End(e, St', down', up', reading', sql', sub', db')
    BY <1>2, <1>3, <1>4, <1>8, <1>9 DEF End
<1> QED
    BY <1>2, <1>3, <1>6, <1>7, <1>10 DEF IInv

(* The tables that the client has collected, and one more.                 *)
LEMMA NamesNext ==
    ASSUME NEW ds \in Sets, NEW n \in 1 .. Len(Tables), Names(ds) = First(n - 1),
           NEW rows \in Seq(Pair)
    PROVE  LET x == Append(ds, [name |-> Tables[n], rows |-> rows])
           IN  /\ \A i \in 1 .. Len(ds) : ds[i].name # Tables[n]
               /\ Names(x) = First(n)
               /\ \A j \in 1 .. n - 1 : x[j] = ds[j]
               /\ x[n].rows = rows
<1> DEFINE a == [name |-> Tables[n], rows |-> rows]
           x == Append(ds, a)
           k == Len(ds)
<1>1. Len(Tables) \in Nat /\ n \in Nat /\ Tables[n] \in Table
    BY TablesKnown
<1>2. a \in NamedTable /\ a.name = Tables[n] /\ a.rows = rows
    BY <1>1 DEF NamedTable
<1> HIDE DEF a
<1>3. /\ k \in Nat /\ x \in Sets /\ Len(x) = k + 1 /\ x[k + 1] = a
      /\ \A i \in 1 .. k : x[i] = ds[i]
    BY <1>2, AppendProperties, LenProperties DEF Sets
<1> HIDE DEF x
<1>4. k = n - 1 /\ \A i \in 1 .. k : ds[i].name = Tables[i]
  <2>1. First(n - 1) \in [1 .. n - 1 -> Table]
    BY <1>1, TablesKnown DEF First
  <2>2. Len(First(n - 1)) = n - 1
    BY <1>1, <2>1, FunctionIsSeq
  <2>3. k = n - 1
    BY <2>2, NamesLen
  <2>4. \A i \in 1 .. n - 1 : First(n - 1)[i] = Tables[i]
    BY DEF First
  <2> QED
    BY <2>3, <2>4, NamesLen
<1> HIDE DEF k
<1>5. \A i \in 1 .. k : ds[i].name # Tables[n]
  <2> SUFFICES ASSUME NEW i \in 1 .. k
               PROVE  Tables[i] # Tables[n]
    BY <1>4
  <2>1. i \in 1 .. Len(Tables) /\ i # n
    BY <1>1, <1>4
  <2> QED
    BY <2>1, TablesKnown
<1>6. Names(x) = First(n)
  <2>1. \A i \in 1 .. n : x[i].name = Tables[i]
    <3> SUFFICES ASSUME NEW i \in 1 .. n
                 PROVE  x[i].name = Tables[i]
        OBVIOUS
    <3>1. CASE i = n
        <4>1. i = k + 1
            BY <1>1, <1>4, <3>1
        <4> QED
            BY <1>2, <1>3, <3>1, <4>1
    <3>2. CASE i # n
        <4>1. i \in 1 .. k
            BY <1>1, <1>4, <3>2
        <4> QED
            BY <1>3, <1>4, <4>1
    <3> QED
        BY <3>1, <3>2
  <2>2. Len(x) = n
    BY <1>1, <1>3, <1>4
  <2> QED
    BY <2>1, <2>2 DEF Names, First
<1>7. /\ \A j \in 1 .. n - 1 : x[j] = ds[j]
      /\ x[n].rows = rows
  <2>1. n = k + 1
    BY <1>1, <1>4
  <2> QED
    BY <1>2, <1>3, <1>4, <2>1
<1> QED
    BY <1>5, <1>6, <1>7 DEF x, a, k

(* The rows of a table, none if it is empty, behind its header.            *)
Rows(t, S) == IF S = {} THEN <<>> ELSE SendRows(t, SetToSeq(S))

LEMMA TableLeads ==
    ASSUME NEW s \in States, NEW t \in Table, NEW S \in SUBSET Row, IsFiniteSet(S),
           \A i \in 1 .. Len(s.mCache) : s.mCache[i].name # t
    PROVE  /\ Rows(t, S) \in Seq(RowMsgs)
           /\ \E rows \in Seq(Row) :
                 /\ Matches(rows, S)
                 /\ Leads(WithTable(s, t, <<>>), Rows(t, S), WithTable(s, t, rows))
<1>1. CASE S = {}
  <2> DEFINE h == WithTable(s, t, <<>>)
             q == <<>>
  <2>1. h \in States
    BY HeaderLeads
  <2> HIDE DEF h
  <2>2. Leads(h, q, h)
    BY <2>1, LeadsNone
  <2>3. Rows(t, S) = q /\ q \in Seq(RowMsgs) /\ q \in Seq(Row) /\ Matches(q, S)
    BY <1>1, EmptySeq, MatchesNone DEF Rows
  <2> HIDE DEF q
  <2>4. Leads(WithTable(s, t, <<>>), q, WithTable(s, t, q))
    BY <2>2 DEF h, q
  <2> QED
    BY <2>3, <2>4
<1>2. CASE S # {}
  <2> DEFINE rows == SetToSeq(S)
  <2>1. rows \in Seq(Row) /\ Matches(rows, S) /\ Rows(t, S) = SendRows(t, rows)
    BY <1>2, MatchesTable DEF Rows
  <2> HIDE DEF rows
  <2>2. /\ SendRows(t, rows) \in Seq(RowMsgs)
        /\ Leads(WithTable(s, t, <<>>), SendRows(t, rows), WithTable(s, t, rows))
    BY <2>1, RowsLead
  <2> QED
    BY <2>1, <2>2
<1> QED
    BY <1>1, <1>2

LEMMA RowMsgsAsk ==
    ASSUME NEW q \in Seq(RowMsgs)
    PROVE  \A i \in 1 .. Len(q) : ~Asks(q[i])
<1> SUFFICES ASSUME NEW i \in 1 .. Len(q)
             PROVE  ~Asks(q[i])
    OBVIOUS
<1>1. q[i] \in RowMsgs
    BY ElementOfSeq
<1> QED
    BY <1>1 DEF RowMsgs, Asks

LEMMA ReadTableKeeps ==
    ASSUME IInv, ReadTable
    PROVE  IInv'
<1> DEFINE n == reading
           t == Tables[n]
           S == db[t]
           a == <<Msg("idRowsetHeader", t, <<>>)>>
           b == Rows(t, S)
           h(e) == WithTable(e, t, <<>>)
<1>1. PICK e : End(e, St, down, up, reading, sql, sub, db)
    BY DEF IInv
<1>2. /\ Types /\ Shape /\ Leads(St, down, e) /\ Names(cache) \in {<<>>, Tables}
      /\ CollectsTables(e, down, up, n, sql)
      /\ QuietSnapshot => Fresh(e, down, up, n, sub, db)
    BY <1>1 DEF IInv, End
<1>3. /\ e \in States /\ e.mCache \in Sets /\ down \in Seq(Msgs) /\ GoodDatabase(db)
    BY <1>2, EndTypes, StatesOf DEF Types
<1>4. /\ n \in 1 .. Len(Tables) /\ reading' = n + 1 /\ down' = (down \o a) \o b
      /\ UNCHANGED <<sql, conn, up, sub, db, failed, cache, mCache, meta, vData, blob>>
  <2>1. DOMAIN Tables = 1 .. Len(Tables)
    BY TablesKnown, LenProperties
  <2> QED
    BY <2>1 DEF ReadTable, Rows, clientVars
<1>5. St' = St
    BY <1>4 DEF St
<1>6. n \in Nat \ {0} /\ n > 0 /\ (n + 1) - 1 = n /\ n + 1 \in 0 .. Len(Tables) + 1 /\ n + 1 # 0
      /\ n + 1 > 0
    BY <1>4, TablesKnown
<1>7. up # <<>> /\ Head(up) = "tables" /\ Names(e.mCache) = First(n - 1)
    BY <1>2, <1>6 DEF Shape, CollectsTables
<1>8. t \in Table /\ S \in SUBSET Row /\ IsFiniteSet(S)
    BY <1>3, <1>4, TablesKnown DEF GoodDatabase
<1>9. \A i \in 1 .. Len(e.mCache) : e.mCache[i].name # t
  <2>1. <<>> \in Seq(Pair)
    BY EmptySeq
  <2> QED
    BY <1>3, <1>4, <1>7, <2>1, NamesNext, ZenonT(60)
<1>10. a \in Seq(RowMsgs) /\ Leads(e, a, h(e))
  <2>1. Msg("idRowsetHeader", t, <<>>) \in Msgs /\ Leads(e, a, h(e))
    BY <1>3, <1>8, HeaderLeads
  <2>2. Msg("idRowsetHeader", t, <<>>) \in RowMsgs
    BY <2>1 DEF RowMsgs, Msg
  <2> QED
    BY <2>1, <2>2, OneIsSeq
<1> HIDE DEF t, S
<1>11. b \in Seq(RowMsgs)
    BY <1>3, <1>8, <1>9, TableLeads
<1>12. PICK rows \in Seq(Row) : Matches(rows, S) /\ Leads(h(e), b, WithTable(e, t, rows))
    BY <1>3, <1>8, <1>9, TableLeads
<1> DEFINE z == WithTable(e, t, rows)
<1> HIDE DEF a, b, h
<1>13. /\ a \in Seq(Msgs) /\ b \in Seq(Msgs) /\ down \o a \in Seq(Msgs)
       /\ down' \in Seq(Msgs)
  <2>1. a \in Seq(Msgs) /\ b \in Seq(Msgs)
    BY <1>10, <1>11, RowMsgsAre
  <2>2. down \o a \in Seq(Msgs)
    BY <1>3, <2>1, ConcatProperties
  <2> QED
    BY <1>4, <2>1, <2>2, ConcatProperties
<1>14. Leads(St, down', z)
  <2> HIDE DEF z
  <2>1. Leads(St, down \o a, h(e))
    BY <1>2, <1>3, <1>10, <1>13, LeadsConcat
  <2>2. Leads(St, (down \o a) \o b, z)
    BY <1>12, <1>13, <2>1, LeadsConcat DEF z
  <2> QED
    BY <1>4, <2>2
<1>15. /\ Waiting(down') <=> Waiting(down)
       /\ AtMostOne(down) => AtMostOne(down')
  <2>1. /\ Waiting(down \o a) <=> Waiting(down)
        /\ AtMostOne(down) => AtMostOne(down \o a)
    BY <1>3, <1>10, <1>13, RowMsgsAsk, WaitingConcat
  <2> DEFINE q == down \o a
  <2>2. q \in Seq(Msgs)
    BY <1>13
  <2> HIDE DEF q
  <2>3. /\ Waiting(q \o b) <=> Waiting(q)
        /\ AtMostOne(q) => AtMostOne(q \o b)
    BY <1>11, <1>13, <2>2, RowMsgsAsk, WaitingConcat
  <2> QED
    BY <1>4, <2>1, <2>3 DEF q
<1>16. z.mCache = Append(e.mCache, [name |-> t, rows |-> rows])
    BY DEF WithTable, State
<1>17. rows \in Seq(Pair)
    BY SeqSubset, RowIs
<1>18. /\ Names(z.mCache) = First(n) /\ z.mCache[n].rows = rows
       /\ \A j \in 1 .. n - 1 : z.mCache[j] = e.mCache[j]
  <2> DEFINE ds == e.mCache
             k == n
  <2>1. ds \in Sets /\ k \in 1 .. Len(Tables) /\ Names(ds) = First(k - 1)
    BY <1>3, <1>4, <1>7
  <2>2. z.mCache = Append(ds, [name |-> Tables[k], rows |-> rows])
    BY <1>16 DEF t
  <2> HIDE DEF ds, k, z
  <2> DEFINE x == Append(ds, [name |-> Tables[k], rows |-> rows])
  <2>3. /\ \A i \in 1 .. Len(ds) : ds[i].name # Tables[k]
        /\ Names(x) = First(k)
        /\ \A j \in 1 .. k - 1 : x[j] = ds[j]
        /\ x[k].rows = rows
    BY <1>17, <2>1, NamesNext, ZenonT(60)
  <2>4. x = z.mCache
    BY <2>2
  <2> HIDE DEF x
  <2> QED
    BY <2>3, <2>4 DEF ds, k
<1> HIDE DEF z
<1>19. Types'
    BY <1>2, <1>4, <1>6, <1>13 DEF Types
<1>20. Shape'
  <2>1. conn # "down"
    BY <1>2, <1>7 DEF Shape
  <2> QED
    BY <1>2, <1>4, <1>7, <1>15, <2>1 DEF Shape
<1>21. CollectsTables(z, down', up', reading', sql')
  <2>1. ~sql => ~Waiting(down)
    BY <1>2, <1>7 DEF Shape
  <2> QED
    BY <1>4, <1>6, <1>15, <1>18, <2>1 DEF CollectsTables
<1>22. ASSUME QuietSnapshot
       PROVE  Fresh(z, down', up', reading', sub', db')
  <2>1. ASSUME Len(up) = 1, ~Waiting(down), NEW j \in 1 .. n
        PROVE  Matches(z.mCache[j].rows, db[Tables[j]])
    <3>1. CASE j = n
        BY <1>12, <1>18, <3>1 DEF S, t
    <3>2. CASE j # n
        <4>1. j \in 1 .. n - 1
            BY <1>6, <3>2
        <4> QED
            BY <1>2, <1>6, <1>18, <1>22, <2>1, <4>1 DEF Fresh
    <3> QED
        BY <3>1, <3>2
  <2> QED
    BY <1>4, <1>6, <1>15, <2>1 DEF Fresh
<1>23. End(z, St', down', up', reading', sql', sub', db')
    BY <1>5, <1>14, <1>21, <1>22 DEF End
<1> QED
    BY <1>2, <1>4, <1>19, <1>20, <1>23 DEF IInv

LEMMA ReadEndKeeps ==
    ASSUME IInv, ReadEnd
    PROVE  IInv'
<1> DEFINE n == reading
<1>1. PICK e : End(e, St, down, up, reading, sql, sub, db)
    BY DEF IInv
<1>2. /\ Types /\ Shape /\ Leads(St, down, e) /\ Names(cache) \in {<<>>, Tables}
      /\ CollectsTables(e, down, up, n, sql)
      /\ QuietSnapshot => Fresh(e, down, up, n, sub, db)
    BY <1>1 DEF IInv, End
<1>3. /\ e \in States /\ e.mCache \in Sets /\ down \in Seq(Msgs) /\ up \in Seq(Requests)
      /\ Alternate(up)
    BY <1>2, EndTypes, StatesOf DEF Types, Shape
<1>4. /\ n > 0 /\ up' = Tail(up) /\ reading' = 0
      /\ UNCHANGED <<sql, conn, sub, db, failed, cache, mCache, meta, vData, blob>>
    BY DEF ReadEnd, clientVars
<1>5. St' = St
    BY <1>4 DEF St
<1>6. up # <<>> /\ Head(up) = "tables" /\ Names(e.mCache) = First(n - 1) /\ conn # "down"
    BY <1>2, <1>4 DEF Shape, CollectsTables
<1>7. /\ up' \in Seq(Requests) /\ Alternate(up')
      /\ up' # <<>> => Head(up') = "open"
      /\ up' = <<>> <=> Len(up) = 1
    BY <1>3, <1>4, <1>6, AlternateTail
<1>8. ~sql => up' = <<>> /\ ~Waiting(down) /\ AtMostOne(down)
  <2>1. Tail(<<"tables">>) = <<>>
    OBVIOUS
  <2> QED
    BY <1>2, <1>4, <1>6, <2>1 DEF Shape
<1>9. PICK m \in Msgs :
        /\ down' = Append(down, m)
        /\ \/ m.id = "result" /\ n > Len(Tables)
           \/ m.id = "failure"
  <2>1. /\ Msg("result", Tables[1], <<>>) \in Msgs
        /\ Msg("result", Tables[1], <<>>).id = "result"
        /\ Msg("failure", Tables[1], <<>>) \in Msgs
        /\ Msg("failure", Tables[1], <<>>).id = "failure"
    BY PlainMsg DEF MsgIds
  <2> QED
    BY <2>1 DEF ReadEnd
<1> DEFINE z == Step(e, m)
<1>10. m.id # "failure" => Names(e.mCache) = Tables /\ n - 1 = Len(Tables)
  <2>1. CASE n > Len(Tables)
    <3>1. n - 1 = Len(Tables)
        BY <1>2, <2>1, TablesKnown DEF Types
    <3>2. Tables = First(Len(Tables))
        BY TablesKnown, LenProperties DEF First
    <3> QED
        BY <1>6, <3>1, <3>2
  <2> QED
    BY <1>9, <2>1
<1>11. Fit(e, m) /\ ~Asks(m)
    BY <1>9, <1>10 DEF Fit, Asks
<1>12. Leads(St, down', z)
    BY <1>2, <1>3, <1>9, <1>11, LeadsAppend
<1>13. /\ down' \in Seq(Msgs)
       /\ Waiting(down') <=> Waiting(down)
       /\ AtMostOne(down) => AtMostOne(down')
    BY <1>3, <1>9, <1>11, AppendProperties, WaitingAppend
<1>14. /\ m.id = "result" => z.cache = e.mCache
       /\ m.id = "failure" => z.bad = 1
    BY <1>3, AnswerIs
<1> HIDE DEF z
<1>15. Types'
  <2>1. 0 \in 0 .. Len(Tables) + 1
    BY TablesKnown
  <2> QED
    BY <1>2, <1>4, <1>7, <1>13, <2>1 DEF Types
<1>16. Shape'
    BY <1>2, <1>4, <1>6, <1>7, <1>8, <1>13 DEF Shape
<1>17. CollectsTables(z, down', up', reading', sql')
    BY <1>4, <1>7, <1>8, <1>13 DEF CollectsTables
<1>18. ASSUME QuietSnapshot
       PROVE  Fresh(z, down', up', reading', sub', db')
  <2>1. ASSUME up' = <<>>, ~Waiting(down), z.bad = 0
        PROVE  Mirrors(z.cache, db)
    <3>1. /\ m.id = "result" /\ z.cache = e.mCache /\ Names(e.mCache) = Tables
          /\ n - 1 = Len(Tables)
        BY <1>9, <1>10, <1>14, <2>1
    <3>2. \A j \in 1 .. n - 1 : Matches(e.mCache[j].rows, db[Tables[j]])
        BY <1>2, <1>4, <1>7, <1>18, <2>1 DEF Fresh
    <3> QED
        BY <3>1, <3>2 DEF Mirrors
  <2> QED
    BY <1>4, <1>13, <2>1 DEF Fresh
<1>19. End(z, St', down', up', reading', sql', sub', db')
    BY <1>5, <1>12, <1>17, <1>18 DEF End
<1> QED
    BY <1>2, <1>4, <1>15, <1>16, <1>19 DEF IInv

----------------------------------------------------------------------------
(* Changes of the database, and the client.                                *)

(* A change that an event tells: the tables that mirror the database do so *)
(* when they have taken the event.                                         *)
LEMMA EventKeeps ==
    ASSUME IInv, NEW m \in Msgs, m.id \in Events,
           UNCHANGED <<sql, cache, mCache, meta, vData, blob, conn, up, sub, reading, failed>>,
           GoodDatabase(db'), QuietSnapshot => reading <= 1,
           down' = IF sub THEN Append(down, m) ELSE down,
           \A ds \in Sets : Mirrors(ds, db) => Mirrors(Published(ds, m), db')
    PROVE  IInv'
<1>1. PICK e : End(e, St, down, up, reading, sql, sub, db)
    BY DEF IInv
<1>2. /\ Types /\ Shape /\ Leads(St, down, e) /\ Names(cache) \in {<<>>, Tables}
      /\ CollectsTables(e, down, up, reading, sql)
      /\ QuietSnapshot => Fresh(e, down, up, reading, sub, db)
    BY <1>1 DEF IInv, End
<1>3. e \in States /\ e.cache \in Sets /\ down \in Seq(Msgs)
    BY <1>2, EndTypes, StatesOf DEF Types
<1>4. St' = St
    BY DEF St
<1>5. ~Asks(m) /\ Fit(e, m)
    BY DEF Asks, Fit, Events
<1>6. Names(cache') \in {<<>>, Tables}
    BY <1>2
<1> DEFINE z == IF sub THEN Step(e, m) ELSE e
<1>7. /\ down' \in Seq(Msgs) /\ Leads(St, down', z)
      /\ Waiting(down') <=> Waiting(down)
      /\ AtMostOne(down) => AtMostOne(down')
  <2>1. CASE sub
    BY <1>2, <1>3, <1>5, <2>1, AppendProperties, LeadsAppend, WaitingAppend
  <2>2. CASE ~sub
    BY <1>2, <1>3, <2>2
  <2> QED
    BY <2>1, <2>2
<1>8. /\ z.mCache = e.mCache /\ z.bad = e.bad
      /\ sub => z.cache = Published(e.cache, m)
    BY <1>3, AnswerIs
<1> HIDE DEF z
<1>9. Types'
    BY <1>2, <1>7 DEF Types
<1>10. Shape'
  <2>1. conn = "down" => down' = <<>>
    BY <1>2 DEF Shape
  <2> QED
    BY <1>2, <1>7, <2>1 DEF Shape
<1>11. CollectsTables(z, down', up', reading', sql')
    BY <1>2, <1>7, <1>8 DEF CollectsTables
<1>12. ASSUME QuietSnapshot
       PROVE  Fresh(z, down', up', reading', sub', db')
  <2>1. \A j \in 1 .. reading - 1 : FALSE
    BY <1>2, <1>12, TablesKnown DEF Types
  <2>2. ASSUME sub, reading = 0, up = <<>>, ~Waiting(down), z.bad = 0
        PROVE  Mirrors(z.cache, db')
    <3>1. Mirrors(e.cache, db)
        BY <1>2, <1>8, <1>12, <2>2 DEF Fresh
    <3> QED
        BY <1>3, <1>8, <2>2, <3>1
  <2> QED
    BY <1>7, <2>1, <2>2 DEF Fresh
<1>13. End(z, St', down', up', reading', sql', sub', db')
    BY <1>4, <1>7, <1>11, <1>12 DEF End
<1> QED
    BY <1>6, <1>9, <1>10, <1>13 DEF IInv

LEMMA ChangeKeeps ==
    ASSUME IInv, Change
    PROVE  IInv'
<1>1. /\ UNCHANGED <<sql, cache, mCache, meta, vData, blob, conn, up, sub, reading, failed>>
      /\ QuietSnapshot => reading <= 1
    BY DEF Change, clientVars
<1>2. GoodDatabase(db)
    BY DEF IInv, Types
<1>3. PICK t \in Table, r \in Row :
        \/ /\ \A q \in db[t] : q[1] # r[1]
           /\ db' = [db EXCEPT ![t] = @ \union {r}]
           /\ down' = IF sub THEN Append(down, Msg("insert", t, r)) ELSE down
        \/ \E q \in db[t] :
              /\ q # r
              /\ \A s \in db[t] \ {q} : s[1] # r[1]
              /\ db' = [db EXCEPT ![t] = (@ \ {q}) \union {r}]
              /\ down' = IF sub THEN Append(down, Msg("update", t, <<q[1], r[1], q[2], r[2]>>)) ELSE down
        \/ /\ r \in db[t]
           /\ db' = [db EXCEPT ![t] = @ \ {r}]
           /\ down' = IF sub THEN Append(down, Msg("delete", t, <<r[1]>>)) ELSE down
    BY DEF Change
<1> DEFINE S == db[t]
<1>4. /\ db \in [Table -> SUBSET Row] /\ S \in SUBSET Row /\ IsFiniteSet(S) /\ Keyed(S)
    BY <1>2 DEF GoodDatabase
<1>5. CASE /\ \A q \in db[t] : q[1] # r[1]
           /\ db' = [db EXCEPT ![t] = @ \union {r}]
           /\ down' = IF sub THEN Append(down, Msg("insert", t, r)) ELSE down
  <2> DEFINE m == Msg("insert", t, r)
  <2>1. m \in Msgs /\ m.id = "insert" /\ m.name = t /\ m.cells = r
    BY RowIs DEF Msg, Msgs, MsgIds, Events
  <2> HIDE DEF m
  <2>2. r \notin S /\ Keyed(S \union {r})
    BY <1>4, <1>5 DEF Keyed
  <2>3. IsFiniteSet(S \union {r}) /\ S \union {r} \in SUBSET Row
    BY <1>4, FS_AddElement
  <2>4. GoodDatabase([db EXCEPT ![t] = S \union {r}])
    BY <1>2, <2>2, <2>3, GoodChange
  <2>5. GoodDatabase(db')
    BY <1>5, <2>4
  <2>6. \A ds \in Sets : Mirrors(ds, db) => Mirrors(Published(ds, m), db')
    <3> SUFFICES ASSUME NEW ds \in Sets, Mirrors(ds, db)
                 PROVE  Mirrors(Published(ds, m), db')
        OBVIOUS
    <3>1. Mirrors(AddRows(ds, t, r), [db EXCEPT ![t] = @ \union {r}])
        BY <1>4, <2>2, InsertMirrors
    <3>2. Published(ds, m) = AddRows(ds, t, r)
        BY <2>1 DEF Published
    <3> QED
        BY <1>5, <3>1, <3>2
  <2>7. m.id \in Events /\ down' = IF sub THEN Append(down, m) ELSE down
    BY <1>5, <2>1 DEF m, Events
  <2> QED
    BY <1>1, <2>1, <2>5, <2>6, <2>7, EventKeeps
<1>6. ASSUME NEW q \in db[t],
             /\ q # r
             /\ \A s \in db[t] \ {q} : s[1] # r[1]
             /\ db' = [db EXCEPT ![t] = (@ \ {q}) \union {r}]
             /\ down' = IF sub THEN Append(down, Msg("update", t, <<q[1], r[1], q[2], r[2]>>)) ELSE down
      PROVE  IInv'
  <2> DEFINE c == <<q[1], r[1], q[2], r[2]>>
             m == Msg("update", t, c)
             T == (S \ {q}) \union {r}
  <2>1. c \in Cells /\ Len(c) = 4
    <3>1. q \in Row
        BY <1>4
    <3>2. {q[1], q[2], r[1], r[2]} \subseteq Cell
        BY <3>1, RowIs
    <3> DEFINE C == Cell
    <3>3. q[1] \in C /\ q[2] \in C /\ r[1] \in C /\ r[2] \in C
        BY <3>2
    <3> HIDE DEF C
    <3>4. c \in Seq(C) /\ Len(c) = 4
        BY <3>3
    <3> QED
        BY <3>4 DEF C, Cells
  <2> HIDE DEF c
  <2>2. m \in Msgs /\ m.id = "update" /\ m.name = t /\ m.cells = c
    BY <2>1 DEF Msg, Msgs, MsgIds, Events
  <2> HIDE DEF m
  <2>3. r \notin S \ {q} /\ Keyed(T)
    BY <1>4, <1>6 DEF Keyed
  <2>4. IsFiniteSet(T) /\ T \in SUBSET Row
    BY <1>4, FS_RemoveElement, FS_AddElement
  <2>5. db' = [db EXCEPT ![t] = T]
    BY <1>6
  <2> HIDE DEF T
  <2>6. GoodDatabase(db')
    BY <1>2, <2>3, <2>4, <2>5, GoodChange
  <2>7. \A ds \in Sets : Mirrors(ds, db) => Mirrors(Published(ds, m), db')
    <3> SUFFICES ASSUME NEW ds \in Sets, Mirrors(ds, db)
                 PROVE  Mirrors(Published(ds, m), db')
        OBVIOUS
    <3>1. Mirrors(UpdateARow(ds, t, <<q[1], r[1], q[2], r[2]>>),
                  [db EXCEPT ![t] = (@ \ {q}) \union {r}])
        BY <1>4, <2>3, UpdateMirrors
    <3>2. Published(ds, m) = UpdateARow(ds, t, c)
        BY <2>2 DEF Published
    <3> QED
        BY <1>6, <3>1, <3>2 DEF c
  <2>8. m.id \in Events /\ down' = IF sub THEN Append(down, m) ELSE down
    BY <1>6, <2>2 DEF m, c, Events
  <2> QED
    BY <1>1, <2>2, <2>6, <2>7, <2>8, EventKeeps
<1>7. CASE /\ r \in db[t]
           /\ db' = [db EXCEPT ![t] = @ \ {r}]
           /\ down' = IF sub THEN Append(down, Msg("delete", t, <<r[1]>>)) ELSE down
  <2> DEFINE c == <<r[1]>>
             m == Msg("delete", t, c)
             T == S \ {r}
  <2>1. c \in Cells /\ c[1] = r[1]
    BY RowIs, OneIsSeq DEF Cells
  <2> HIDE DEF c
  <2>2. m \in Msgs /\ m.id = "delete" /\ m.name = t /\ m.cells = c
    BY <2>1 DEF Msg, Msgs, MsgIds, Events
  <2> HIDE DEF m
  <2>3. IsFiniteSet(T) /\ T \in SUBSET Row /\ Keyed(T)
    BY <1>4, FS_RemoveElement DEF Keyed
  <2>4. db' = [db EXCEPT ![t] = T]
    BY <1>7
  <2> HIDE DEF T
  <2>5. GoodDatabase(db')
    BY <1>2, <2>3, <2>4, GoodChange
  <2>6. \A ds \in Sets : Mirrors(ds, db) => Mirrors(Published(ds, m), db')
    <3> SUFFICES ASSUME NEW ds \in Sets, Mirrors(ds, db)
                 PROVE  Mirrors(Published(ds, m), db')
        OBVIOUS
    <3>1. Mirrors(DeleteARow(ds, t, r[1]), [db EXCEPT ![t] = @ \ {r}])
        BY <1>4, <1>7, DeleteMirrors
    <3>2. Published(ds, m) = DeleteARow(ds, t, r[1])
        BY <2>1, <2>2 DEF Published
    <3> QED
        BY <1>7, <3>1, <3>2
  <2>7. m.id \in Events /\ down' = IF sub THEN Append(down, m) ELSE down
    BY <1>7, <2>2 DEF m, c, Events
  <2> QED
    BY <1>1, <2>2, <2>5, <2>6, <2>7, EventKeeps
<1> QED
    BY <1>3, <1>5, <1>6, <1>7

(* The server asks to initialise again: with CMasterPool, at a time when   *)
(* nothing has been collected (FreshReinit).                               *)
LEMMA RepublishKeeps ==
    ASSUME IInv, Republish, FreshReinit
    PROVE  IInv'
<1>1. PICK e : End(e, St, down, up, reading, sql, sub, db)
    BY DEF IInv
<1>2. /\ Types /\ Shape /\ Leads(St, down, e) /\ Names(cache) \in {<<>>, Tables}
      /\ CollectsTables(e, down, up, reading, sql)
    BY <1>1 DEF IInv, End
<1>3. e \in States /\ down \in Seq(Msgs) /\ GoodDatabase(db)
    BY <1>2, EndTypes DEF Types
<1> DEFINE m == Msg("initialise", Tables[1], <<>>)
           z == Step(e, m)
<1>4. /\ sub /\ (sql \/ (mCache = <<>> /\ up = <<>> /\ down = <<>>))
      /\ down' = Append(down, m)
      /\ \E r \in Row : db' = [db EXCEPT ![Tables[1]] = {r}]
      /\ UNCHANGED <<sql, conn, up, sub, reading, failed, cache, mCache, meta, vData, blob>>
    BY DEF Republish, clientVars
<1>5. m \in Msgs /\ m.id = "initialise" /\ Asks(m)
    BY PlainMsg DEF MsgIds, Asks
<1> HIDE DEF m
<1>6. St' = St
    BY <1>4 DEF St
<1>7. Fit(e, m) /\ z.mCache = e.mCache
    BY <1>3, <1>5, AnswerIs DEF Fit
<1>8. Leads(St, down', z)
    BY <1>2, <1>3, <1>4, <1>5, <1>7, LeadsAppend
<1>9. /\ down' \in Seq(Msgs) /\ Waiting(down')
      /\ ~Waiting(down) => AtMostOne(down')
    BY <1>3, <1>4, <1>5, AppendProperties, WaitingAppend
<1>10. ~sql => e.mCache = <<>> /\ up = <<>> /\ ~Waiting(down)
  <2> SUFFICES ASSUME ~sql
               PROVE  e.mCache = <<>> /\ up = <<>> /\ ~Waiting(down)
    OBVIOUS
  <2>1. mCache = <<>> /\ up = <<>> /\ down = <<>>
    BY <1>4
  <2>2. e = St
    BY <1>2, <2>1, LeadsEmpty
  <2> QED
    BY <2>1, <2>2, StIs, WaitingNone
<1>11. GoodDatabase(db')
  <2>1. PICK r \in Row : db' = [db EXCEPT ![Tables[1]] = {r}]
    BY <1>4
  <2>2. IsFiniteSet({r}) /\ Keyed({r}) /\ {r} \in SUBSET Row /\ Tables[1] \in Table
    BY FS_Singleton, TablesKnown DEF Keyed
  <2>3. GoodDatabase([db EXCEPT ![Tables[1]] = {r}])
    BY <1>3, <2>2, GoodChange
  <2> QED
    BY <2>1, <2>3
<1> HIDE DEF z
<1>12. Types'
    BY <1>2, <1>4, <1>9, <1>11 DEF Types
<1>13. Shape'
  <2>1. conn # "down"
    BY <1>2, <1>4 DEF Shape
  <2> QED
    BY <1>2, <1>4, <1>9, <1>10, <2>1 DEF Shape
<1>14. CollectsTables(z, down', up', reading', sql')
    BY <1>2, <1>4, <1>7, <1>10 DEF CollectsTables
<1>15. Fresh(z, down', up', reading', sub', db')
    BY <1>9 DEF Fresh
<1>16. End(z, St', down', up', reading', sql', sub', db')
    BY <1>6, <1>8, <1>14, <1>15 DEF End
<1> QED
    BY <1>2, <1>4, <1>12, <1>13, <1>16 DEF IInv

(* The client takes a message: the state at the end is the same one.       *)
LEMMA ClientKeeps ==
    ASSUME IInv, ClientNext
    PROVE  IInv'
<1> DEFINE m == Head(down)
           s == St
<1>1. PICK e : End(e, St, down, up, reading, sql, sub, db)
    BY DEF IInv
<1>2. /\ Types /\ Shape /\ Leads(s, down, e) /\ Names(cache) \in {<<>>, Tables}
      /\ CollectsTables(e, down, up, reading, sql)
      /\ QuietSnapshot => Fresh(e, down, up, reading, sub, db)
    BY <1>1 DEF IInv, End
<1>3. /\ s \in States /\ s.cache = cache /\ down \in Seq(Msgs) /\ up \in Seq(Requests)
      /\ Alternate(up) /\ failed \in BOOLEAN
    BY <1>2, EndTypes, StIs DEF Types, Shape
<1>4. /\ conn = "up" /\ down # <<>> /\ down' = Tail(down) /\ St' = Step(s, m)
      /\ up' = IF Asks(m) THEN up \o SetInitialCache ELSE up
      /\ UNCHANGED <<sql, conn, sub, reading, db>> /\ failed' \in BOOLEAN
    BY <1>3, ClientStep
<1>5. /\ down' \in Seq(Msgs) /\ m \in Msgs
      /\ Waiting(down) <=> (Asks(m) \/ Waiting(down'))
      /\ AtMostOne(down) => AtMostOne(down')
      /\ AtMostOne(down) /\ Asks(m) => ~Waiting(down')
    BY <1>3, <1>4, WaitingTail
<1>6. Leads(St', down', e) /\ Fit(s, m)
  <2>1. Leads(Step(s, m), Tail(down), e) /\ Fit(s, m)
    BY <1>2, <1>3, <1>4, LeadsTail
  <2> QED
    BY <1>4, <2>1
<1>7. Names(cache') \in {<<>>, Tables}
  <2>1. Names(Step(s, m).cache) \in {<<>>, Tables}
    BY <1>2, <1>3, <1>5, <1>6, StepWhole
  <2>2. (St').cache = cache'
    BY DEF St, State
  <2> QED
    BY <1>4, <2>1, <2>2
<1> HIDE DEF m, s
<1>8. CASE ~Asks(m)
  <2>1. up' = up /\ (Waiting(down') <=> Waiting(down))
    BY <1>4, <1>5, <1>8
  <2>2. Types'
    BY <1>2, <1>4, <1>5, <2>1 DEF Types
  <2>3. Shape'
    BY <1>2, <1>4, <1>5, <2>1 DEF Shape
  <2>4. CollectsTables(e, down', up', reading', sql')
    BY <1>2, <1>4, <2>1 DEF CollectsTables
  <2>5. QuietSnapshot => Fresh(e, down', up', reading', sub', db')
    BY <1>2, <1>4, <2>1 DEF Fresh
  <2>6. End(e, St', down', up', reading', sql', sub', db')
    BY <1>6, <2>4, <2>5 DEF End
  <2> QED
    BY <1>7, <2>2, <2>3, <2>6 DEF IInv
<1>9. CASE Asks(m) /\ sql
  <2> DEFINE a == <<"open", "tables">>
             u == up \o a
  <2>1. up' = u
    BY <1>4, <1>9 DEF SetInitialCache
  <2>2. /\ u \in Seq(Requests) /\ Alternate(u) /\ u # <<>> /\ Len(u) # 1
        /\ Head(u) = IF up = <<>> THEN "open" ELSE Head(up)
    BY <1>3, AlternateMore
  <2> HIDE DEF u
  <2>3. Types'
    BY <1>2, <1>4, <1>5, <2>1, <2>2 DEF Types
  <2>4. Shape'
    BY <1>2, <1>4, <1>9, <2>1, <2>2 DEF Shape
  <2>5. CollectsTables(e, down', up', reading', sql')
    BY <1>2, <1>4, <1>9, <2>1, <2>2 DEF CollectsTables
  <2>6. Fresh(e, down', up', reading', sub', db')
    BY <2>1, <2>2 DEF Fresh
  <2>7. End(e, St', down', up', reading', sql', sub', db')
    BY <1>6, <2>5, <2>6 DEF End
  <2> QED
    BY <1>7, <2>3, <2>4, <2>7 DEF IInv
<1>10. CASE Asks(m) /\ ~sql
  <2> DEFINE u == <<"tables">>
  <2>1. up = <<>> /\ ~Waiting(down') /\ AtMostOne(down') /\ e.mCache = <<>>
    BY <1>2, <1>5, <1>10 DEF Shape, CollectsTables
  <2>2. reading = 0
    BY <1>2, <2>1, TablesKnown DEF Shape, Types
  <2>3. up' = u
    <3>1. up' = <<>> \o <<"tables">>
        BY <1>4, <1>10, <2>1 DEF SetInitialCache
    <3> QED
        BY <3>1, AlternateOne, ConcatEmpty
  <2>4. u \in Seq(Requests) /\ Alternate(u) /\ u # <<>>
    BY AlternateOne
  <2>5. Types'
    BY <1>2, <1>4, <1>5, <2>3, <2>4 DEF Types
  <2>6. Shape'
    BY <1>4, <2>1, <2>2, <2>3, <2>4 DEF Shape
  <2>7. CollectsTables(e, down', up', reading', sql')
    BY <1>4, <2>1, <2>2 DEF CollectsTables
  <2>8. Fresh(e, down', up', reading', sub', db')
    <3>1. reading' = 0 /\ up' # <<>>
        BY <1>4, <2>2, <2>3, <2>4
    <3> QED
        BY <3>1 DEF Fresh
  <2>9. End(e, St', down', up', reading', sql', sub', db')
    BY <1>6, <2>7, <2>8 DEF End
  <2> QED
    BY <1>7, <2>5, <2>6, <2>9 DEF IInv
<1> QED
    BY <1>8, <1>9, <1>10

LEMMA NextIInv ==
    ASSUME IInv, [Next]_vars, FreshReinit
    PROVE  IInv'
<1>1. CASE OnConnected
    BY <1>1, ConnectKeeps
<1>2. CASE Break
    BY <1>2, BreakKeeps
<1>3. CASE ServeOpen
    BY <1>3, ServeOpenKeeps
<1>4. CASE ServeTables
    BY <1>4, ServeTablesKeeps
<1>5. CASE ReadTable
    BY <1>5, ReadTableKeeps
<1>6. CASE ReadEnd
    BY <1>6, ReadEndKeeps
<1>7. CASE Change
    BY <1>7, ChangeKeeps
<1>8. CASE Republish
    BY <1>8, RepublishKeeps
<1>9. CASE ClientNext
    BY <1>9, ClientKeeps
<1>10. CASE UNCHANGED vars
  <2>1. UNCHANGED <<sql, cache, mCache, meta, vData, blob, conn, up, down, sub, reading, db,
                    failed>>
    BY <1>10 DEF vars, clientVars
  <2>2. St' = St
    BY <2>1 DEF St
  <2> QED
    BY <2>1, <2>2 DEF IInv, Types, Shape
<1> QED
    BY <1>1, <1>2, <1>3, <1>4, <1>5, <1>6, <1>7, <1>8, <1>9, <1>10 DEF Next, ServerNext

(* The names of WholeCache and Current are Names.                          *)
LEMMA CacheNames ==
    ASSUME IInv
    PROVE  /\ cache \in Sets /\ DOMAIN cache = 1 .. Len(cache)
           /\ [i \in DOMAIN cache |-> cache[i].name] = Names(cache)
<1>1. cache \in Sets
    BY EndTypes DEF IInv, End
<1>2. DOMAIN cache = 1 .. Len(cache)
    BY <1>1, SetsOf
<1> QED
    BY <1>1, <1>2 DEF Names

(* Readers of Cache never see a part of a snapshot (m_cache and Swap),     *)
(* when CMasterPool is asked to initialise again only while its m_cache is *)
(* empty and nothing is under way: a second answer would otherwise be      *)
(* collected behind the first.                                             *)
THEOREM WholeCacheHolds ==
    ASSUME FreshReinit
    PROVE  Spec => []WholeCache
<1>1. IInv => WholeCache
    BY CacheNames DEF IInv, WholeCache
<1>2. Init => IInv
    BY InitIInv
<1>3. IInv /\ [Next]_vars => IInv'
    BY NextIInv
<1> QED
    BY <1>1, <1>2, <1>3, PTL DEF Spec

(* When nothing is under way, the cache is the database (SetInitialCache,  *)
(* OnPublish), if also nothing changes while the server reads the tables.  *)
LEMMA IInvCurrent ==
    ASSUME IInv, QuietSnapshot
    PROVE  CacheCurrent
<1> SUFFICES ASSUME conn = "up", sub, up = <<>>, down = <<>>, reading = 0, ~failed
             PROVE  Current
    BY DEF CacheCurrent
<1>1. PICK e : End(e, St, down, up, reading, sql, sub, db)
    BY DEF IInv
<1>2. Leads(St, <<>>, e) /\ Fresh(e, <<>>, <<>>, 0, sub, db)
    BY <1>1 DEF End
<1>3. e = St
    BY <1>2, LeadsEmpty
<1>4. e.bad = 0 /\ e.cache = cache
    BY <1>3, StIs DEF Bad
<1>5. Mirrors(cache, db)
    BY <1>2, <1>4, WaitingNone DEF Fresh
<1>6. /\ cache \in Sets /\ DOMAIN cache = 1 .. Len(cache)
      /\ [i \in DOMAIN cache |-> cache[i].name] = Tables
    BY <1>5, CacheNames DEF Mirrors
<1>7. Len(cache) = Len(Tables) /\ \A i \in 1 .. Len(cache) : cache[i].name = Tables[i]
    BY <1>5, <1>6, NamesLen DEF Mirrors
<1>8. ASSUME NEW i \in DOMAIN cache
      PROVE  Range(cache[i].rows) = db[cache[i].name] /\ IsInjective(cache[i].rows)
  <2> DEFINE rows == cache[i].rows
             S == db[cache[i].name]
  <2>1. rows \in Seq(Pair) /\ Matches(rows, S)
    BY <1>5, <1>6, <1>7, SetsOf DEF Mirrors
  <2>2. DOMAIN rows = 1 .. Len(rows)
    BY <2>1, LenProperties
  <2> HIDE DEF rows, S
  <2>3. Range(rows) = S
    BY <2>1, <2>2 DEF Range, Matches
  <2>4. IsInjective(rows)
    BY <2>1, <2>2 DEF IsInjective, Matches
  <2> QED
    BY <2>3, <2>4 DEF rows, S
<1> QED
    BY <1>6, <1>8 DEF Current

(* Whatever breaks, initialisations, failures and changes there are: no    *)
(* table and no event is lost, applied to the wrong copy or applied twice. *)
THEOREM CacheCurrentHolds ==
    ASSUME FreshReinit, QuietSnapshot
    PROVE  Spec => []CacheCurrent
<1>1. IInv => CacheCurrent
    BY IInvCurrent
<1>2. Init => IInv
    BY InitIInv
<1>3. IInv /\ [Next]_vars => IInv'
    BY NextIInv
<1> QED
    BY <1>1, <1>2, <1>3, PTL DEF Spec
=============================================================================
