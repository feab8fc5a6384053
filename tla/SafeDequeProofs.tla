-------------------------- MODULE SafeDequeProofs --------------------------
(***************************************************************************)
(* Proofs about CSafeDeque (SafeDeque.tla): for every initial capacity,    *)
(* every size of a push and every sequence of operations, the elements lie *)
(* inside the buffer, none of them is an unwritten cell, the buffer stays  *)
(* within four times the most elements there were, and the buffer          *)
(* implements the abstract deque (Deque.tla).                              *)
(***************************************************************************)
EXTENDS SafeDeque, TLAPS

Cell == Elem \union {Junk}

(* The cells of a buffer.                                                  *)
Dom(c) == 0 .. c - 1

(* The cells that malloc, memcpy and memmove write.                        *)
LEMMA MallocCells ==
    ASSUME NEW n \in Nat
    PROVE  Malloc(n) \in [0 .. n - 1 -> Cell]
BY DEF Malloc, Cell

LEMMA CopyCells ==
    ASSUME NEW D \in SUBSET Nat, NEW b \in [D -> Cell], NEW h \in Nat,
           NEW s \in Seq(Cell)
    PROVE  /\ Copy(b, h, s) \in [D -> Cell]
           /\ \A i \in D : i < h \/ i >= h + Len(s) => Copy(b, h, s)[i] = b[i]
           /\ \A i \in 1 .. Len(s) : h + i - 1 \in D => Copy(b, h, s)[h + i - 1] = s[i]
<1>1. \A i \in D : h <= i /\ i < h + Len(s) => s[i - h + 1] \in Cell
  OBVIOUS
<1>2. Copy(b, h, s) \in [D -> Cell]
  BY <1>1 DEF Copy
<1>3. ASSUME NEW i \in D, i < h \/ i >= h + Len(s)
      PROVE  Copy(b, h, s)[i] = b[i]
  BY <1>3 DEF Copy
<1>4. ASSUME NEW i \in 1 .. Len(s), h + i - 1 \in D
      PROVE  Copy(b, h, s)[h + i - 1] = s[i]
  <2> DEFINE j == h + i - 1
  <2>1. h <= j /\ j < h + Len(s) /\ j \in D /\ j - h + 1 = i
    BY <1>4
  <2>2. Copy(b, h, s)[j] = s[j - h + 1]
    <3> HIDE DEF j
    <3> QED
      BY <2>1 DEF Copy
  <2> QED
    BY <2>1, <2>2
<1> QED
  BY <1>2, <1>3, <1>4

(* The cells that memcpy reads are a sequence of cells.                    *)
LEMMA ReadCells ==
    ASSUME NEW D \in SUBSET Nat, NEW b \in [D -> Cell],
           NEW h \in Nat, NEW n \in Nat, h .. h + n - 1 \subseteq D
    PROVE  /\ Cells(b, h, n) \in Seq(Cell)
           /\ Len(Cells(b, h, n)) = n
           /\ \A i \in 1 .. n : Cells(b, h, n)[i] = b[h + i - 1]
<1>1. \A i \in 1 .. n : h + i - 1 \in h .. h + n - 1
  OBVIOUS
<1>2. \A i \in 1 .. n : b[h + i - 1] \in Cell
  BY <1>1
<1>3. Cells(b, h, n) \in [1 .. n -> Cell]
  BY <1>2 DEF Cells
<1>4. \A i \in 1 .. n : Cells(b, h, n)[i] = b[h + i - 1]
  BY DEF Cells
<1> QED
  BY <1>3, <1>4

(* What a push brings.                                                     *)
LEMMA BulkType ==
    ASSUME NEW s \in Bulk
    PROVE  s \in Seq(Cell) /\ s \in Seq(Elem) /\ Len(s) \in Nat /\ Len(s) > 0
<1>1. PICK n \in 1 .. MaxBulk : s \in [1 .. n -> Elem]
  BY DEF Bulk
<1> QED
  BY <1>1, ConstantsAssumption DEF Cell

(* The inductive invariant: a sliding or growing push reads and writes     *)
(* inside the buffer because the elements lie inside it.                   *)
IInv == TypeOK /\ InBounds /\ NoJunk /\ CapacityBounded

(* The empty deque of a constructor satisfies it.                          *)
LEMMA InitIInv == Init => IInv
<1> SUFFICES ASSUME Init PROVE IInv
  OBVIOUS
<1>1. TypeOK /\ InBounds /\ CapacityBounded
  BY ConstantsAssumption, MallocCells
     DEF Init, TypeOK, InBounds, CapacityBounded, Cell
<1>2. Contents = <<>>
  BY DEF Init, Contents, Cells
<1> QED
  BY <1>1, <1>2 DEF IInv, NoJunk

(* The elements are a sequence of cells, read from p.                      *)
LEMMA ContentsType ==
    ASSUME TypeOK, InBounds
    PROVE  /\ Contents \in Seq(Cell)
           /\ Len(Contents) = count
           /\ \A i \in 1 .. count : Contents[i] = p[header + i - 1]
<1> DEFINE D == 0 .. capacity - 1
<1>1. header \in Nat /\ count \in Nat /\ D \in SUBSET Nat
  BY ConstantsAssumption DEF TypeOK
<1>2. p \in [D -> Cell]
  BY DEF TypeOK, Cell
<1>3. header .. header + count - 1 \subseteq D
  BY <1>1 DEF TypeOK, InBounds
<1> HIDE DEF D
<1> QED
  BY <1>1, <1>2, <1>3, ReadCells DEF Contents

(* What two copies to cells of their own leave in the buffer.              *)
LEMMA TwoCopies ==
    ASSUME NEW c \in Nat, NEW b \in [Dom(c) -> Cell],
           NEW h \in Nat, NEW s \in Seq(Cell), h + Len(s) <= c,
           NEW k \in Nat, NEW t \in Seq(Cell), k + Len(t) <= c,
           h + Len(s) <= k \/ k + Len(t) <= h
    PROVE  /\ Copy(Copy(b, h, s), k, t) \in [Dom(c) -> Cell]
           /\ \A i \in 1 .. Len(s) : Copy(Copy(b, h, s), k, t)[h + i - 1] = s[i]
           /\ \A i \in 1 .. Len(t) : Copy(Copy(b, h, s), k, t)[k + i - 1] = t[i]
<1> DEFINE D == Dom(c)
           q == Copy(b, h, s)
           r == Copy(q, k, t)
<1>d. /\ D \in SUBSET Nat
      /\ \A i \in 1 .. Len(s) : h + i - 1 \in D
      /\ \A i \in 1 .. Len(t) : k + i - 1 \in D
  BY DEF Dom
<1>1. /\ q \in [D -> Cell]
      /\ \A i \in 1 .. Len(s) : h + i - 1 \in D => q[h + i - 1] = s[i]
  BY <1>d, CopyCells, ZenonT(60)
<1> HIDE DEF q
<1>2. /\ r \in [D -> Cell]
      /\ \A i \in D : i < k \/ i >= k + Len(t) => r[i] = q[i]
      /\ \A i \in 1 .. Len(t) : k + i - 1 \in D => r[k + i - 1] = t[i]
  BY <1>d, <1>1, CopyCells, ZenonT(60)
<1> HIDE DEF r
<1>3. ASSUME NEW i \in 1 .. Len(s)
      PROVE  r[h + i - 1] = s[i]
  <2> DEFINE j == h + i - 1
  <2>1. j \in D /\ (j < k \/ j >= k + Len(t)) /\ q[j] = s[i]
    BY <1>d, <1>1
  <2>2. r[j] = q[j]
    <3> HIDE DEF j
    <3> QED
      BY <1>2, <2>1
  <2> QED
    BY <2>1, <2>2
<1>4. ASSUME NEW i \in 1 .. Len(t)
      PROVE  r[k + i - 1] = t[i]
  BY <1>d, <1>2
<1> QED
  BY <1>2, <1>3, <1>4 DEF q, r

(* The cells of the elements, as facts about p.                            *)
LEMMA Facts ==
    ASSUME TypeOK, InBounds, NEW s \in Bulk
    PROVE  /\ s \in Seq(Cell) /\ Len(s) \in Nat /\ Len(s) > 0
           /\ capacity \in Nat /\ header \in Nat /\ count \in Nat
           /\ p \in [0 .. capacity - 1 -> Cell] /\ header + count <= capacity
           /\ Contents \in Seq(Cell)
           /\ Len(Contents) = count
           /\ \A i \in 1 .. count : Contents[i] = p[header + i - 1]
BY BulkType, ContentsType, ConstantsAssumption DEF TypeOK, InBounds, Cell

(* Every push adds to m_count.                                             *)
LEMMA PushedFacts ==
    ASSUME TypeOK, InBounds, NEW s \in Bulk, Pushed(s)
    PROVE  /\ count' = count + Len(s) /\ count' \in 0 .. MaxCount
           /\ out' = <<>> /\ out' \in Seq(Cell)
<1>1. Len(s) \in Nat /\ count \in Nat
  BY Facts
<1> QED
  BY <1>1, ConstantsAssumption DEF Pushed

(* Where pushback and pushfront leave the old and the new elements.        *)
PushedBack(s) ==
    /\ p' \in [0 .. capacity' - 1 -> Cell]
    /\ capacity' \in Nat /\ header' \in Nat
    /\ header' + count + Len(s) <= capacity'
    /\ \A i \in 1 .. Len(Contents) : p'[header' + i - 1] = Contents[i]
    /\ \A i \in 1 .. Len(s) : p'[header' + count + i - 1] = s[i]

PushedFront(s) ==
    /\ p' \in [0 .. capacity' - 1 -> Cell]
    /\ capacity' \in Nat /\ header' \in Nat
    /\ header' + count + Len(s) <= capacity'
    /\ \A i \in 1 .. Len(s) : p'[header' + i - 1] = s[i]
    /\ \A i \in 1 .. Len(Contents) : p'[header' + Len(s) + i - 1] = Contents[i]

(* pushback, behind the elements.                                          *)
LEMMA PushBackInPlaceCells ==
    ASSUME TypeOK, InBounds, NEW s \in Bulk, PushBackInPlace(s)
    PROVE  PushedBack(s)
<1> DEFINE D == 0 .. capacity - 1
           k == header + count
<1>f. /\ s \in Seq(Cell) /\ Len(s) \in Nat /\ Len(s) > 0
      /\ capacity \in Nat /\ header \in Nat /\ count \in Nat
      /\ header + count <= capacity
  BY Facts
<1>c. Contents \in Seq(Cell) /\ Len(Contents) = count
  BY Facts
<1>p. p \in [D -> Cell] /\ s \in Seq(Cell)
  BY Facts
<1>1. header' = header /\ capacity' = capacity /\ k \in Nat /\ k + Len(s) <= capacity
  BY <1>f DEF PushBackInPlace, Tail_
<1>2. D \in SUBSET Nat /\ k \in Nat
  BY <1>f, <1>1
<1>3. p' = Copy(p, k, s)
  BY DEF PushBackInPlace
<1>4. /\ p' \in [D -> Cell]
      /\ \A i \in D : i < k \/ i >= k + Len(s) => p'[i] = p[i]
      /\ \A i \in 1 .. Len(s) : k + i - 1 \in D => p'[k + i - 1] = s[i]
  <2> HIDE DEF D, k
  <2> QED
    BY <1>p, <1>2, <1>3, CopyCells, ZenonT(60)
<1>5. ASSUME NEW i \in 1 .. count
      PROVE  p'[header + i - 1] = Contents[i]
  <2> DEFINE j == header + i - 1
  <2>1. j \in D /\ (j < k \/ j >= k + Len(s))
    BY <1>f, <1>1
  <2>2. Contents[i] = p[j]
    BY Facts
  <2>3. p'[j] = p[j]
    <3> HIDE DEF D, k, j
    <3> QED
      BY <1>4, <2>1
  <2> QED
    BY <2>2, <2>3
<1>6. ASSUME NEW i \in 1 .. Len(s)
      PROVE  p'[k + i - 1] = s[i]
  <2>1. k + i - 1 \in D
    BY <1>f, <1>1
  <2> HIDE DEF D, k
  <2> QED
    BY <1>4, <2>1
<1> QED
  BY <1>f, <1>c, <1>1, <1>4, <1>5, <1>6 DEF PushedBack

(* pushback, sliding or growing.                                           *)
LEMMA PushBackMovingCells ==
    ASSUME TypeOK, InBounds, NEW s \in Bulk,
           PushBackSliding(s) \/ PushBackGrowing(s)
    PROVE  PushedBack(s)
<1> DEFINE D == Dom(capacity')
           z == 0
<1>f. /\ s \in Seq(Cell) /\ Len(s) \in Nat /\ Len(s) > 0
      /\ capacity \in Nat /\ header \in Nat /\ count \in Nat
      /\ header + count <= capacity
  BY Facts
<1>c. Contents \in Seq(Cell) /\ Len(Contents) = count
  BY Facts
<1>1. PICK b \in [D -> Cell] :
        /\ capacity' \in Nat /\ header' = 0 /\ count + Len(s) <= capacity'
        /\ p' = Copy(Copy(b, 0, Contents), count, s)
  <2>1. CASE PushBackSliding(s)
    <3>1. capacity' = capacity /\ header' = 0 /\ count + Len(s) <= capacity
      BY <2>1, <1>f DEF PushBackSliding, FitsBySliding, Tail_
    <3>2. p \in [D -> Cell] /\ p' = Copy(Copy(p, 0, Contents), count, s)
      BY <2>1, <3>1, Facts DEF PushBackSliding, Dom
    <3> QED
      BY <1>f, <3>1, <3>2
  <2>2. CASE PushBackGrowing(s)
    <3>1. capacity' \in Nat /\ header' = 0 /\ count + Len(s) <= capacity'
      BY <2>2, <1>f DEF PushBackGrowing
    <3>2. p' = Copy(Copy(Malloc(capacity'), 0, Contents), count, s)
      BY <2>2 DEF PushBackGrowing
    <3>3. Malloc(capacity') \in [D -> Cell]
      BY <3>1, MallocCells DEF Dom
    <3> QED
      BY <3>1, <3>2, <3>3
  <2> QED
    BY <2>1, <2>2
<1>a. capacity' \in Nat /\ header' = 0 /\ count + Len(s) <= capacity'
  BY <1>1
<1>b. b \in [D -> Cell]
  BY <1>1
<1>2. z \in Nat /\ z + Len(Contents) <= count /\ z + Len(Contents) <= capacity'
  BY <1>f, <1>c, <1>a
<1>5. p' = Copy(Copy(b, z, Contents), count, s)
  BY <1>1
<1>6. /\ p' \in [D -> Cell]
      /\ \A i \in 1 .. Len(Contents) : p'[z + i - 1] = Contents[i]
      /\ \A i \in 1 .. Len(s) : p'[count + i - 1] = s[i]
  <2>1. s \in Seq(Cell) /\ Contents \in Seq(Cell)
    BY <1>f, <1>c
  <2> HIDE DEF z
  <2> QED
    BY <1>2, <1>5, <1>a, <1>b, <1>f, <2>1, TwoCopies, SMTT(30)
<1> QED
  BY <1>f, <1>c, <1>a, <1>6 DEF PushedBack, Dom

(* pushfront, before the elements.                                         *)
LEMMA PushFrontInPlaceCells ==
    ASSUME TypeOK, InBounds, NEW s \in Bulk, PushFrontInPlace(s)
    PROVE  PushedFront(s)
<1> DEFINE D == 0 .. capacity - 1
           k == header - Len(s)
<1>f. /\ s \in Seq(Cell) /\ Len(s) \in Nat /\ Len(s) > 0
      /\ capacity \in Nat /\ header \in Nat /\ count \in Nat
      /\ header + count <= capacity
  BY Facts
<1>c. Contents \in Seq(Cell) /\ Len(Contents) = count
  BY Facts
<1>p. p \in [D -> Cell] /\ s \in Seq(Cell)
  BY Facts
<1>1. header' = k /\ capacity' = capacity /\ k \in Nat /\ k + Len(s) <= capacity
  BY <1>f DEF PushFrontInPlace, Tail_
<1>2. D \in SUBSET Nat /\ k \in Nat
  BY <1>f, <1>1
<1>3. p' = Copy(p, k, s)
  BY DEF PushFrontInPlace
<1>4. /\ p' \in [D -> Cell]
      /\ \A i \in D : i < k \/ i >= k + Len(s) => p'[i] = p[i]
      /\ \A i \in 1 .. Len(s) : k + i - 1 \in D => p'[k + i - 1] = s[i]
  <2> HIDE DEF D, k
  <2> QED
    BY ZenonT(40), <1>p, <1>2, <1>3, CopyCells
<1>5. ASSUME NEW i \in 1 .. count
      PROVE  p'[header + i - 1] = Contents[i]
  <2> DEFINE j == header + i - 1
  <2>1. j \in D /\ (j < k \/ j >= k + Len(s))
    BY <1>f, <1>1
  <2>2. Contents[i] = p[j]
    BY Facts
  <2>3. p'[j] = p[j]
    <3> HIDE DEF D, k, j
    <3> QED
      BY <1>4, <2>1
  <2> QED
    BY <2>2, <2>3
<1>6. ASSUME NEW i \in 1 .. Len(s)
      PROVE  p'[k + i - 1] = s[i]
  <2>1. k + i - 1 \in D
    BY <1>f, <1>1
  <2> HIDE DEF D, k
  <2> QED
    BY <1>4, <2>1
<1>7. \A i \in 1 .. count : header' + Len(s) + i - 1 = header + i - 1
  BY <1>f, <1>1
<1> QED
  BY <1>f, <1>c, <1>1, <1>4, <1>5, <1>6, <1>7 DEF PushedFront

(* pushfront, sliding or growing.                                          *)
LEMMA PushFrontMovingCells ==
    ASSUME TypeOK, InBounds, NEW s \in Bulk,
           PushFrontSliding(s) \/ PushFrontGrowing(s)
    PROVE  PushedFront(s)
<1> DEFINE D == Dom(capacity')
           k == header' + Len(s)
<1>f. /\ s \in Seq(Cell) /\ Len(s) \in Nat /\ Len(s) > 0
      /\ capacity \in Nat /\ header \in Nat /\ count \in Nat
      /\ header + count <= capacity
  BY Facts
<1>c. Contents \in Seq(Cell) /\ Len(Contents) = count
  BY Facts
<1>1. PICK b \in [D -> Cell] :
        /\ capacity' \in Nat /\ header' \in Nat /\ k + count <= capacity'
        /\ p' = Copy(Copy(b, k, Contents), header', s)
  <2>1. CASE PushFrontSliding(s)
    <3>1. /\ capacity' = capacity /\ header' \in Nat
          /\ Space = k /\ k + count <= capacity'
      BY <2>1, <1>f DEF PushFrontSliding, FitsAtEnd, Space
    <3>2. p \in [D -> Cell] /\ p' = Copy(Copy(p, k, Contents), header', s)
      <4>1. p' = Copy(Copy(p, Space, Contents), header', s)
        BY <2>1 DEF PushFrontSliding
      <4>2. p \in [D -> Cell]
        BY <3>1, Facts DEF Dom
      <4> QED
        BY <3>1, <4>1, <4>2
    <3> QED
      BY <1>f, <3>1, <3>2
  <2>2. CASE PushFrontGrowing(s)
    <3>1. capacity' \in Nat /\ header' \in Nat /\ k + count <= capacity'
      BY <2>2, <1>f DEF PushFrontGrowing
    <3>2. p' = Copy(Copy(Malloc(capacity'), k, Contents), header', s)
      BY <2>2 DEF PushFrontGrowing
    <3>3. Malloc(capacity') \in [D -> Cell]
      BY <3>1, MallocCells DEF Dom
    <3> QED
      BY <3>1, <3>2, <3>3
  <2> QED
    BY <2>1, <2>2
<1>a. capacity' \in Nat /\ header' \in Nat /\ k + count <= capacity'
  BY <1>1
<1>b. b \in [D -> Cell]
  BY <1>1
<1>2. k \in Nat /\ header' + Len(s) <= k /\ header' + Len(s) <= capacity'
      /\ k + Len(Contents) <= capacity'
  BY <1>f, <1>c, <1>a
<1>5. p' = Copy(Copy(b, k, Contents), header', s)
  BY <1>1
<1>6. /\ p' \in [D -> Cell]
      /\ \A i \in 1 .. Len(Contents) : p'[k + i - 1] = Contents[i]
      /\ \A i \in 1 .. Len(s) : p'[header' + i - 1] = s[i]
  <2>1. s \in Seq(Cell) /\ Contents \in Seq(Cell)
    BY <1>f, <1>c
  <2> HIDE DEF k
  <2> QED
    BY <1>2, <1>5, <1>a, <1>b, <1>f, <2>1, TwoCopies, SMTT(30)
<1>7. header' + count + Len(s) <= capacity'
  BY <1>f, <1>a
<1>8. p' \in [0 .. capacity' - 1 -> Cell]
  BY <1>6 DEF Dom
<1> QED
  BY <1>a, <1>6, <1>7, <1>8 DEF PushedFront

(* Every way of pushback, and of pushfront.                                *)
LEMMA PushBackPuts ==
    ASSUME TypeOK, InBounds, NEW s \in Bulk,
           PushBackInPlace(s) \/ PushBackSliding(s) \/ PushBackGrowing(s)
    PROVE  PushedBack(s) /\ Pushed(s)
BY PushBackInPlaceCells, PushBackMovingCells
   DEF PushBackInPlace, PushBackSliding, PushBackGrowing

LEMMA PushFrontPuts ==
    ASSUME TypeOK, InBounds, NEW s \in Bulk,
           PushFrontInPlace(s) \/ PushFrontSliding(s) \/ PushFrontGrowing(s)
    PROVE  PushedFront(s) /\ Pushed(s)
BY PushFrontInPlaceCells, PushFrontMovingCells
   DEF PushFrontInPlace, PushFrontSliding, PushFrontGrowing

(* The elements after a push, read from the buffer: joined in the order in *)
(* which they lie.                                                         *)
LEMMA JoinedCells ==
    ASSUME NEW b, NEW h \in Nat, NEW s \in Seq(Cell), NEW t \in Seq(Cell),
           \A i \in 1 .. Len(s) : b[h + i - 1] = s[i],
           \A i \in 1 .. Len(t) : b[h + Len(s) + i - 1] = t[i]
    PROVE  Cells(b, h, Len(s) + Len(t)) = s \o t
<1> DEFINE n == Len(s) + Len(t)
<1>1. Len(s) \in Nat /\ Len(t) \in Nat /\ n \in Nat
  OBVIOUS
<1>2. ASSUME NEW i \in 1 .. n
      PROVE  b[h + i - 1] = (s \o t)[i]
  <2>1. CASE i <= Len(s)
    <3>1. i \in 1 .. Len(s) /\ (s \o t)[i] = s[i]
      BY <1>1, <2>1
    <3> QED
      BY <3>1
  <2>2. CASE i > Len(s)
    <3> DEFINE j == i - Len(s)
    <3>1. j \in 1 .. Len(t) /\ h + i - 1 = h + Len(s) + j - 1
      BY <1>1, <2>2
    <3>2. (s \o t)[i] = t[j]
      BY <1>1, <2>2
    <3>3. b[h + Len(s) + j - 1] = t[j]
      <4> HIDE DEF j
      <4> QED
        BY <3>1
    <3> QED
      BY <3>1, <3>2, <3>3
  <2> QED
    BY <1>1, <2>1, <2>2
<1>3. s \o t \in Seq(Cell) /\ Len(s \o t) = n
  OBVIOUS
<1>4. s \o t = [i \in 1 .. n |-> (s \o t)[i]]
  <2> DEFINE r == s \o t
  <2> HIDE DEF r, n
  <2>1. r \in Seq(Cell) /\ Len(r) = n
    BY <1>3 DEF r
  <2>2. r = [i \in 1 .. n |-> r[i]]
    BY <2>1
  <2> QED
    BY <2>2 DEF r
<1>5. [i \in 1 .. n |-> b[h + i - 1]] = [i \in 1 .. n |-> (s \o t)[i]]
  BY <1>2
<1> QED
  BY <1>4, <1>5 DEF Cells

(* A part of the elements is a part of the cells.                          *)
LEMMA FirstCells ==
    ASSUME NEW b, NEW h \in Nat, NEW n \in Nat, NEW j \in 0 .. n
    PROVE  SubSeq(Cells(b, h, n), 1, j) = Cells(b, h, j)
<1>1. ASSUME NEW k \in 1 .. j
      PROVE  Cells(b, h, n)[k] = b[h + k - 1]
  BY DEF Cells
<1>2. SubSeq(Cells(b, h, n), 1, j) = [k \in 1 .. j |-> Cells(b, h, n)[k]]
  BY DEF Cells
<1> QED
  BY <1>1, <1>2 DEF Cells

LEMMA LastCells ==
    ASSUME NEW b, NEW h \in Nat, NEW n \in Nat, NEW i \in 1 .. n + 1
    PROVE  SubSeq(Cells(b, h, n), i, n) = Cells(b, h + i - 1, n - i + 1)
<1>1. ASSUME NEW k \in 1 .. n - i + 1
      PROVE  Cells(b, h, n)[i + k - 1] = b[h + i - 1 + k - 1]
  <2>1. i + k - 1 \in 1 .. n /\ h + (i + k - 1) - 1 = h + i - 1 + k - 1
    OBVIOUS
  <2> QED
    BY <2>1 DEF Cells
<1>2. SubSeq(Cells(b, h, n), i, n)
        = [k \in 1 .. (1 + n - i) |-> Cells(b, h, n)[i + k - 1]]
  BY DEF Cells
<1>3. 1 + n - i = n - i + 1
  OBVIOUS
<1> QED
  BY <1>1, <1>2, <1>3 DEF Cells

(* A push adds its elements at its end of the deque, wherever in the       *)
(* buffer that end is.                                                     *)
LEMMA PushJoins ==
    ASSUME TypeOK, InBounds, NEW s \in Bulk, Pushed(s)
    PROVE  /\ PushedBack(s) => Contents' = Contents \o s
           /\ PushedFront(s) => Contents' = s \o Contents
<1>f. /\ s \in Seq(Cell) /\ Contents \in Seq(Cell)
      /\ Len(s) \in Nat /\ count \in Nat /\ Len(Contents) = count
  BY Facts
<1>o. count' = Len(Contents) + Len(s) /\ count' = Len(s) + Len(Contents)
  BY <1>f, PushedFacts
<1> DEFINE b == p'
           h == header'
<1>1. ASSUME PushedBack(s)
      PROVE  Contents' = Contents \o s
  <2>1. /\ h \in Nat
        /\ \A i \in 1 .. Len(Contents) : b[h + i - 1] = Contents[i]
        /\ \A i \in 1 .. Len(s) : b[h + Len(Contents) + i - 1] = s[i]
    BY <1>1, <1>f DEF PushedBack
  <2> HIDE DEF b, h
  <2>2. Cells(b, h, Len(Contents) + Len(s)) = Contents \o s
    BY <1>f, <2>1, JoinedCells
  <2> QED
    BY <1>o, <2>2 DEF Contents, b, h
<1>2. ASSUME PushedFront(s)
      PROVE  Contents' = s \o Contents
  <2>1. /\ h \in Nat
        /\ \A i \in 1 .. Len(s) : b[h + i - 1] = s[i]
        /\ \A i \in 1 .. Len(Contents) : b[h + Len(s) + i - 1] = Contents[i]
    BY <1>2, <1>f DEF PushedFront
  <2> HIDE DEF b, h
  <2>2. Cells(b, h, Len(s) + Len(Contents)) = s \o Contents
    BY <1>f, <2>1, JoinedCells
  <2> QED
    BY <1>o, <2>2 DEF Contents, b, h
<1> QED
  BY <1>1, <1>2

(***************************************************************************)
(* The inductive invariant.                                                *)
(***************************************************************************)
(* A push keeps elements written and inside the buffer.                    *)
LEMMA PushKeeps ==
    ASSUME IInv, NEW s \in Bulk, PushedBack(s) \/ PushedFront(s), Pushed(s)
    PROVE  TypeOK' /\ InBounds' /\ NoJunk'
<1>t. TypeOK /\ InBounds
  BY DEF IInv
<1>f. s \in Seq(Elem) /\ Len(s) \in Nat /\ count \in Nat
  BY <1>t, Facts, BulkType
<1>o. /\ count' = count + Len(s) /\ count' \in 0 .. MaxCount
      /\ out' \in Seq(Cell)
  BY <1>t, PushedFacts
<1>p. /\ p' \in [0 .. capacity' - 1 -> Cell]
      /\ capacity' \in Nat /\ header' \in Nat
      /\ header' + count + Len(s) <= capacity'
  BY DEF PushedBack, PushedFront
<1>1. TypeOK'
  BY <1>o, <1>p DEF TypeOK, Cell
<1>2. InBounds'
  BY <1>f, <1>o, <1>p DEF InBounds
<1>3. Contents \in Seq(Elem)
  BY DEF IInv, NoJunk
<1>4. Contents' = Contents \o s \/ Contents' = s \o Contents
  BY <1>t, PushJoins
<1>5. NoJunk'
  <2>1. Contents' \in Seq(Elem)
    <3> DEFINE c == Contents
               d == Contents'
    <3> HIDE DEF c, d
    <3>1. c \in Seq(Elem) /\ (d = c \o s \/ d = s \o c)
      BY <1>3, <1>4 DEF c, d
    <3>2. c \o s \in Seq(Elem) /\ s \o c \in Seq(Elem)
      BY <1>f, <3>1
    <3>3. d \in Seq(Elem)
      BY <3>1, <3>2
    <3> QED
      BY <3>3 DEF d
  <2> QED
    BY <2>1 DEF NoJunk
<1> QED
  BY <1>1, <1>2, <1>5

(* A buffer grows only when it is at most twice the elements there will be.*)
LEMMA PushKeepsCapacity ==
    ASSUME IInv, NEW s \in Bulk, Push(s)
    PROVE  CapacityBounded'
<1>t. TypeOK /\ InBounds
  BY DEF IInv
<1>f. /\ Len(s) \in Nat /\ Len(s) > 0
      /\ capacity \in Nat /\ header \in Nat /\ count \in Nat
      /\ header + count <= capacity /\ MaxCount \in Nat /\ InitialCapacity \in Nat
  BY <1>t, Facts, ConstantsAssumption
<1>1. CASE capacity' = capacity
  BY <1>1 DEF CapacityBounded, IInv
<1>2. CASE PushBackGrowing(s)
  <2>1. /\ capacity' = Len(s) + capacity * 2 /\ count + Len(s) <= MaxCount
        /\ ~(capacity - (header + count) + header > count + Len(s))
    BY <1>2 DEF PushBackGrowing, FitsBySliding, Tail_, Pushed
  <2>2. capacity' <= 4 * MaxCount
    BY <1>f, <2>1
  <2> QED
    BY <2>2 DEF CapacityBounded
<1>3. CASE PushFrontGrowing(s)
  <2>1. /\ capacity' = Len(s) + capacity * 2 /\ count + Len(s) <= MaxCount
        /\ ~(capacity - count > Len(s) /\ count < capacity \div 2)
    BY <1>3 DEF PushFrontGrowing, FitsAtEnd, Space, Pushed
  <2>2. capacity' <= 4 * MaxCount
    BY <1>f, <2>1
  <2> QED
    BY <2>2 DEF CapacityBounded
<1> QED
  BY <1>1, <1>2, <1>3 DEF Push, PushBackInPlace, PushBackSliding,
     PushFrontInPlace, PushFrontSliding

(***************************************************************************)
(* Taking elements.                                                        *)
(***************************************************************************)
(* No cells are an empty sequence.                                         *)
LEMMA NoCells == ASSUME NEW b, NEW h PROVE Cells(b, h, 0) = <<>>
BY DEF Cells

(* A pop takes no more than there is.                                      *)
LEMMA LeastIs ==
    ASSUME TypeOK, NEW n \in Nat
    PROVE  Least(n) \in 0 .. count /\ count \in Nat
BY ConstantsAssumption DEF TypeOK, Least

(* popfront gives the first elements, and the others stay.                 *)
LEMMA PopFrontTakes ==
    ASSUME TypeOK, InBounds, NEW k \in Nat, popfront(k)
    PROVE  /\ out' = SubSeq(Contents, 1, Least(k))
           /\ Contents' = SubSeq(Contents, Least(k) + 1, count)
           /\ TypeOK' /\ InBounds'
<1> DEFINE n == Least(k)
<1>1. /\ n \in 0 .. count /\ count \in Nat /\ header \in Nat
      /\ capacity \in Nat /\ header + count <= capacity
  BY LeastIs DEF TypeOK, InBounds
<1>2. /\ out' = Cells(p, header, n) /\ count' = count - n
      /\ header' = (IF count' = 0 THEN 0 ELSE header + n)
      /\ p' = p /\ capacity' = capacity
  BY DEF popfront
<1> HIDE DEF n
<1>3. SubSeq(Contents, 1, n) = Cells(p, header, n)
  BY <1>1, FirstCells DEF Contents
<1>4. SubSeq(Contents, n + 1, count) = Cells(p, header + n, count - n)
  <2> DEFINE i == n + 1
  <2>1. /\ i \in 1 .. count + 1 /\ header + i - 1 = header + n
        /\ count - i + 1 = count - n
    BY <1>1
  <2>2. SubSeq(Contents, i, count) = Cells(p, header + i - 1, count - i + 1)
    <3>1. header \in Nat /\ count \in Nat /\ i \in 1 .. count + 1
      BY <1>1, <2>1
    <3> HIDE DEF i
    <3> QED
      BY <3>1, LastCells, ZenonT(60) DEF Contents
  <2> QED
    BY <2>1, <2>2
<1>5. out' = SubSeq(Contents, 1, n)
  BY <1>2, <1>3
<1>6. Contents' = SubSeq(Contents, n + 1, count)
  <2>2. Contents' = Cells(p, header', count - n)
    BY <1>2 DEF Contents
  <2>3. CASE count - n = 0
    BY <1>4, <2>2, <2>3, NoCells
  <2>4. CASE count - n # 0
    BY <1>2, <1>4, <2>2, <2>4
  <2> QED
    BY <2>3, <2>4
<1>7. out' \in Seq(Cell)
  BY <1>1, <1>5, ContentsType
<1>8. TypeOK'
  <2>1. /\ count' \in 0 .. MaxCount /\ header' \in Nat
        /\ capacity' \in Nat
    BY <1>1, <1>2, ConstantsAssumption DEF TypeOK
  <2> QED
    BY <1>2, <1>7, <2>1 DEF TypeOK, Cell
<1>9. InBounds'
  BY <1>1, <1>2 DEF InBounds
<1> QED
  BY <1>5, <1>6, <1>8, <1>9 DEF n

(* popback gives the last elements, in their order, and the others stay.   *)
LEMMA PopBackTakes ==
    ASSUME TypeOK, InBounds, NEW k \in Nat, popback(k)
    PROVE  /\ out' = SubSeq(Contents, count - Least(k) + 1, count)
           /\ Contents' = SubSeq(Contents, 1, count - Least(k))
           /\ TypeOK' /\ InBounds'
<1> DEFINE n == Least(k)
           r == count - n
<1>0. n \in 0 .. count /\ count \in Nat
  BY LeastIs
<1>1. /\ n \in 0 .. count /\ count \in Nat /\ header \in Nat
      /\ capacity \in Nat /\ header + count <= capacity /\ r \in 0 .. count
      /\ n = count - r
  BY <1>0 DEF TypeOK, InBounds
<1>2. /\ out' = Cells(p, header + r, n) /\ count' = r
      /\ header' = (IF r = 0 THEN 0 ELSE header)
      /\ p' = p /\ capacity' = capacity
  BY DEF popback
<1> HIDE DEF n, r
<1>3. SubSeq(Contents, r + 1, count) = Cells(p, header + r, count - r)
  <2> DEFINE i == r + 1
  <2>1. /\ i \in 1 .. count + 1 /\ header + i - 1 = header + r
        /\ count - i + 1 = count - r
    BY <1>1
  <2>2. SubSeq(Contents, i, count) = Cells(p, header + i - 1, count - i + 1)
    <3>1. header \in Nat /\ count \in Nat /\ i \in 1 .. count + 1
      BY <1>1, <2>1
    <3> HIDE DEF i
    <3> QED
      BY <3>1, LastCells, ZenonT(60) DEF Contents
  <2> QED
    BY <2>1, <2>2
<1>4. SubSeq(Contents, 1, r) = Cells(p, header, r)
  BY <1>1, FirstCells DEF Contents
<1>5. out' = SubSeq(Contents, r + 1, count)
  BY <1>1, <1>2, <1>3
<1>6. Contents' = SubSeq(Contents, 1, r)
  <2>2. Contents' = Cells(p, header', r)
    BY <1>2 DEF Contents
  <2>3. CASE r = 0
    BY <1>4, <2>2, <2>3, NoCells
  <2>4. CASE r # 0
    BY <1>2, <1>4, <2>2, <2>4
  <2> QED
    BY <2>3, <2>4
<1>7. out' \in Seq(Cell)
  BY <1>1, <1>5, ContentsType
<1>8. TypeOK'
  <2>1. /\ count' \in 0 .. MaxCount /\ header' \in Nat
        /\ capacity' \in Nat
    BY <1>1, <1>2, ConstantsAssumption DEF TypeOK
  <2> QED
    BY <1>2, <1>7, <2>1 DEF TypeOK, Cell
<1>9. InBounds'
  BY <1>1, <1>2 DEF InBounds
<1> QED
  BY <1>5, <1>6, <1>8, <1>9 DEF n, r

(* ClearResultCallbackPool and clear keep a first part of the elements.    *)
LEMMA TruncateKeeps ==
    ASSUME TypeOK, InBounds, NEW n \in 0 .. count, count' = n,
           header' = (IF n = 0 THEN 0 ELSE header), out' = <<>>,
           p' = p, capacity' = capacity
    PROVE  /\ Contents' = SubSeq(Contents, 1, n)
           /\ TypeOK' /\ InBounds'
<1>1. /\ count \in Nat /\ header \in Nat /\ n \in Nat /\ n <= count
      /\ capacity \in Nat /\ header + count <= capacity /\ count <= MaxCount
  BY ConstantsAssumption DEF TypeOK, InBounds
<1>2. SubSeq(Contents, 1, n) = Cells(p, header, n)
  BY <1>1, FirstCells DEF Contents
<1>4. Contents' = Cells(p, header', n)
  BY DEF Contents
<1>5. Contents' = SubSeq(Contents, 1, n)
  <2>1. CASE n = 0
    BY <1>2, <1>4, <2>1, NoCells
  <2>2. CASE n # 0
    BY <1>2, <1>4, <2>2
  <2> QED
    BY <2>1, <2>2
<1>6. TypeOK'
  BY <1>1, ConstantsAssumption DEF TypeOK
<1>7. InBounds'
  BY <1>1 DEF InBounds
<1> QED
  BY <1>5, <1>6, <1>7

(* shrink_to_fit changes the buffer and no element.                        *)
LEMMA ShrinkKeeps ==
    ASSUME TypeOK, InBounds, shrink_to_fit
    PROVE  Contents' = Contents /\ TypeOK' /\ InBounds'
<1> DEFINE D == Dom(count)
           b == Malloc(count)
           z == 0
<1>1. Contents \in Seq(Cell) /\ Len(Contents) = count /\ count \in Nat
  BY ContentsType, ConstantsAssumption DEF TypeOK
<1>2. /\ p' = Copy(b, z, Contents) /\ header' = 0 /\ capacity' = count
      /\ count' = count /\ out' = out
  BY DEF shrink_to_fit
<1>3. D \in SUBSET Nat /\ b \in [D -> Cell] /\ z \in Nat
  BY <1>1, MallocCells DEF Dom
<1>4. /\ p' \in [D -> Cell]
      /\ \A i \in 1 .. count : z + i - 1 \in D => p'[z + i - 1] = Contents[i]
  <2> HIDE DEF D, b, z
  <2> QED
    BY <1>1, <1>2, <1>3, CopyCells, ZenonT(60)
<1>5. \A i \in 1 .. count : p'[0 + i - 1] = Contents[i]
  BY <1>1, <1>4 DEF Dom
<1>6. Contents' = [i \in 1 .. count |-> p'[0 + i - 1]]
  BY <1>2 DEF Contents, Cells
<1>7. Contents = [i \in 1 .. count |-> Contents[i]]
  BY <1>1
<1>8. Contents' = Contents
  BY <1>5, <1>6, <1>7
<1>9. TypeOK'
  BY <1>1, <1>2, <1>4 DEF TypeOK, Cell, Dom
<1> QED
  BY <1>1, <1>2, <1>8, <1>9 DEF InBounds

(***************************************************************************)
(* Every step keeps the inductive invariant.                               *)
(***************************************************************************)
(* A capacity that stays, or shrinks to the elements, is within the bound. *)
LEMMA CapacityKept ==
    ASSUME IInv, capacity' = capacity \/ capacity' = count
    PROVE  CapacityBounded'
<1>1. MaxCount \in Nat /\ count \in Nat /\ count <= MaxCount
  BY ConstantsAssumption DEF IInv, TypeOK
<1> QED
  BY <1>1, ConstantsAssumption DEF IInv, CapacityBounded

(* Every operation keeps the invariant.                                    *)
LEMMA NextIInv == IInv /\ [Next]_vars => IInv'
<1> SUFFICES ASSUME IInv, [Next]_vars
             PROVE  IInv'
  OBVIOUS
<1>t. TypeOK /\ InBounds /\ NoJunk /\ CapacityBounded
  BY DEF IInv
<1>c. /\ Contents \in Seq(Elem) /\ Len(Contents) = count /\ count \in Nat
      /\ count <= MaxCount
  BY <1>t, ContentsType, ConstantsAssumption DEF NoJunk, TypeOK
<1>1. ASSUME NEW s \in Bulk, Push(s)
      PROVE  IInv'
  <2>1. Pushed(s) /\ (PushedBack(s) \/ PushedFront(s))
    BY <1>t, <1>1, PushBackPuts, PushFrontPuts DEF Push
  <2>2. TypeOK' /\ InBounds' /\ NoJunk'
    BY <2>1, PushKeeps
  <2> QED
    BY <1>1, <2>2, PushKeepsCapacity DEF IInv
<1>2. ASSUME NEW n \in 1 .. MaxCount + 1, popfront(n)
      PROVE  IInv'
  <2>n. n \in Nat /\ Least(n) \in 0 .. count
    BY <1>t, LeastIs, ConstantsAssumption
  <2>1. Contents' = SubSeq(Contents, Least(n) + 1, count) /\ TypeOK' /\ InBounds'
    BY <1>t, <1>2, <2>n, PopFrontTakes
  <2>2. NoJunk'
    BY <1>c, <2>n, <2>1 DEF NoJunk
  <2>3. CapacityBounded'
    BY <1>2, CapacityKept DEF popfront
  <2> QED
    BY <2>1, <2>2, <2>3 DEF IInv
<1>3. ASSUME NEW n \in 1 .. MaxCount + 1, popback(n)
      PROVE  IInv'
  <2>n. n \in Nat /\ Least(n) \in 0 .. count
    BY <1>t, LeastIs, ConstantsAssumption
  <2>1. Contents' = SubSeq(Contents, 1, count - Least(n)) /\ TypeOK' /\ InBounds'
    BY <1>t, <1>3, <2>n, PopBackTakes
  <2>2. NoJunk'
    BY <1>c, <2>n, <2>1 DEF NoJunk
  <2>3. CapacityBounded'
    BY <1>3, CapacityKept DEF popback
  <2> QED
    BY <2>1, <2>2, <2>3 DEF IInv
<1>4. ASSUME NEW n \in 0 .. count, count' = n,
             header' = (IF n = 0 THEN 0 ELSE header), out' = <<>>,
             p' = p, capacity' = capacity
      PROVE  IInv'
  <2>1. Contents' = SubSeq(Contents, 1, n) /\ TypeOK' /\ InBounds'
    BY <1>t, <1>4, TruncateKeeps
  <2>2. NoJunk'
    BY <1>c, <2>1 DEF NoJunk
  <2>3. CapacityBounded'
    BY <1>4, CapacityKept
  <2> QED
    BY <2>1, <2>2, <2>3 DEF IInv
<1>5. ASSUME NEW n \in 0 .. MaxCount + 1, ClearResultCallbackPool(n)
      PROVE  IInv'
  <2>1. n \in Nat /\ Least(n) \in 0 .. count
    BY <1>t, LeastIs, ConstantsAssumption
  <2> QED
    BY <1>4, <1>5, <2>1 DEF ClearResultCallbackPool
<1>6. CASE clear
  <2>1. 0 \in 0 .. count
    BY <1>c
  <2> QED
    BY <1>4, <1>6, <2>1 DEF clear
<1>7. CASE PopNothing
  <2>1. TypeOK' /\ InBounds' /\ CapacityBounded'
    BY <1>t, <1>7 DEF PopNothing, TypeOK, InBounds, CapacityBounded
  <2>2. NoJunk'
    BY <1>t, <1>7 DEF PopNothing, NoJunk, Contents
  <2> QED
    BY <2>1, <2>2 DEF IInv
<1>8. CASE shrink_to_fit
  <2>1. Contents' = Contents /\ TypeOK' /\ InBounds'
    BY <1>t, <1>8, ShrinkKeeps
  <2>2. CapacityBounded'
    BY <1>8, CapacityKept DEF shrink_to_fit
  <2> QED
    BY <1>t, <2>1, <2>2 DEF IInv, NoJunk
<1>9. CASE UNCHANGED vars
  BY <1>t, <1>9 DEF vars, IInv, TypeOK, InBounds, NoJunk, Contents, CapacityBounded
<1> QED
  BY <1>1, <1>2, <1>3, <1>5, <1>6, <1>7, <1>8, <1>9 DEF Next

(* The invariant holds in every reachable state.                           *)
LEMMA Inductive == Spec => []IInv
BY InitIInv, NextIInv, PTL DEF Spec

(* A deque's fields have their types.                                      *)
THEOREM TypeCorrect == Spec => []TypeOK
<1>1. IInv => TypeOK
  BY DEF IInv
<1> QED
  BY <1>1, Inductive, PTL

(* The elements lie inside the buffer: no memcpy or memmove of a push, a   *)
(* pop or a shrink reads or writes outside it, and no unsigned difference  *)
(* wraps around.                                                           *)
THEOREM ElementsInBounds == Spec => []InBounds
<1>1. IInv => InBounds
  BY DEF IInv
<1> QED
  BY <1>1, Inductive, PTL

(* No operation makes an element of a cell that was never written.         *)
THEOREM ElementsWritten == Spec => []NoJunk
<1>1. IInv => NoJunk
  BY DEF IInv
<1> QED
  BY <1>1, Inductive, PTL

(* The buffer never grows beyond its initial capacity and four times the   *)
(* most elements the deque holds, however its two ends are used.           *)
THEOREM BufferBounded == Spec => []CapacityBounded
<1>1. IInv => CapacityBounded
  BY DEF IInv
<1> QED
  BY <1>1, Inductive, PTL

(***************************************************************************)
(* The buffer implements the deque.                                        *)
(***************************************************************************)
(* A new CSafeDeque is an empty deque.                                     *)
LEMMA InitRefines == Init => Abstract!Init
<1> SUFFICES ASSUME Init PROVE Abstract!Init
  OBVIOUS
<1>1. Contents = <<>> /\ out = <<>>
  BY DEF Init, Contents, Cells
<1> QED
  BY <1>1 DEF Abstract!Init

(* Every operation is one of the deque, or changes nothing there.          *)
LEMMA StepRefines ==
    IInv /\ [Next]_vars => [Abstract!Next]_<<Contents, out>>
<1> SUFFICES ASSUME IInv, [Next]_vars
             PROVE  [Abstract!Next]_<<Contents, out>>
  OBVIOUS
<1>t. TypeOK /\ InBounds
  BY DEF IInv
<1>c. Len(Contents) = count /\ count \in Nat /\ Contents \in Seq(Cell)
  BY <1>t, ContentsType, ConstantsAssumption DEF TypeOK
<1>1. ASSUME NEW s \in Bulk, Push(s)
      PROVE  Abstract!Next
  <2>1. Pushed(s) /\ (PushedBack(s) \/ PushedFront(s))
    BY <1>t, <1>1, PushBackPuts, PushFrontPuts DEF Push
  <2>2. Contents' = Contents \o s \/ Contents' = s \o Contents
    BY <1>t, <2>1, PushJoins
  <2>3. out' = <<>>
    BY <2>1 DEF Pushed
  <2>4. Abstract!PushBack(s) \/ Abstract!PushFront(s)
    BY <2>2, <2>3 DEF Abstract!PushBack, Abstract!PushFront
  <2> QED
    BY <2>4 DEF Abstract!Next
<1>2. ASSUME NEW n \in 1 .. MaxCount + 1, popfront(n)
      PROVE  Abstract!Next
  <2>n. n \in Nat /\ Least(n) \in 0 .. count
    BY <1>t, LeastIs, ConstantsAssumption
  <2>1. /\ Contents' = SubSeq(Contents, Least(n) + 1, count)
        /\ out' = SubSeq(Contents, 1, Least(n))
    BY <1>t, <1>2, <2>n, PopFrontTakes
  <2>2. Abstract!PopFront(Least(n))
    BY <1>c, <2>1 DEF Abstract!PopFront
  <2> QED
    BY <1>c, <2>n, <2>2 DEF Abstract!Next
<1>3. ASSUME NEW n \in 1 .. MaxCount + 1, popback(n)
      PROVE  Abstract!Next
  <2>n. n \in Nat /\ Least(n) \in 0 .. count
    BY <1>t, LeastIs, ConstantsAssumption
  <2>1. /\ Contents' = SubSeq(Contents, 1, count - Least(n))
        /\ out' = SubSeq(Contents, count - Least(n) + 1, count)
    BY <1>t, <1>3, <2>n, PopBackTakes
  <2>2. Abstract!PopBack(Least(n))
    BY <1>c, <2>1 DEF Abstract!PopBack
  <2> QED
    BY <1>c, <2>n, <2>2 DEF Abstract!Next
<1>4. ASSUME NEW n \in 0 .. count, count' = n,
             header' = (IF n = 0 THEN 0 ELSE header), out' = <<>>,
             p' = p, capacity' = capacity
      PROVE  Abstract!Next
  <2>1. Contents' = SubSeq(Contents, 1, n)
    BY <1>t, <1>4, TruncateKeeps
  <2>2. Abstract!Truncate(n)
    BY <1>4, <2>1 DEF Abstract!Truncate
  <2> QED
    BY <1>c, <2>2 DEF Abstract!Next
<1>5. ASSUME NEW n \in 0 .. MaxCount + 1, ClearResultCallbackPool(n)
      PROVE  Abstract!Next
  <2>1. n \in Nat /\ Least(n) \in 0 .. count
    BY <1>t, LeastIs, ConstantsAssumption
  <2> QED
    BY <1>4, <1>5, <2>1 DEF ClearResultCallbackPool
<1>z. 0 \in 0 .. count
  BY <1>c
<1>6. CASE clear
  BY <1>4, <1>6, <1>z DEF clear
<1>7. CASE PopNothing
  <2>1. Contents' = Contents /\ Contents = <<>> /\ out' = <<>>
    BY <1>7, NoCells DEF PopNothing, Contents
  <2>2. SubSeq(Contents, 1, 0) = <<>>
    BY <1>c
  <2>3. Abstract!Truncate(0)
    BY <2>1, <2>2 DEF Abstract!Truncate
  <2> QED
    BY <1>c, <1>z, <2>3 DEF Abstract!Next
<1>8. CASE shrink_to_fit
  BY <1>t, <1>8, ShrinkKeeps DEF shrink_to_fit
<1>9. CASE UNCHANGED vars
  BY <1>9 DEF vars, Contents
<1> QED
  BY <1>1, <1>2, <1>3, <1>5, <1>6, <1>7, <1>8, <1>9 DEF Next

(* CSafeDeque is a deque: whatever the buffer does (slide, grow, shrink),  *)
(* every push, pop and clear changes the elements, and returns, what the   *)
(* abstract deque does.                                                    *)
THEOREM ImplementsDeque == Spec => AbstractSpec
BY Inductive, InitRefines, StepRefines, PTL DEF Spec, AbstractSpec, Abstract!Spec

=============================================================================
