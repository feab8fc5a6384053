-------------------------- MODULE DBHandlerProofs --------------------------
(***************************************************************************)
(* What holds of the database handler for any number of threads, calls,    *)
(* statements, parameters, batch sizes and closes.                         *)
(*                                                                         *)
(* SendParametersData cuts a parameter array into requests with a loop,    *)
(* the server binds what they carry one request after the other, and the   *)
(* handler puts answers together the same way, so the theorems need        *)
(* induction over data.  NoneBad states induction up to n as a fact about  *)
(* the set of counterexamples, Recursion that a function defined by        *)
(* recursion exists; the rest is first-order.                              *)
(*                                                                         *)
(* NoStalePointer.  Known is inductive: the types, what the map and the    *)
(* senders point to (Pointers), nothing under way on a session that is not *)
(* open (Emptied), and on an open one as many waiting calls as requests    *)
(* and last answers under way (Counted).  Counted is what makes the answer *)
(* OnResult takes belong to a call that waits.                             *)
(*                                                                         *)
(* BindsOwnParameters.  Fed(b, m) is what the server has bound after       *)
(* request m if it had b before; Leads(b, q, e) says that the requests of  *)
(* q lead from b to e, and Fits that besides, at each execution in q, what *)
(* is bound are that call's own parameters.  ParametersData: what          *)
(* SendParametersData returns leads from anything to the whole array, in   *)
(* order.  Binding adds to Known that the requests under way fit, and that *)
(* those the one sender has left lead to its array (Bound), whoever sends, *)
(* fails or is disconnected meanwhile.                                     *)
(*                                                                         *)
(* RowsComplete.  Rowed(h, m) is what the handler has received after       *)
(* answer m if it had h before, and InTurn(h, m, W) what must hold for m   *)
(* to be right then; Path(RowStep(W), q, b, e) says that the answers q     *)
(* lead from b to e, each in turn.  AnswersDeliver: the answers to a call  *)
(* lead to its rowsets, from whatever was received before.  Rowing adds to *)
(* Known that the answers under way are in turn (RowsLead), that calls not *)
(* answered have received nothing, and that each call under way has its    *)
(* entry in m_mapRowset (Entered).                                         *)
(***************************************************************************)
EXTENDS DBHandler, SequenceTheorems, FiniteSetTheorems, TLAPS

(* Induction up to n, as a statement about the set of the numbers for      *)
(* which something does not hold: it is empty if it has no least element.  *)
LEMMA NoneBad ==
    ASSUME NEW n \in Nat, NEW B \in SUBSET (1 .. n), \A i \in B : i - 1 \in B
    PROVE  B = {}
<1>1. SUFFICES ASSUME NEW b \in B
               PROVE  FALSE
    OBVIOUS
<1> DEFINE T == {i \in B : i <= b}
           f == [i \in T |-> i - 1]
<1>2. /\ T \in SUBSET (1 .. n) /\ b \in T /\ b \in 1 .. n
      /\ \A i \in T : i \in 1 .. n /\ i <= b /\ i - 1 \in T
  <2>1. b \in 1 .. n /\ b <= b
    OBVIOUS
  <2>2. \A i \in T : i \in 1 .. n /\ i <= b /\ i - 1 \in B /\ i - 1 <= b
    BY <2>1
  <2> QED
    BY <2>1, <2>2
<1>3. f \in [T -> T] /\ \A i \in T : f[i] = i - 1
    BY <1>2
<1> HIDE DEF f, T
<1>4. f \in Injection(T, T)
    BY <1>2, <1>3 DEF Injection, IsInjective
<1>5. IsFiniteSet(1 .. n)
    BY FS_Interval
<1>6. IsFiniteSet(T)
    BY <1>2, <1>5, FS_Subset
<1>7. f \in Surjection(T, T)
    BY <1>4, <1>6, FS_Injection
<1>8. PICK i \in T : f[i] = b
    BY <1>2, <1>7 DEF Surjection
<1> QED
    BY <1>2, <1>3, <1>8

(* A function can be defined by recursion up to n.                         *)
Recursive(g, b, F, n) == g[0] = b /\ \A i \in 1 .. n : g[i] = F[g[i - 1]][i]

LEMMA Recursion ==
    ASSUME NEW n \in Nat, NEW V, NEW b \in V, NEW F \in [V -> [1 .. n -> V]]
    PROVE  \E g \in [0 .. n -> V] : Recursive(g, b, F, n)
<1> DEFINE Good(k) == \E g \in [0 .. k -> V] :
                          g[0] = b /\ \A i \in 1 .. k : g[i] = F[g[i - 1]][i]
           B == {k \in 1 .. n : ~Good(k)}
<1>1. Good(0)
  <2> DEFINE g == [i \in 0 .. 0 |-> b]
  <2>1. g \in [0 .. 0 -> V] /\ g[0] = b /\ \A i \in 1 .. 0 : FALSE
    OBVIOUS
  <2> HIDE DEF g
  <2> QED
    BY <2>1
<1>2. ASSUME NEW k \in 1 .. n, Good(k - 1)
      PROVE  Good(k)
  <2>1. PICK g \in [0 .. k - 1 -> V] :
            g[0] = b /\ \A i \in 1 .. k - 1 : g[i] = F[g[i - 1]][i]
    BY <1>2
  <2>2. g[k - 1] \in V /\ F[g[k - 1]] \in [1 .. n -> V]
    BY <2>1
  <2>3. F[g[k - 1]][k] \in V
    BY <2>2
  <2> DEFINE h == [i \in 0 .. k |-> IF i = k THEN F[g[k - 1]][k] ELSE g[i]]
  <2>4. h \in [0 .. k -> V] /\ h[0] = b
    BY <2>1, <2>3
  <2>5. ASSUME NEW i \in 1 .. k
        PROVE  h[i] = F[h[i - 1]][i]
    <3>1. CASE i = k
        BY <3>1
    <3>2. CASE i # k
      <4>1. h[i] = g[i] /\ h[i - 1] = g[i - 1] /\ i \in 1 .. k - 1
        BY <3>2
      <4> HIDE DEF h
      <4> QED
        BY <2>1, <4>1
    <3> QED
        BY <3>1, <3>2
  <2> QED
    BY <2>4, <2>5
<1> HIDE DEF Good
<1>3. \A k \in B : k - 1 \in B
  <2> SUFFICES ASSUME NEW k \in B
               PROVE  k - 1 \in B
    OBVIOUS
  <2>1. ~Good(k - 1) /\ k \in 1 .. n
    BY <1>2
  <2>2. k - 1 # 0
    BY <1>1, <2>1
  <2> QED
    BY <2>1, <2>2
<1>4. B \in SUBSET (1 .. n)
    OBVIOUS
<1>5. B = {}
  <2> HIDE DEF B
  <2> QED
    BY <1>3, <1>4, NoneBad
<1>6. Good(n)
    BY <1>1, <1>5
<1> QED
    BY <1>6 DEF Good, Recursive


(* FlattenSeq, as the values of its recursive function.                    *)
LEMMA Flattening ==
    ASSUME NEW M, NEW s \in Seq(Seq(M)), Len(s) # 0
    PROVE  \E g \in [1 .. Len(s) -> Seq(M)] :
               /\ g[1] = s[1] /\ \A i \in 2 .. Len(s) : g[i] = g[i - 1] \o s[i]
               /\ FlattenSeq(s) = g[Len(s)]
<1> DEFINE N == Len(s)
           Eq(g) == g = [i \in 1 .. Len(s) |-> IF i = 1 THEN s[i] ELSE g[i - 1] \o s[i]]
           fl == CHOOSE g : Eq(g)
<1>1. N \in Nat \ {0} /\ \A i \in 1 .. N : s[i] \in Seq(M)
    BY LenProperties, ElementOfSeq
<1>2. FlattenSeq(s) = fl[N]
    BY DEF FlattenSeq
<1> DEFINE F == [u \in Seq(M) |-> [i \in 1 .. N |-> IF i = 1 THEN s[1] ELSE u \o s[i]]]
<1>3. F \in [Seq(M) -> [1 .. N -> Seq(M)]]
  <2>1. ASSUME NEW u \in Seq(M), NEW i \in 1 .. N
        PROVE  (IF i = 1 THEN s[1] ELSE u \o s[i]) \in Seq(M)
    BY <1>1, ConcatProperties
  <2> QED
    BY <2>1
<1>4. \A u \in Seq(M), i \in 1 .. N : F[u][i] = IF i = 1 THEN s[1] ELSE u \o s[i]
    OBVIOUS
<1>5. <<>> \in Seq(M)
    BY EmptySeq
<1> DEFINE V == Seq(M)
           b == <<>>
<1>6. F \in [V -> [1 .. N -> V]] /\ b \in V /\ N \in Nat
    BY <1>1, <1>3, <1>5
<1> HIDE DEF F, N, V, b
<1>7. \E h \in [0 .. N -> V] : Recursive(h, b, F, N)
    BY <1>6, Recursion
<1>8. PICK h \in [0 .. N -> V] :
          h[0] = b /\ \A i \in 1 .. N : h[i] = F[h[i - 1]][i]
    BY <1>7 DEF Recursive
<1> DEFINE e == [i \in 1 .. N |-> h[i]]
<1>9. ASSUME NEW i \in 1 .. N
      PROVE  h[i] = IF i = 1 THEN s[1] ELSE h[i - 1] \o s[i]
  <2>1. i - 1 \in 0 .. N /\ h[i] = F[h[i - 1]][i]
    BY <1>6, <1>8
  <2>2. h[i - 1] \in V
    BY <2>1
  <2> QED
    BY <1>4, <2>1, <2>2 DEF V
<1>10. Eq(e)
  <2>1. \A i \in 1 .. N : i # 1 => e[i - 1] = h[i - 1]
    BY <1>1
  <2>2. \A i \in 1 .. N : e[i] = IF i = 1 THEN s[i] ELSE e[i - 1] \o s[i]
    BY <1>9, <2>1
  <2>3. DOMAIN e = 1 .. N
    OBVIOUS
  <2> HIDE DEF e
  <2>4. e = [i \in 1 .. N |-> e[i]]
    BY DEF e
  <2>5. [i \in 1 .. N |-> e[i]]
            = [i \in 1 .. N |-> IF i = 1 THEN s[i] ELSE e[i - 1] \o s[i]]
    BY <2>2
  <2> QED
    BY <2>4, <2>5 DEF N
<1>11. Eq(fl)
  <2> HIDE DEF Eq
  <2> QED
    BY <1>10
<1>12. fl = [i \in 1 .. N |-> IF i = 1 THEN s[i] ELSE fl[i - 1] \o s[i]]
    BY <1>11 DEF N
<1> HIDE DEF fl, Eq
<1> DEFINE B == {i \in 1 .. N : fl[i] \notin Seq(M)}
<1>13. \A i \in B : i - 1 \in B
  <2> SUFFICES ASSUME NEW i \in B
               PROVE  i - 1 \in B
    OBVIOUS
  <2>1. i \in 1 .. N /\ fl[i] \notin Seq(M)
    OBVIOUS
  <2>2. i # 1
    BY <1>1, <1>12, <2>1
  <2>3. fl[i] = fl[i - 1] \o s[i]
    BY <1>12, <2>1, <2>2
  <2>4. i - 1 \in 1 .. N
    BY <1>1, <2>1, <2>2
  <2>5. fl[i - 1] \notin Seq(M)
    BY <1>1, <2>1, <2>3, ConcatProperties
  <2> QED
    BY <2>5, <2>4
<1>14. B = {}
  <2>1. B \in SUBSET (1 .. N) /\ N \in Nat
    BY <1>1
  <2> HIDE DEF B
  <2> QED
    BY <1>13, <2>1, NoneBad
<1>15. fl \in [1 .. N -> Seq(M)]
    BY <1>12, <1>14
<1>16. fl[1] = s[1] /\ \A i \in 2 .. N : fl[i] = fl[i - 1] \o s[i]
  <2>1. 1 \in 1 .. N /\ \A i \in 2 .. N : i \in 1 .. N /\ i # 1
    BY <1>1
  <2> QED
    BY <1>12, <2>1
<1> QED
    BY <1>2, <1>15, <1>16 DEF N

(* A function on 1 .. n is a sequence.                                     *)
LEMMA FunctionIsSeq ==
    ASSUME NEW S, NEW n \in Nat, NEW f \in [1 .. n -> S]
    PROVE  f \in Seq(S) /\ Len(f) = n
<1> DEFINE T == UNION {[1 .. k -> S] : k \in Nat}
<1>1. f \in T
    OBVIOUS
<1>2. T = Seq(S)
    BY SeqDef, Zenon
<1> HIDE DEF T
<1>3. f \in Seq(S)
    BY <1>1, <1>2
<1>4. Len(f) \in Nat /\ DOMAIN f = 1 .. Len(f)
    BY <1>3, LenProperties
<1> QED
    BY <1>3, <1>4

(* Parameters are counted by natural numbers.                              *)
LEMMA SumType ==
    ASSUME NEW s \in Seq(Statement)
    PROVE  Sum(s) \in Nat
<1> DEFINE N == Len(s)
           Eq(g) == g = [n \in 0 .. Len(s) |->
                           IF n = 0 THEN 0 ELSE g[n - 1] + s[n].params]
           sum == CHOOSE g : Eq(g)
           F == [u \in Nat |-> [i \in 1 .. N |-> u + s[i].params]]
<1>1. N \in Nat /\ \A i \in 1 .. N : s[i].params \in Nat
  <2>1. N \in Nat /\ \A i \in 1 .. N : s[i] \in Statement
    BY LenProperties, ElementOfSeq
  <2> HIDE DEF N
  <2> QED
    BY <2>1 DEF Statement
<1>2. Sum(s) = sum[N]
    BY DEF Sum
<1>3. /\ F \in [Nat -> [1 .. N -> Nat]]
      /\ \A u \in Nat, i \in 1 .. N : F[u][i] = u + s[i].params
    BY <1>1
<1> HIDE DEF F, N
<1>4. \E h \in [0 .. N -> Nat] : Recursive(h, 0, F, N)
    BY <1>1, <1>3, Recursion
<1>5. PICK h \in [0 .. N -> Nat] : Recursive(h, 0, F, N)
    BY <1>4
<1>6. \A i \in 1 .. N : h[i] = h[i - 1] + s[i].params
  <2> SUFFICES ASSUME NEW i \in 1 .. N
               PROVE  h[i] = h[i - 1] + s[i].params
    OBVIOUS
  <2>1. i - 1 \in 0 .. N /\ h[i] = F[h[i - 1]][i]
    BY <1>1, <1>5 DEF Recursive
  <2>2. h[i - 1] \in Nat
    BY <1>5, <2>1
  <2> QED
    BY <1>3, <2>1, <2>2
<1>7. Eq(h)
  <2>1. h = [n \in 0 .. N |-> h[n]] /\ h[0] = 0
    BY <1>5 DEF Recursive
  <2>2. \A n \in 0 .. N : n # 0 => n \in 1 .. N
    BY <1>1
  <2>3. \A n \in 0 .. N : h[n] = IF n = 0 THEN 0 ELSE h[n - 1] + s[n].params
    BY <1>6, <2>1, <2>2
  <2>4. [n \in 0 .. N |-> h[n]]
            = [n \in 0 .. N |-> IF n = 0 THEN 0 ELSE h[n - 1] + s[n].params]
    BY <2>3
  <2> QED
    BY <2>1, <2>4 DEF N
<1>8. Eq(sum)
  <2> HIDE DEF Eq
  <2> QED
    BY <1>7
<1>9. sum = [n \in 0 .. N |-> IF n = 0 THEN 0 ELSE sum[n - 1] + s[n].params]
    BY <1>8 DEF N
<1> HIDE DEF sum, Eq
<1> DEFINE B == {i \in 1 .. N : sum[i] \notin Nat}
<1>10. sum[0] = 0 /\ \A i \in 1 .. N : sum[i] = sum[i - 1] + s[i].params
  <2>1. 0 \in 0 .. N /\ \A i \in 1 .. N : i \in 0 .. N /\ i # 0
    BY <1>1
  <2> QED
    BY <1>9, <2>1
<1>11. \A i \in B : i - 1 \in B
  <2> SUFFICES ASSUME NEW i \in B
               PROVE  i - 1 \in B
    OBVIOUS
  <2>1. i \in 1 .. N /\ sum[i] \notin Nat
    OBVIOUS
  <2>2. sum[i] = sum[i - 1] + s[i].params /\ s[i].params \in Nat
    BY <1>1, <1>10, <2>1
  <2>3. sum[i - 1] \notin Nat
    <3> HIDE DEF B
    <3> QED
      BY <2>1, <2>2
  <2>4. i - 1 # 0
    BY <1>10, <2>3
  <2> QED
    BY <1>1, <2>1, <2>3, <2>4
<1>12. B = {}
  <2>1. B \in SUBSET (1 .. N) /\ N \in Nat
    BY <1>1
  <2> HIDE DEF B
  <2> QED
    BY <1>11, <2>1, NoneBad
<1> QED
    BY <1>1, <1>2, <1>10, <1>12, SMTT(40)

----------------------------------------------------------------------------
(* What the server has bound after a request, as Receive and Serve say.    *)
DataIds == {"idBeginRows", "idTransferring", "idStartBLOB", "idChunk", "idEndBLOB"}
Data(c) == [id : DataIds, c : {c}, n : {0}, m : {0}, vals : Seq(Nat)]
Requests == [id : Executing \union Simple \union DataIds, c : Nat,
             n : {0}, m : {0}, vals : Seq(Nat)]

Pairs == Seq(Nat \X Nat)
Tag(c, w) == [k \in 1 .. Len(w) |-> <<c, w[k]>>]
Own(c, k) == [n \in 1 .. k |-> <<c, n>>]

Fed(b, m) ==
    CASE m.id \in Executing -> <<>>
      [] m.id = "idBeginRows" -> Tag(m.c, m.vals)
      [] m.id \in {"idTransferring", "idEndBLOB"} -> b \o Tag(m.c, m.vals)
      [] OTHER -> b

(* a is what the server has bound before and after each request of q.      *)
Feeds(a, q) ==
    /\ a \in [0 .. Len(q) -> Pairs]
    /\ \A i \in 1 .. Len(q) : a[i] = Fed(a[i - 1], q[i])

(* Values with the call they belong to.                                    *)
LEMMA TagType ==
    ASSUME NEW c \in Nat, NEW w \in Seq(Nat)
    PROVE  /\ Tag(c, w) \in Pairs /\ Len(Tag(c, w)) = Len(w)
           /\ \A k \in 1 .. Len(w) : Tag(c, w)[k] = <<c, w[k]>>
<1>1. Len(w) \in Nat /\ \A k \in 1 .. Len(w) : w[k] \in Nat
    BY LenProperties, ElementOfSeq
<1>2. Tag(c, w) \in [1 .. Len(w) -> Nat \X Nat]
    BY <1>1 DEF Tag
<1>3. \A k \in 1 .. Len(w) : Tag(c, w)[k] = <<c, w[k]>>
    BY DEF Tag
<1> QED
    BY <1>1, <1>2, <1>3, FunctionIsSeq DEF Pairs

LEMMA OwnType ==
    ASSUME NEW c \in Nat, NEW n \in Nat
    PROVE  /\ Own(c, n) \in Pairs /\ Len(Own(c, n)) = n
           /\ \A k \in 1 .. n : Own(c, n)[k] = <<c, k>>
<1>1. Own(c, n) \in [1 .. n -> Nat \X Nat]
    BY DEF Own
<1>2. \A k \in 1 .. n : Own(c, n)[k] = <<c, k>>
    BY DEF Own
<1> QED
    BY <1>1, <1>2, FunctionIsSeq DEF Pairs

(* Appending to a sequence, and to the second of two sequences.            *)
LEMMA Appended ==
    ASSUME NEW P, NEW w \in Seq(P), NEW x \in P
    PROVE  /\ Append(w, x) \in Seq(P) /\ Len(Append(w, x)) = Len(w) + 1
           /\ Append(w, x)[Len(w) + 1] = x
           /\ \A i \in 1 .. Len(w) : Append(w, x)[i] = w[i]
BY AppendProperties, LenProperties

(* Concatenation and appending, on the pairs that are bound.               *)
LEMMA ConcatAppend ==
    ASSUME NEW P, NEW e \in Seq(P), NEW w \in Seq(P), NEW x \in P
    PROVE  e \o Append(w, x) = Append(e \o w, x)
<1> DEFINE y == Append(w, x)
           u == e \o w
           l == e \o y
           r == Append(u, x)
           n == Len(e)
           k == Len(w)
<1>1. /\ y \in Seq(P) /\ Len(y) = k + 1 /\ y[k + 1] = x
      /\ \A i \in 1 .. k : y[i] = w[i]
      /\ n \in Nat /\ k \in Nat
    BY Appended, LenProperties
<1>2. /\ u \in Seq(P) /\ Len(u) = n + k
      /\ \A i \in 1 .. n + k : u[i] = IF i <= n THEN e[i] ELSE w[i - n]
    BY ConcatProperties
<1> HIDE DEF y, u
<1>3. /\ l \in Seq(P) /\ Len(l) = n + (k + 1)
      /\ \A i \in 1 .. n + (k + 1) : l[i] = IF i <= n THEN e[i] ELSE y[i - n]
  <2>1. /\ l \in Seq(P) /\ Len(l) = Len(e) + Len(y)
        /\ \A i \in 1 .. Len(e) + Len(y) :
               l[i] = IF i <= Len(e) THEN e[i] ELSE y[i - Len(e)]
    BY <1>1, ConcatProperties, Zenon
  <2> HIDE DEF l
  <2> QED
    BY <1>1, <2>1
<1>4. /\ r \in Seq(P) /\ Len(r) = (n + k) + 1 /\ r[(n + k) + 1] = x
      /\ \A i \in 1 .. n + k : r[i] = u[i]
    BY <1>2, Appended
<1> HIDE DEF l, r, n, k
<1>5. ASSUME NEW i \in 1 .. n + (k + 1)
      PROVE  l[i] = r[i]
  <2>1. CASE i <= n
    <3>1. i \in 1 .. n + k
        BY <1>1, <2>1
    <3> QED
        BY <1>2, <1>3, <1>4, <2>1, <3>1
  <2>2. CASE i > n /\ i # n + (k + 1)
    <3>1. i \in 1 .. n + k /\ i - n \in 1 .. k /\ ~(i <= n)
        BY <1>1, <2>2
    <3> QED
        BY <1>1, <1>2, <1>3, <1>4, <3>1
  <2>3. CASE i = n + (k + 1)
    <3>1. ~(i <= n) /\ i - n = k + 1 /\ i = (n + k) + 1
        BY <1>1, <2>3
    <3> QED
        BY <1>1, <1>3, <1>4, <3>1
  <2> QED
    BY <1>1, <2>1, <2>2, <2>3
<1>6. Len(l) = Len(r) /\ \A i \in 1 .. Len(l) : l[i] = r[i]
    BY <1>1, <1>3, <1>4, <1>5
<1>7. l = r
    BY <1>3, <1>4, <1>6, SeqEqual
<1> QED
    BY <1>7 DEF l, r, y, u

LEMMA TagAppend ==
    ASSUME NEW c \in Nat, NEW w \in Seq(Nat), NEW n \in Nat
    PROVE  Tag(c, Append(w, n)) = Append(Tag(c, w), <<c, n>>)
<1> DEFINE x == Append(w, n)
           y == Append(Tag(c, w), <<c, n>>)
           e == <<c, n>>
<1>1. /\ x \in Seq(Nat) /\ Len(x) = Len(w) + 1 /\ Len(w) \in Nat
      /\ \A k \in 1 .. Len(w) : x[k] = w[k]
      /\ x[Len(w) + 1] = n
    BY AppendProperties, LenProperties
<1>2. /\ Tag(c, w) \in Pairs /\ Len(Tag(c, w)) = Len(w)
      /\ \A k \in 1 .. Len(w) : Tag(c, w)[k] = <<c, w[k]>>
    BY TagType
<1>3. e \in Nat \X Nat
    OBVIOUS
<1>4. /\ y \in Pairs /\ Len(y) = Len(w) + 1
      /\ \A k \in 1 .. Len(w) : y[k] = <<c, w[k]>>
      /\ y[Len(w) + 1] = <<c, n>>
  <2> HIDE DEF e
  <2>1. /\ Append(Tag(c, w), e) \in Seq(Nat \X Nat)
        /\ Len(Append(Tag(c, w), e)) = Len(Tag(c, w)) + 1
        /\ \A k \in 1 .. Len(Tag(c, w)) : Append(Tag(c, w), e)[k] = Tag(c, w)[k]
        /\ Append(Tag(c, w), e)[Len(Tag(c, w)) + 1] = e
    BY <1>2, <1>3, AppendProperties DEF Pairs
  <2> QED
    BY <1>2, <2>1 DEF Pairs, e
<1> HIDE DEF x, y
<1>5. /\ Tag(c, x) \in Pairs /\ Len(Tag(c, x)) = Len(w) + 1
      /\ \A k \in 1 .. Len(w) + 1 : Tag(c, x)[k] = <<c, x[k]>>
    BY <1>1, TagType
<1>6. \A k \in 1 .. Len(w) + 1 : Tag(c, x)[k] = y[k]
  <2>1. \A k \in 1 .. Len(w) + 1 : k \in 1 .. Len(w) \/ k = Len(w) + 1
    BY <1>1
  <2>2. \A k \in 1 .. Len(w) : Tag(c, x)[k] = <<c, w[k]>>
    BY <1>1, <1>5
  <2>3. Tag(c, x)[Len(w) + 1] = <<c, n>>
    BY <1>1, <1>5
  <2> QED
    BY <1>4, <2>1, <2>2, <2>3
<1>7. Tag(c, x) = y
    BY <1>4, <1>5, <1>6, SeqEqual DEF Pairs
<1> QED
    BY <1>7 DEF x, y

LEMMA OwnNext ==
    ASSUME NEW c \in Nat, NEW n \in Nat
    PROVE  Own(c, n + 1) = Append(Own(c, n), <<c, n + 1>>)
<1> DEFINE e == <<c, n + 1>>
           y == Append(Own(c, n), e)
<1>1. /\ Own(c, n) \in Pairs /\ Len(Own(c, n)) = n
      /\ \A k \in 1 .. n : Own(c, n)[k] = <<c, k>>
    BY OwnType
<1>2. /\ Own(c, n + 1) \in Pairs /\ Len(Own(c, n + 1)) = n + 1
      /\ \A k \in 1 .. n + 1 : Own(c, n + 1)[k] = <<c, k>>
    BY OwnType
<1>3. e \in Nat \X Nat
    OBVIOUS
<1> HIDE DEF e
<1>4. /\ y \in Pairs /\ Len(y) = n + 1
      /\ \A k \in 1 .. n : y[k] = <<c, k>>
      /\ y[n + 1] = e
    BY <1>1, <1>3, AppendProperties DEF Pairs
<1> HIDE DEF y
<1>5. \A k \in 1 .. n + 1 : Own(c, n + 1)[k] = y[k]
    BY <1>2, <1>4, SMTT(40) DEF e
<1>6. Own(c, n + 1) = y
    BY <1>2, <1>4, <1>5, SeqEqual DEF Pairs
<1> QED
    BY <1>6 DEF y, e

LEMMA FedType ==
    ASSUME NEW b \in Pairs, NEW m \in Requests
    PROVE  Fed(b, m) \in Pairs
<1>1. Tag(m.c, m.vals) \in Pairs
    BY TagType DEF Requests
<1>2. b \o Tag(m.c, m.vals) \in Pairs
    BY <1>1, ConcatProperties DEF Pairs
<1>3. <<>> \in Pairs
    BY EmptySeq DEF Pairs
<1> QED
    BY <1>1, <1>2, <1>3 DEF Fed

(* Feeding one request after the other.                                    *)
Joins(d, a, b, n, k) ==
    /\ \A i \in 0 .. n : d[i] = a[i]
    /\ \A i \in 0 .. k : d[n + i] = b[i]

(* Feeding one sequence of requests after the other.                       *)
LEMMA FeedsConcat ==
    ASSUME NEW M, NEW q \in Seq(M), NEW r \in Seq(M),
           NEW a, NEW b, Feeds(a, q), Feeds(b, r), b[0] = a[Len(q)]
    PROVE  \E d : Feeds(d, q \o r) /\ Joins(d, a, b, Len(q), Len(r))
<1> DEFINE n == Len(q)
           k == Len(r)
           d == [i \in 0 .. n + k |-> IF i <= n THEN a[i] ELSE b[i - n]]
           s == q \o r
<1>1. n \in Nat /\ k \in Nat
    BY LenProperties
<1>2. /\ Len(s) = n + k
      /\ \A i \in 1 .. n + k : s[i] = IF i <= n THEN q[i] ELSE r[i - n]
    BY ConcatProperties
<1>3. /\ a \in [0 .. n -> Pairs] /\ \A i \in 1 .. n : a[i] = Fed(a[i - 1], q[i])
      /\ b \in [0 .. k -> Pairs] /\ \A i \in 1 .. k : b[i] = Fed(b[i - 1], r[i])
      /\ b[0] = a[n]
    BY DEF Feeds
<1> HIDE DEF n, k, s
<1>4. /\ d \in [0 .. n + k -> Pairs]
      /\ \A i \in 0 .. n : d[i] = a[i]
      /\ \A i \in 0 .. k : d[n + i] = b[i]
    BY <1>1, <1>3
<1> HIDE DEF d
<1>5. ASSUME NEW i \in 1 .. n + k
      PROVE  d[i] = Fed(d[i - 1], s[i])
  <2>1. CASE i <= n
    <3>1. i \in 1 .. n /\ d[i] = a[i] /\ d[i - 1] = a[i - 1] /\ s[i] = q[i]
        BY <1>1, <1>2, <1>4, <2>1
    <3> QED
        BY <1>3, <3>1
  <2>2. CASE i > n
    <3> DEFINE j == i - n
    <3>1. j \in 1 .. k /\ j - 1 \in 0 .. k /\ i = n + j /\ i - 1 = n + (j - 1)
        BY <1>1, <2>2
    <3> HIDE DEF j
    <3>2. d[i] = b[j] /\ d[i - 1] = b[j - 1]
        BY <1>4, <3>1
    <3>3. s[i] = r[j]
        BY <1>1, <1>2, <2>2 DEF j
    <3> QED
        BY <1>3, <3>1, <3>2, <3>3
  <2> QED
    BY <1>1, <2>1, <2>2
<1>6. Feeds(d, s)
    BY <1>2, <1>4, <1>5 DEF Feeds
<1> QED
    BY <1>4, <1>6 DEF n, k, s, Joins


LEMMA ConcatEmpty ==
    ASSUME NEW S, NEW q \in Seq(S)
    PROVE  <<>> \o q = q /\ q \o <<>> = q
BY ConcatEmptySeq

LEMMA FeedsNone ==
    ASSUME NEW b \in Pairs
    PROVE  \E a : Feeds(a, <<>>) /\ a[0] = b
<1> DEFINE a == [i \in 0 .. 0 |-> b]
<1>1. a \in [0 .. 0 -> Pairs] /\ a[0] = b
    OBVIOUS
<1> HIDE DEF a
<1>2. Len(<<>>) = 0
    BY EmptySeq
<1>3. \A i \in 1 .. 0 : FALSE
    OBVIOUS
<1>4. Feeds(a, <<>>)
    BY <1>1, <1>2, <1>3 DEF Feeds
<1> QED
    BY <1>1, <1>4

LEMMA FeedsOne ==
    ASSUME NEW b \in Pairs, NEW m \in Requests
    PROVE  \E a : Feeds(a, <<m>>) /\ a[0] = b /\ a[1] = Fed(b, m)
<1> DEFINE a == [i \in 0 .. 1 |-> IF i = 0 THEN b ELSE Fed(b, m)]
           q == <<m>>
<1>1. Fed(b, m) \in Pairs
    BY FedType
<1>2. a \in [0 .. 1 -> Pairs] /\ a[0] = b /\ a[1] = Fed(b, m)
    BY <1>1
<1>3. Len(q) = 1 /\ q[1] = m
    OBVIOUS
<1> HIDE DEF a, q
<1>4. \A i \in 1 .. 1 : i = 1 /\ i - 1 = 0
    OBVIOUS
<1>5. Feeds(a, q)
    BY <1>2, <1>3, <1>4 DEF Feeds
<1> QED
    BY <1>2, <1>5 DEF q

(* From b, the requests of q lead to e.                                    *)
Leads(b, q, e) == \E a : Feeds(a, q) /\ a[0] = b /\ a[Len(q)] = e

(* Leading: none, one, and one sequence after the other.                   *)
LEMMA LeadsNone ==
    ASSUME NEW b \in Pairs
    PROVE  Leads(b, <<>>, b)
<1>1. PICK a : Feeds(a, <<>>) /\ a[0] = b
    BY FeedsNone
<1>2. Len(<<>>) = 0
    BY EmptySeq
<1> QED
    BY <1>1, <1>2 DEF Leads

LEMMA LeadsOne ==
    ASSUME NEW b \in Pairs, NEW m \in Requests
    PROVE  Leads(b, <<m>>, Fed(b, m))
<1>1. PICK a : Feeds(a, <<m>>) /\ a[0] = b /\ a[1] = Fed(b, m)
    BY FeedsOne
<1> DEFINE q == <<m>>
<1>2. Len(q) = 1
    OBVIOUS
<1> HIDE DEF q
<1>3. Leads(b, q, Fed(b, m))
    BY <1>1, <1>2 DEF Leads, q
<1> QED
    BY <1>3 DEF q

LEMMA LeadsConcat ==
    ASSUME NEW M, NEW q \in Seq(M), NEW r \in Seq(M), NEW b, NEW e, NEW f,
           Leads(b, q, e), Leads(e, r, f)
    PROVE  Leads(b, q \o r, f)
<1>1. PICK a : Feeds(a, q) /\ a[0] = b /\ a[Len(q)] = e
    BY DEF Leads
<1>2. PICK a2 : Feeds(a2, r) /\ a2[0] = e /\ a2[Len(r)] = f
    BY DEF Leads
<1>3. PICK d : Feeds(d, q \o r) /\ Joins(d, a, a2, Len(q), Len(r))
  <2>1. Feeds(a, q) /\ Feeds(a2, r) /\ a2[0] = a[Len(q)]
    BY <1>1, <1>2
  <2> QED
    BY <2>1, FeedsConcat
<1>4. Len(q) \in Nat /\ Len(r) \in Nat /\ Len(q \o r) = Len(q) + Len(r)
    BY LenProperties, ConcatProperties
<1>5. d[0] = b /\ d[Len(q) + Len(r)] = f
    BY <1>1, <1>2, <1>3, <1>4 DEF Joins
<1> QED
    BY <1>3, <1>4, <1>5 DEF Leads

LEMMA DataAreRequests ==
    ASSUME NEW c \in Nat
    PROVE  Data(c) \subseteq Requests
BY DEF Data, Requests, DataIds

(* The requests of a large value bind it.                                  *)
LEMMA BlobLeads ==
    ASSUME NEW c \in Nat, NEW n \in Nat, NEW k \in Nat \ {0}, NEW b \in Pairs
    PROVE  /\ SendBlob(c, n, k) \in Seq(Data(c))
           /\ Leads(b, SendBlob(c, n, k), Append(b, <<c, n>>))
<1> DEFINE first == Msg("idStartBLOB", c, 0, 0, <<>>)
           chunk == Msg("idChunk", c, 0, 0, <<>>)
           last == Msg("idEndBLOB", c, 0, 0, <<n>>)
           mid == [j \in 1 .. k - 1 |-> chunk]
<1>1. <<n>> \in Seq(Nat) /\ <<>> \in Seq(Nat)
    BY EmptySeq
<1>2. first \in Data(c) /\ chunk \in Data(c) /\ last \in Data(c)
    BY <1>1 DEF Msg, Data, DataIds
<1>3. /\ first.id = "idStartBLOB" /\ chunk.id = "idChunk" /\ last.id = "idEndBLOB"
      /\ last.c = c /\ last.vals = <<n>>
    BY DEF Msg
<1>4. SendBlob(c, n, k) = (<<first>> \o mid) \o <<last>>
    BY DEF SendBlob
<1> HIDE DEF first, chunk, last
<1>5. k - 1 \in Nat /\ mid \in [1 .. k - 1 -> Data(c)] /\ \A j \in 1 .. k - 1 : mid[j] = chunk
    BY <1>2
<1>6. mid \in Seq(Data(c)) /\ Len(mid) = k - 1
    BY <1>5, FunctionIsSeq
<1> HIDE DEF mid
<1>7. first \in Requests /\ chunk \in Requests /\ last \in Requests
    BY <1>2, DataAreRequests
<1>8. Fed(b, first) = b /\ Fed(b, chunk) = b /\ Fed(b, last) = b \o Tag(c, <<n>>)
    BY <1>3 DEF Fed, Executing
<1>9. Leads(b, mid, b)
  <2> DEFINE a == [i \in 0 .. k - 1 |-> b]
  <2>1. a \in [0 .. k - 1 -> Pairs] /\ \A i \in 0 .. k - 1 : a[i] = b
    OBVIOUS
  <2> HIDE DEF a
  <2>2. \A i \in 1 .. k - 1 : a[i] = Fed(a[i - 1], mid[i])
    <3> SUFFICES ASSUME NEW i \in 1 .. k - 1
                 PROVE  a[i] = Fed(a[i - 1], mid[i])
        OBVIOUS
    <3>1. a[i] = b /\ a[i - 1] = b /\ mid[i] = chunk
        BY <1>5, <2>1
    <3> QED
        BY <1>8, <3>1
  <2>3. a[0] = b /\ a[k - 1] = b
    BY <1>5, <2>1
  <2> QED
    BY <1>6, <2>1, <2>2, <2>3 DEF Leads, Feeds
<1>10. <<first>> \in Seq(Data(c)) /\ <<last>> \in Seq(Data(c))
    BY <1>2
<1>11. <<first>> \o mid \in Seq(Data(c))
    BY <1>6, <1>10, ConcatProperties
<1>12. Leads(b, <<first>>, b) /\ Leads(b, <<last>>, b \o Tag(c, <<n>>))
    BY <1>7, <1>8, LeadsOne
<1>13. Leads(b, <<first>> \o mid, b)
    BY <1>6, <1>9, <1>10, <1>12, LeadsConcat
<1>14. Leads(b, (<<first>> \o mid) \o <<last>>, b \o Tag(c, <<n>>))
    BY <1>10, <1>11, <1>12, <1>13, LeadsConcat
<1>15. (<<first>> \o mid) \o <<last>> \in Seq(Data(c))
    BY <1>10, <1>11, ConcatProperties
<1>16. b \o Tag(c, <<n>>) = Append(b, <<c, n>>)
  <2>1. Tag(c, <<n>>) = <<<<c, n>>>>
    BY DEF Tag
  <2> DEFINE e == <<c, n>>
  <2>2. e \in Nat \X Nat
    OBVIOUS
  <2> HIDE DEF e
  <2>3. b \o <<e>> = Append(b, e)
    BY <2>2, AppendIsConcat DEF Pairs
  <2> QED
    BY <2>1, <2>3 DEF e
<1> QED
    BY <1>4, <1>14, <1>15, <1>16


(* SendParametersData, after n values: what was sent has bound the values  *)
(* that are no longer in sb.                                               *)
LoopState(c) == [out : Seq(Data(c)), sb : Seq(Nat), first : BOOLEAN]

Loop(c, n, s) ==
    /\ s \in LoopState(c) /\ (s.first => s.out = <<>>)
    /\ \E e \in Pairs : Leads(<<>>, s.out, e) /\ e \o Tag(c, s.sb) = Own(c, n)

(* Flushing the batch keeps the invariant of the loop.                     *)
LEMMA SendKeepsLoop ==
    ASSUME NEW c \in Nat, NEW n \in Nat, NEW s, Loop(c, n, s)
    PROVE  /\ Loop(c, n, Send(c, s)) /\ Send(c, s).sb = <<>> /\ ~Send(c, s).first
           /\ Leads(<<>>, Send(c, s).out, Own(c, n))
<1>1. /\ s \in LoopState(c) /\ s.out \in Seq(Data(c)) /\ s.sb \in Seq(Nat)
      /\ s.first \in BOOLEAN /\ (s.first => s.out = <<>>)
    BY DEF Loop, LoopState
<1>2. PICK e \in Pairs : Leads(<<>>, s.out, e) /\ e \o Tag(c, s.sb) = Own(c, n)
    BY DEF Loop
<1>3. Tag(c, s.sb) \in Pairs /\ Tag(c, <<>>) = <<>> /\ <<>> \in Pairs /\ <<>> \in Seq(Nat)
  <2>1. <<>> \in Pairs /\ <<>> \in Seq(Nat) /\ Len(<<>>) = 0
    BY EmptySeq DEF Pairs
  <2>2. Tag(c, <<>>) \in Pairs /\ Len(Tag(c, <<>>)) = 0
    BY <2>1, TagType
  <2>3. Tag(c, <<>>) = <<>>
    BY <2>2, EmptySeq DEF Pairs
  <2> QED
    BY <1>1, <2>1, <2>3, TagType
<1>4. CASE s.sb = <<>> /\ ~s.first
  <2>1. Send(c, s) = s
    BY <1>4 DEF Send
  <2>2. e = Own(c, n)
    BY <1>2, <1>3, <1>4, ConcatEmpty DEF Pairs
  <2> QED
    BY <1>2, <1>4, <2>1, <2>2
<1>5. CASE ~(s.sb = <<>> /\ ~s.first)
  <2> DEFINE id == IF s.first THEN "idBeginRows" ELSE "idTransferring"
             m == Msg(id, c, 0, 0, s.sb)
             r == [out |-> Append(s.out, m), sb |-> <<>>, first |-> FALSE]
  <2>1. Send(c, s) = r
    BY <1>5 DEF Send
  <2>2. m \in Data(c) /\ m.id = id /\ m.c = c /\ m.vals = s.sb
    BY <1>1 DEF Msg, Data, DataIds
  <2>3. r.out = Append(s.out, m) /\ r.sb = <<>> /\ r.first = FALSE
    OBVIOUS
  <2> HIDE DEF m, r
  <2>4. r.out \in Seq(Data(c)) /\ r.out = s.out \o <<m>>
    BY <1>1, <2>2, <2>3, AppendProperties, AppendIsConcat
  <2>5. r \in LoopState(c)
    BY <1>3, <2>4 DEF LoopState, r
  <2>6. Fed(e, m) = Own(c, n)
    <3>1. CASE s.first
      <4>1. s.out = <<>>
        BY <1>1, <3>1
      <4>2. e = <<>>
        BY <1>2, <4>1, EmptySeq DEF Leads
      <4>3. Tag(c, s.sb) = Own(c, n)
        BY <1>2, <1>3, <4>2, ConcatEmpty DEF Pairs
      <4> QED
        BY <2>2, <3>1, <4>3 DEF Fed, Executing
    <3>2. CASE ~s.first
        BY <1>2, <2>2, <3>2 DEF Fed, Executing
    <3> QED
        BY <3>1, <3>2
  <2>7. Leads(e, <<m>>, Own(c, n))
    <3>1. m \in Requests
        BY <2>2, DataAreRequests
    <3> QED
        BY <2>6, <3>1, LeadsOne
  <2>8. Leads(<<>>, r.out, Own(c, n))
    <3>1. <<m>> \in Seq(Data(c))
        BY <2>2
    <3>2. Leads(<<>>, s.out \o <<m>>, Own(c, n))
        BY <1>1, <1>2, <2>7, <3>1, LeadsConcat
    <3> QED
        BY <2>4, <3>2
  <2>9. Own(c, n) \in Pairs /\ Own(c, n) \o Tag(c, r.sb) = Own(c, n)
    <3>1. Own(c, n) \in Pairs
        BY OwnType
    <3> QED
        BY <1>3, <2>3, <3>1, ConcatEmpty DEF Pairs
  <2>10. Loop(c, n, r)
    BY <2>3, <2>5, <2>8, <2>9 DEF Loop
  <2> QED
    BY <2>1, <2>3, <2>8, <2>10
<1> QED
    BY <1>4, <1>5

(* One round of the loop.                                                  *)
OneValue(c, v, s, n) ==
    LET big == Send(c, s)
        s1 == IF v[n] = 0 THEN [s EXCEPT !.sb = Append(@, n)]
              ELSE [big EXCEPT !.out = @ \o SendBlob(c, n, v[n])]
    IN  IF Len(s1.sb) >= BatchSize THEN Send(c, s1) ELSE s1

(* One parameter of the loop, small or a BLOB, keeps its invariant.        *)
LEMMA OneKeepsLoop ==
    ASSUME NEW c \in Nat, NEW v \in Seq(Nat), NEW n \in 1 .. Len(v), NEW s,
           Loop(c, n - 1, s)
    PROVE  Loop(c, n, OneValue(c, v, s, n))
<1> DEFINE big == Send(c, s)
           small == [s EXCEPT !.sb = Append(@, n)]
           large == [big EXCEPT !.out = @ \o SendBlob(c, n, v[n])]
           s1 == IF v[n] = 0 THEN small ELSE large
<1>1. n \in Nat /\ n - 1 \in Nat /\ v[n] \in Nat /\ (n - 1) + 1 = n
    BY LenProperties, ElementOfSeq
<1>2. /\ s \in LoopState(c) /\ s.out \in Seq(Data(c)) /\ s.sb \in Seq(Nat)
      /\ s.first \in BOOLEAN /\ (s.first => s.out = <<>>)
    BY DEF Loop, LoopState
<1>3. PICK e \in Pairs : Leads(<<>>, s.out, e) /\ e \o Tag(c, s.sb) = Own(c, n - 1)
    BY DEF Loop
<1>4. Own(c, n) = Append(Own(c, n - 1), <<c, n>>) /\ Own(c, n - 1) \in Pairs
    BY <1>1, OwnNext, OwnType
<1>5. Loop(c, n, s1)
  <2>1. CASE v[n] = 0
    <3>1. /\ small \in LoopState(c) /\ small.out = s.out /\ small.first = s.first
          /\ small.sb = Append(s.sb, n)
      <4>1. Append(s.sb, n) \in Seq(Nat)
        BY <1>1, <1>2, AppendProperties
      <4> QED
        BY <1>2, <4>1 DEF LoopState
    <3>2. Tag(c, small.sb) = Append(Tag(c, s.sb), <<c, n>>)
      <4> DEFINE w == s.sb
      <4>1. w \in Seq(Nat) /\ small.sb = Append(w, n)
        BY <1>2, <3>1
      <4> HIDE DEF w, small
      <4>2. Tag(c, Append(w, n)) = Append(Tag(c, w), <<c, n>>)
        BY <1>1, <4>1, TagAppend
      <4> QED
        BY <4>1, <4>2 DEF w
    <3>3. e \o Tag(c, small.sb) = Own(c, n)
      <4> DEFINE x == <<c, n>>
      <4>1. x \in Nat \X Nat
        BY <1>1
      <4> HIDE DEF x
      <4> DEFINE P == Nat \X Nat
                 w == Tag(c, s.sb)
      <4>2. w \in Seq(P) /\ e \in Seq(P) /\ x \in P
        BY <1>2, <4>1, TagType DEF Pairs
      <4> HIDE DEF P, w
      <4>3. e \o Append(w, x) = Append(e \o w, x)
        BY <4>2, ConcatAppend
      <4> QED
        BY <1>3, <1>4, <3>2, <4>3 DEF x, w
    <3> HIDE DEF small
    <3>4. Loop(c, n, small)
        BY <1>2, <1>3, <3>1, <3>3 DEF Loop
    <3> QED
        BY <2>1, <3>4
  <2>2. CASE v[n] # 0
    <3>1. /\ big \in LoopState(c) /\ big.sb = <<>> /\ ~big.first
          /\ Leads(<<>>, big.out, Own(c, n - 1)) /\ big.out \in Seq(Data(c))
      <4>1. Loop(c, n - 1, big)
        BY <1>1, SendKeepsLoop
      <4> QED
        BY <1>1, <4>1, SendKeepsLoop DEF Loop, LoopState
    <3> HIDE DEF big
    <3>2. /\ SendBlob(c, n, v[n]) \in Seq(Data(c))
          /\ Leads(Own(c, n - 1), SendBlob(c, n, v[n]), Own(c, n))
      <4>1. v[n] \in Nat \ {0}
        BY <1>1, <2>2
      <4> QED
        BY <1>1, <1>4, <4>1, BlobLeads
    <3>3. /\ big.out \o SendBlob(c, n, v[n]) \in Seq(Data(c))
          /\ Leads(<<>>, big.out \o SendBlob(c, n, v[n]), Own(c, n))
        BY <3>1, <3>2, ConcatProperties, LeadsConcat
    <3>4. /\ large \in LoopState(c) /\ ~large.first /\ large.sb = <<>>
          /\ large.out = big.out \o SendBlob(c, n, v[n])
        BY <3>1, <3>3 DEF LoopState
    <3>5. Own(c, n) \in Pairs /\ Own(c, n) \o Tag(c, <<>>) = Own(c, n)
      <4>1. Own(c, n) \in Pairs
        BY <1>1, OwnType
      <4>2. <<>> \in Seq(Nat) /\ Len(<<>>) = 0
        BY EmptySeq
      <4>3. Tag(c, <<>>) \in Pairs /\ Len(Tag(c, <<>>)) = 0
        BY <4>2, TagType
      <4>4. Tag(c, <<>>) = <<>>
        BY <4>3, EmptySeq DEF Pairs
      <4> QED
        BY <4>1, <4>4, ConcatEmpty DEF Pairs
    <3> HIDE DEF large
    <3>6. Loop(c, n, large)
        BY <3>3, <3>4, <3>5 DEF Loop
    <3> QED
        BY <2>2, <3>6
  <2> QED
    BY <2>1, <2>2
<1>6. OneValue(c, v, s, n) = IF Len(s1.sb) >= BatchSize THEN Send(c, s1) ELSE s1
    BY DEF OneValue
<1> HIDE DEF s1
<1>7. Loop(c, n, Send(c, s1))
    BY <1>1, <1>5, SendKeepsLoop
<1> QED
    BY <1>5, <1>6, <1>7

LEMMA OneType ==
    ASSUME NEW c \in Nat, NEW v \in Seq(Nat), NEW n \in 1 .. Len(v),
           NEW s \in LoopState(c)
    PROVE  OneValue(c, v, s, n) \in LoopState(c)
<1>1. n \in Nat /\ v[n] \in Nat /\ <<>> \in Seq(Nat) /\ <<>> \in Pairs
    BY LenProperties, ElementOfSeq, EmptySeq DEF Pairs
<1>2. ASSUME NEW x \in LoopState(c)
      PROVE  Send(c, x) \in LoopState(c)
  <2> DEFINE id == IF x.first THEN "idBeginRows" ELSE "idTransferring"
             m == Msg(id, c, 0, 0, x.sb)
  <2>1. m \in Data(c)
    BY DEF LoopState, Msg, Data, DataIds
  <2> HIDE DEF m
  <2>2. Append(x.out, m) \in Seq(Data(c))
    BY <2>1, AppendProperties DEF LoopState
  <2>3. Send(c, x) = IF x.sb = <<>> /\ ~x.first THEN x
                     ELSE [out |-> Append(x.out, m), sb |-> <<>>, first |-> FALSE]
    BY DEF Send, m
  <2> QED
    BY <1>1, <2>2, <2>3 DEF LoopState
<1> DEFINE big == Send(c, s)
           small == [s EXCEPT !.sb = Append(@, n)]
           large == [big EXCEPT !.out = @ \o SendBlob(c, n, v[n])]
           s1 == IF v[n] = 0 THEN small ELSE large
<1>3. small \in LoopState(c)
  <2>1. Append(s.sb, n) \in Seq(Nat)
    BY <1>1, AppendProperties DEF LoopState
  <2> QED
    BY <2>1 DEF LoopState
<1>4. v[n] # 0 => large \in LoopState(c)
  <2>1. big \in LoopState(c)
    BY <1>2
  <2> HIDE DEF big
  <2>2. SUFFICES ASSUME v[n] # 0
                 PROVE  large \in LoopState(c)
    OBVIOUS
  <2>3. SendBlob(c, n, v[n]) \in Seq(Data(c))
    BY <1>1, <2>2, BlobLeads
  <2>4. big.out \o SendBlob(c, n, v[n]) \in Seq(Data(c))
    BY <2>1, <2>3, ConcatProperties DEF LoopState
  <2> QED
    BY <2>1, <2>4 DEF LoopState
<1>5. s1 \in LoopState(c)
  <2> HIDE DEF small, large
  <2> QED
    BY <1>3, <1>4
<1>6. OneValue(c, v, s, n) = IF Len(s1.sb) >= BatchSize THEN Send(c, s1) ELSE s1
    BY DEF OneValue
<1> HIDE DEF s1
<1> QED
    BY <1>2, <1>5, <1>6

(* The parameter data that are sent ahead of a statement bind all the      *)
(* values of its array, in their order, when nothing was bound before.     *)
LEMMA ParametersData ==
    ASSUME NEW c \in Nat, NEW v \in Seq(Nat)
    PROVE  /\ SendParametersData(c, v) \in Seq(Data(c))
           /\ Leads(<<>>, SendParametersData(c, v), Own(c, Len(v)))
<1> DEFINE N == Len(v)
           start == [out |-> <<>>, sb |-> <<>>, first |-> TRUE]
           Eq(g) == g = [n \in 0 .. Len(v) |->
                           IF n = 0 THEN start ELSE OneValue(c, v, g[n - 1], n)]
           sent == CHOOSE g : Eq(g)
           F == [u \in LoopState(c) |-> [i \in 1 .. N |-> OneValue(c, v, u, i)]]
<1>1. /\ N \in Nat /\ <<>> \in Pairs /\ <<>> \in Seq(Nat) /\ Len(<<>>) = 0
      /\ <<>> \in Seq(Data(c))
    BY LenProperties, EmptySeq DEF Pairs
<1>2. SendParametersData(c, v) = IF v = <<>> THEN <<>> ELSE Send(c, sent[N]).out
    BY DEF SendParametersData, OneValue
<1>3. start \in LoopState(c) /\ Loop(c, 0, start)
  <2>1. start \in LoopState(c) /\ start.out = <<>> /\ start.sb = <<>>
    BY <1>1 DEF LoopState
  <2>2. Own(c, 0) \in Pairs /\ Len(Own(c, 0)) = 0
    BY OwnType
  <2>3. Tag(c, <<>>) \in Pairs /\ Len(Tag(c, <<>>)) = 0
    BY <1>1, TagType
  <2>4. Own(c, 0) = <<>> /\ Tag(c, <<>>) = <<>>
    BY <2>2, <2>3, EmptySeq DEF Pairs
  <2>5. <<>> \o <<>> = <<>>
    BY <1>1, ConcatEmpty
  <2>6. Leads(<<>>, <<>>, <<>>)
    BY <1>1, LeadsNone
  <2> HIDE DEF start
  <2> QED
    BY <1>1, <2>1, <2>4, <2>5, <2>6 DEF Loop
<1>4. /\ F \in [LoopState(c) -> [1 .. N -> LoopState(c)]]
      /\ \A u \in LoopState(c), i \in 1 .. N : F[u][i] = OneValue(c, v, u, i)
    BY OneType
<1> HIDE DEF F, N, start
<1>5. \E h \in [0 .. N -> LoopState(c)] : Recursive(h, start, F, N)
    BY <1>1, <1>3, <1>4, Recursion
<1>6. PICK h \in [0 .. N -> LoopState(c)] : Recursive(h, start, F, N)
    BY <1>5
<1>7. \A i \in 1 .. N : h[i] = OneValue(c, v, h[i - 1], i)
  <2> SUFFICES ASSUME NEW i \in 1 .. N
               PROVE  h[i] = OneValue(c, v, h[i - 1], i)
    OBVIOUS
  <2>1. i - 1 \in 0 .. N /\ h[i] = F[h[i - 1]][i]
    BY <1>1, <1>6 DEF Recursive
  <2>2. h[i - 1] \in LoopState(c)
    BY <1>6, <2>1
  <2> QED
    BY <1>4, <2>1, <2>2
<1>8. Eq(h)
  <2>1. h = [n \in 0 .. N |-> h[n]] /\ h[0] = start
    BY <1>6 DEF Recursive
  <2>2. \A n \in 0 .. N : n # 0 => n \in 1 .. N
    BY <1>1
  <2>3. \A n \in 0 .. N :
            h[n] = IF n = 0 THEN start ELSE OneValue(c, v, h[n - 1], n)
    BY <1>7, <2>1, <2>2
  <2>4. [n \in 0 .. N |-> h[n]]
            = [n \in 0 .. N |-> IF n = 0 THEN start ELSE OneValue(c, v, h[n - 1], n)]
    BY <2>3
  <2> QED
    BY <2>1, <2>4 DEF N
<1>9. Eq(sent)
  <2> HIDE DEF Eq
  <2> QED
    BY <1>8
<1>10. sent = [n \in 0 .. N |->
                 IF n = 0 THEN start ELSE OneValue(c, v, sent[n - 1], n)]
    BY <1>9 DEF N
<1> HIDE DEF sent, Eq
<1>11. sent[0] = start /\ \A i \in 1 .. N : sent[i] = OneValue(c, v, sent[i - 1], i)
  <2>1. 0 \in 0 .. N /\ \A i \in 1 .. N : i \in 0 .. N /\ i # 0
    BY <1>1
  <2> QED
    BY <1>10, <2>1
<1> DEFINE B == {i \in 1 .. N : ~Loop(c, i, sent[i])}
<1>12. \A i \in B : i - 1 \in B
  <2> SUFFICES ASSUME NEW i \in B
               PROVE  i - 1 \in B
    OBVIOUS
  <2>1. i \in 1 .. N /\ ~Loop(c, i, sent[i]) /\ sent[i] = OneValue(c, v, sent[i - 1], i)
    BY <1>11
  <2>2. ~Loop(c, i - 1, sent[i - 1])
    BY <2>1, OneKeepsLoop DEF N
  <2>3. i - 1 # 0
    BY <1>3, <1>11, <2>2
  <2> QED
    BY <1>1, <2>1, <2>2, <2>3
<1>13. B = {}
  <2>1. B \in SUBSET (1 .. N) /\ N \in Nat
    BY <1>1
  <2> HIDE DEF B
  <2> QED
    BY <1>12, <2>1, NoneBad
<1>14. Loop(c, N, sent[N])
    BY <1>1, <1>3, <1>11, <1>13
<1>15. /\ Send(c, sent[N]).out \in Seq(Data(c))
       /\ Leads(<<>>, Send(c, sent[N]).out, Own(c, N))
    BY <1>1, <1>14, SendKeepsLoop DEF Loop, LoopState
<1>16. CASE v = <<>>
  <2>1. N = 0 /\ Own(c, 0) \in Pairs /\ Len(Own(c, 0)) = 0
    BY <1>1, <1>16, OwnType DEF N
  <2>2. Own(c, 0) = <<>>
    BY <2>1, EmptySeq DEF Pairs
  <2>3. Leads(<<>>, <<>>, <<>>)
    BY <1>1, LeadsNone
  <2> QED
    BY <1>1, <1>2, <1>16, <2>1, <2>2, <2>3 DEF N
<1>17. CASE v # <<>>
    BY <1>2, <1>15, <1>17 DEF N
<1> QED
    BY <1>16, <1>17

----------------------------------------------------------------------------
(* The answers of the server to a call are about that call.                *)
AnswerIds == {"idRowsetHeader", "idBeginRows", "idTransferring", "idStartBLOB",
              "idChunk", "idEndBLOB", "idEndRows", "idCallReturn",
              "idOutputParameter", "idParameterPosition", "idSqlBatchHeader"}
Ending == {"result", "exception"}
Replies(c) == [id : AnswerIds, c : {c}, n : Nat, m : Nat, vals : Seq(Value)]
Lasts(c)   == [id : Ending, c : {c}, n : Nat, m : Nat, vals : Seq(Value)]
AllReplies == [id : AnswerIds \union Ending, c : Nat, n : Nat, m : Nat,
               vals : Seq(Value)]

(* Types of what the server answers.                                       *)
LEMMA FlattenType ==
    ASSUME NEW M, NEW s \in Seq(Seq(M))
    PROVE  FlattenSeq(s) \in Seq(M)
<1>1. CASE Len(s) = 0
  <2>1. FlattenSeq(s) = s
    BY <1>1 DEF FlattenSeq
  <2>2. s = <<>>
    BY <1>1, EmptySeq
  <2> QED
    BY <2>1, <2>2, EmptySeq
<1>2. CASE Len(s) # 0
  <2>1. PICK g \in [1 .. Len(s) -> Seq(M)] : FlattenSeq(s) = g[Len(s)]
    BY <1>2, Flattening
  <2>2. Len(s) \in 1 .. Len(s)
    BY <1>2, LenProperties
  <2> QED
    BY <2>1, <2>2
<1> QED
    BY <1>1, <1>2

LEMMA SeqSubset ==
    ASSUME NEW S, NEW T, S \subseteq T, NEW q \in Seq(S)
    PROVE  q \in Seq(T)
<1>1. Len(q) \in Nat /\ q \in [1 .. Len(q) -> S]
    BY LenProperties
<1>2. q \in [1 .. Len(q) -> T]
    BY <1>1
<1> QED
    BY <1>1, <1>2, FunctionIsSeq

LEMMA OneIsSeq ==
    ASSUME NEW S, NEW x \in S
    PROVE  <<x>> \in Seq(S)
OBVIOUS

LEMMA RowsetType ==
    ASSUME NEW c \in Nat, NEW i \in Nat, NEW j \in Nat
    PROVE  Rowset(c, i, j) \in Seq(Replies(c))
<1> DEFINE v1 == <<c, i, j, -1>>
           v2 == <<c, i, j, -2>>
           v3 == <<c, i, j, -3>>
<1>1. v1 \in Value /\ v2 \in Value /\ v3 \in Value
    BY DEF Value
<1> HIDE DEF v1, v2, v3
<1>2. /\ <<v1>> \in Seq(Value) /\ <<v2>> \in Seq(Value) /\ <<v3>> \in Seq(Value)
      /\ <<>> \in Seq(Value)
    BY <1>1, OneIsSeq, EmptySeq
<1> DEFINE m1 == Msg("idRowsetHeader", c, 0, 0, <<>>)
           m2 == Msg("idBeginRows", c, 0, 0, <<>>)
           m3 == Msg("idTransferring", c, 0, 0, <<v1>>)
           m4 == Msg("idStartBLOB", c, 0, 0, <<v2>>)
           m5 == Msg("idChunk", c, 0, 0, <<>>)
           m6 == Msg("idEndBLOB", c, 0, 0, <<>>)
           m7 == Msg("idEndRows", c, 0, 0, <<v3>>)
<1>3. /\ m1 \in Replies(c) /\ m2 \in Replies(c) /\ m3 \in Replies(c)
      /\ m4 \in Replies(c) /\ m5 \in Replies(c) /\ m6 \in Replies(c)
      /\ m7 \in Replies(c)
    BY <1>2 DEF Msg, Replies, AnswerIds
<1>4. Rowset(c, i, j) = <<m1, m2, m3, m4, m5, m6, m7>>
    BY DEF Rowset, v1, v2, v3
<1> HIDE DEF m1, m2, m3, m4, m5, m6, m7
<1>5. <<m1, m2, m3, m4, m5, m6, m7>> \in Seq(Replies(c))
    BY <1>3
<1> QED
    BY <1>4, <1>5

LEMMA OutputsType ==
    ASSUME NEW c \in Nat, NEW i \in Nat, NEW j \in Nat,
           call[c].stmts[i] \in Statement
    PROVE  Outputs(c, i, j) \in Seq(Replies(c))
<1> DEFINE s == call[c].stmts[i]
           v == <<c, i, j, 0>>
           w == [k \in 1 .. s.outs |-> <<c, i, j, k>>]
           m1 == Msg("idRowsetHeader", c, s.outs, 0, <<>>)
           m2 == Msg("idCallReturn", c, 0, 0, <<v>>)
           m3 == Msg("idOutputParameter", c, 0, 0, w)
           mid == IF s.ret THEN <<m2>> ELSE <<>>
<1>1. s.outs \in Nat
    BY DEF Statement
<1> HIDE DEF s
<1>2. v \in Value /\ w \in [1 .. s.outs -> Value]
    BY <1>1 DEF Value
<1> HIDE DEF v, w
<1>3. <<v>> \in Seq(Value) /\ w \in Seq(Value) /\ <<>> \in Seq(Value)
    BY <1>1, <1>2, OneIsSeq, FunctionIsSeq, EmptySeq
<1>4. m1 \in Replies(c) /\ m2 \in Replies(c) /\ m3 \in Replies(c)
    BY <1>1, <1>3 DEF Msg, Replies, AnswerIds
<1>5. Outputs(c, i, j) = (<<m1>> \o mid) \o <<m3>>
    BY DEF Outputs, s, v, w
<1> HIDE DEF m1, m2, m3
<1>6. <<m1>> \in Seq(Replies(c)) /\ mid \in Seq(Replies(c)) /\ <<m3>> \in Seq(Replies(c))
    BY <1>4, OneIsSeq, EmptySeq
<1> HIDE DEF mid
<1>7. <<m1>> \o mid \in Seq(Replies(c))
    BY <1>6, ConcatProperties
<1>8. (<<m1>> \o mid) \o <<m3>> \in Seq(Replies(c))
    BY <1>6, <1>7, ConcatProperties
<1> QED
    BY <1>5, <1>8

LEMMA AnswersType ==
    ASSUME NEW c \in Nat, call[c].stmts \in Seq(Statement),
           call[c].vParam \in Seq(Nat)
    PROVE  Answers(c) \in Seq(Replies(c))
<1> DEFINE R == Replies(c)
           stmts == call[c].stmts
           N == Len(stmts)
           all == [i \in 1 .. N |-> StatementAnswers(c, i)]
           head == Msg("idSqlBatchHeader", c, Width(c), 0, <<>>)
           first == IF call[c].kind = "idExecuteBatch" THEN <<head>> ELSE <<>>
<1>1. /\ N \in Nat /\ Width(c) \in Nat /\ Len(call[c].vParam) \in Nat
      /\ \A i \in 1 .. N : stmts[i] \in Statement
    BY SumType, LenProperties, ElementOfSeq DEF Width
<1>2. Sets(c) \in Nat
  <2>1. CASE Width(c) = 0
    BY <2>1 DEF Sets
  <2>2. CASE Width(c) # 0
    <3> DEFINE w == Width(c)
               l == Len(call[c].vParam)
    <3>1. w \in Nat /\ w > 0 /\ l \in Nat /\ Sets(c) = l \div w
        BY <1>1, <2>2 DEF Sets
    <3> HIDE DEF w, l
    <3> QED
        BY <3>1, SMTT(40)
  <2> QED
    BY <2>1, <2>2
<1>3. <<>> \in Seq(Value) /\ <<>> \in Seq(R)
    BY EmptySeq
<1>4. first \in Seq(R)
  <2>1. head \in R
    BY <1>1, <1>3 DEF Msg, Replies, AnswerIds
  <2> HIDE DEF head, R
  <2> QED
    BY <1>3, <2>1, OneIsSeq
<1>5. ASSUME NEW i \in 1 .. N
      PROVE  StatementAnswers(c, i) \in Seq(R)
  <2> DEFINE s == stmts[i]
             sets == IF s.params = 0 THEN 1 ELSE Sets(c)
             One(j) == (IF s.rows THEN Rowset(c, i, j) ELSE <<>>)
                       \o (IF s.outs > 0 THEN Outputs(c, i, j) ELSE <<>>)
             place == Msg("idParameterPosition", c, Offset(c, i), s.params, <<>>)
             pos == IF call[c].kind = "idExecuteBatch" /\ s.params > 0
                    THEN <<place>> ELSE <<>>
             rest == [j \in 1 .. sets |-> One(j)]
  <2>1. s \in Statement /\ s.params \in Nat /\ sets \in Nat /\ i \in Nat
    <3>1. s \in Statement /\ i \in Nat
        BY <1>1
    <3>2. s.params \in Nat
        BY <3>1 DEF Statement
    <3> HIDE DEF s
    <3> QED
        BY <1>2, <3>1, <3>2
  <2>2. Offset(c, i) \in Nat
    <3>1. \A k \in 1 .. i - 1 : stmts[k] \in Statement
        BY <1>1
    <3>2. SubSeq(stmts, 1, i - 1) \in Seq(Statement)
        BY <2>1, <3>1, SubSeqProperties
    <3> QED
        BY <3>2, SumType DEF Offset
  <2>3. pos \in Seq(R)
    <3>1. place \in R
        BY <1>3, <2>1, <2>2 DEF Msg, Replies, AnswerIds
    <3> HIDE DEF place, R
    <3> QED
        BY <1>3, <3>1, OneIsSeq
  <2>4. ASSUME NEW j \in 1 .. sets
        PROVE  One(j) \in Seq(R)
    <3>1. j \in Nat
        BY <2>1
    <3> DEFINE x == IF s.rows THEN Rowset(c, i, j) ELSE <<>>
               y == IF s.outs > 0 THEN Outputs(c, i, j) ELSE <<>>
    <3>2. x \in Seq(R) /\ y \in Seq(R)
        BY <1>3, <2>1, <3>1, RowsetType, OutputsType
    <3> HIDE DEF x, y, R
    <3>3. x \o y \in Seq(R)
        BY <3>2, ConcatProperties
    <3> QED
        BY <3>3 DEF x, y
  <2>5. rest \in [1 .. sets -> Seq(R)]
    <3> HIDE DEF One, sets, R
    <3> QED
        BY <2>4
  <2>6. StatementAnswers(c, i) = pos \o FlattenSeq(rest)
    BY DEF StatementAnswers
  <2> HIDE DEF pos, rest, R, sets
  <2>7. FlattenSeq(rest) \in Seq(R)
    <3>1. rest \in Seq(Seq(R))
        BY <2>1, <2>5, FunctionIsSeq
    <3> QED
        BY <3>1, FlattenType
  <2>8. pos \o FlattenSeq(rest) \in Seq(R)
    BY <2>3, <2>7, ConcatProperties
  <2> QED
    BY <2>6, <2>8
<1>6. all \in [1 .. N -> Seq(R)]
    BY <1>5
<1>7. Answers(c) = first \o FlattenSeq(all)
    BY DEF Answers
<1> HIDE DEF first, all, R, N
<1>8. FlattenSeq(all) \in Seq(R)
  <2>1. all \in Seq(Seq(R))
    BY <1>1, <1>6, FunctionIsSeq
  <2> QED
    BY <2>1, FlattenType
<1>9. first \o FlattenSeq(all) \in Seq(R)
    BY <1>4, <1>8, ConcatProperties
<1> QED
    BY <1>7, <1>9 DEF R

----------------------------------------------------------------------------
(* What is in a sequence.                                                  *)
LEMMA RangeAppend ==
    ASSUME NEW S, NEW q \in Seq(S), NEW x \in S
    PROVE  Range(Append(q, x)) = Range(q) \union {x}
<1>1. Append(q, x) = q \o <<x>>
    BY AppendIsConcat
<1> DEFINE r == <<x>>
<1>2. r \in Seq(S) /\ Len(r) = 1 /\ r[1] = x
    BY OneIsSeq
<1> HIDE DEF r
<1>3. Range(r) = {r[i] : i \in 1 .. 1}
    BY <1>2, RangeEquality
<1>4. Range(r) = {x}
    BY <1>2, <1>3
<1>5. Range(q \o r) = Range(q) \union Range(r)
    BY <1>2, RangeConcatenation
<1> QED
    BY <1>1, <1>4, <1>5 DEF r

LEMMA RangeHeadTail ==
    ASSUME NEW S, NEW q \in Seq(S), q # <<>>
    PROVE  /\ Head(q) \in S /\ Tail(q) \in Seq(S)
           /\ Head(q) \in Range(q) /\ Range(Tail(q)) \subseteq Range(q)
<1>1. /\ Head(q) \in S /\ Tail(q) \in Seq(S) /\ Len(Tail(q)) = Len(q) - 1
      /\ \A i \in 1 .. Len(Tail(q)) : Tail(q)[i] = q[i + 1]
    BY HeadTailProperties
<1>2. Len(q) \in Nat \ {0} /\ Head(q) = q[1]
    BY EmptySeq
<1>3. Range(q) = {q[i] : i \in 1 .. Len(q)}
    BY RangeEquality
<1>4. Range(Tail(q)) = {Tail(q)[i] : i \in 1 .. Len(Tail(q))}
    BY <1>1, RangeEquality
<1>5. Head(q) \in Range(q)
    BY <1>2, <1>3
<1>6. Range(Tail(q)) \subseteq Range(q)
  <2> SUFFICES ASSUME NEW i \in 1 .. Len(Tail(q))
               PROVE  Tail(q)[i] \in Range(q)
    BY <1>4
  <2>1. i + 1 \in 1 .. Len(q) /\ Tail(q)[i] = q[i + 1]
    BY <1>1, <1>2
  <2> QED
    BY <1>3, <2>1
<1> QED
    BY <1>1, <1>5, <1>6

LEMMA RangeEmpty == Range(<<>>) = {}
<1>1. <<>> \in Seq(Nat) /\ Len(<<>>) = 0
    BY EmptySeq
<1>2. Range(<<>>) = {<<>>[i] : i \in 1 .. 0}
    BY <1>1, RangeEquality
<1>3. 1 .. 0 = {}
    OBVIOUS
<1> QED
    BY <1>2, <1>3
----------------------------------------------------------------------------
(* The state that the theorems are about.                                  *)
Outcomes == {"none", "failed", "result", "exception", "discarded"}
Calls == [kind : Executing \union Simple, stmts : Seq(Statement), vParam : Seq(Nat)]
DataMsgs == [id : DataIds, c : Nat, n : {0}, m : {0}, vals : Seq(Nat)]

Types ==
    /\ call \in Seq(Calls)
    /\ outcome \in Seq(Outcomes) /\ Len(outcome) = Len(call)
    /\ executed \in Seq(Pairs) /\ Len(executed) = Len(call)
    /\ pc \in [Thread -> {"idle", "data", "request"}]
    /\ cur \in [Thread -> Nat] /\ todo \in [Thread -> Seq(DataMsgs)]
    /\ conn \in {"up", "closing", "cleaned", "down"}
    /\ waiting \in Seq(Nat) /\ up \in Seq(Requests) /\ down \in Seq(AllReplies)
    /\ bound \in Pairs
    /\ mapParameterCall \subseteq Nat /\ lastPrepared \subseteq Statement

Sending == {t \in Thread : pc[t] # "idle"}
Ids(q) == {m.c : m \in Range(q)}
Asked(q) == {m \in Range(q) : m.id \in Executing \union Simple}
Called == Range(waiting) \union Ids(down) \union {m.c : m \in Asked(up)}

(* m_csOneSending: one thread sends at a time.                             *)
OneSender == \A t, u \in Sending : t = u

(* The call of a sender has not ended.                                     *)
SenderOpen == \A t \in Sending :
    cur[t] \in 1 .. Len(call) /\ call[cur[t]].kind \in Executing
    /\ outcome[cur[t]] = "none"

(* The request of a sender is not under way.                               *)
SenderFresh == \A t \in Sending : cur[t] \notin Called

CalledKnown == Called \subseteq 1 .. Len(call)
KindsMatch  == \A m \in Asked(up) : call[m.c].kind = m.id

(* The entries of m_mapParameterCall belong to calls that have not ended,  *)
(* and once CleanCallbacks has cleared them only to that of a sender.      *)
PointersOpen == \A c \in mapParameterCall :
    c \in 1 .. Len(call) /\ call[c].kind \in Executing
    /\ outcome[c] \in {"none", "exception"}
PointersCleaned ==
    conn = "cleaned" => mapParameterCall \subseteq {cur[t] : t \in Sending}

Pointers == /\ OneSender /\ SenderOpen /\ SenderFresh /\ CalledKnown
            /\ KindsMatch /\ PointersOpen /\ PointersCleaned

core == <<mapParameterCall, pc, cur, todo, conn, waiting, up, bound, call,
          outcome, executed, lastPrepared>>

Take == OnBatchHeader \/ OnRowsetHeader \/ OnTransferring \/ OnBLOB \/ OnEndRows
        \/ OnCallReturn \/ OnOutputParameter

(* What the answers before the last one leave alone.                       *)
LEMMA TakeEffect ==
    ASSUME Take
    PROVE  /\ conn = "up" /\ down # <<>> /\ down' = Tail(down) /\ UNCHANGED core
           /\ Head(down).id \notin Ending
<1>1. CASE OnBatchHeader
    BY <1>1 DEF OnBatchHeader, Arrives, Taken, threadVars, Ending, core
<1>2. CASE OnRowsetHeader
    BY <1>2 DEF OnRowsetHeader, Arrives, Taken, threadVars, Ending, core
<1>3. CASE OnTransferring
    BY <1>3 DEF OnTransferring, Arrives, Taken, threadVars, Ending, core
<1>4. CASE OnBLOB
    BY <1>4 DEF OnBLOB, Arrives, Taken, threadVars, Ending, core
<1>5. CASE OnEndRows
    BY <1>5 DEF OnEndRows, Arrives, Taken, threadVars, Ending, core
<1>6. CASE OnCallReturn
    BY <1>6 DEF OnCallReturn, Arrives, Taken, threadVars, Ending, handlerVars, core
<1>7. CASE OnOutputParameter
    BY <1>7 DEF OnOutputParameter, Arrives, Taken, threadVars, Ending, core
<1> QED
    BY <1>1, <1>2, <1>3, <1>4, <1>5, <1>6, <1>7 DEF Take

Good == Types /\ Pointers

(* Good holds at first, and each action keeps it.                          *)
LEMMA InitGood == Init => Good
<1> SUFFICES ASSUME Init
             PROVE  Good
    OBVIOUS
<1>1. /\ \A S : <<>> \in Seq(S)
      /\ Len(<<>>) = 0
    BY EmptySeq
<1>2. Types
    BY <1>1 DEF Init, Types, Pairs
<1>3. Called = {} /\ Asked(up) = {} /\ Sending = {}
    BY RangeEmpty DEF Init, Called, Asked, Ids, Sending
<1>4. Pointers
    BY <1>3 DEF Init, Pointers, OneSender, SenderOpen, SenderFresh, CalledKnown,
                KindsMatch, PointersOpen, PointersCleaned
<1> QED
    BY <1>2, <1>4 DEF Good

LEMMA UnchangedKeeps ==
    ASSUME Good, UNCHANGED <<core, down>>
    PROVE  Good'
BY DEF Good, Types, Pointers, OneSender, SenderOpen, SenderFresh, CalledKnown,
       KindsMatch, PointersOpen, PointersCleaned, Called, Asked, Ids, Sending, core

LEMMA TakeKeeps ==
    ASSUME Good, Take
    PROVE  Good'
<1>1. conn = "up" /\ down # <<>> /\ down' = Tail(down) /\ UNCHANGED core
    BY TakeEffect
<1>2. down \in Seq(AllReplies)
    BY DEF Good, Types
<1>3. Tail(down) \in Seq(AllReplies) /\ Range(Tail(down)) \subseteq Range(down)
    BY <1>1, <1>2, RangeHeadTail
<1>4. Types'
    BY <1>1, <1>3 DEF Good, Types, core
<1>5. Called' \subseteq Called
    BY <1>1, <1>3 DEF Called, Ids, Asked, core
<1>6. Pointers'
    BY <1>1, <1>5 DEF Good, Pointers, OneSender, SenderOpen, SenderFresh, CalledKnown,
       KindsMatch, PointersOpen, PointersCleaned, Asked, Sending, core
<1> QED
    BY <1>4, <1>6 DEF Good

LEMMA AllProcessedKeeps ==
    ASSUME Good, OnAllProcessed
    PROVE  Good'
<1>1. UNCHANGED <<core, down>>
    BY DEF OnAllProcessed, core, threadVars, sessionVars, historyVars
<1> QED
    BY <1>1, UnchangedKeeps

LEMMA BreakKeeps ==
    ASSUME Good, Break
    PROVE  Good'
<1>1. /\ conn' = "closing" /\ up' = <<>> /\ down' = <<>> /\ bound' = <<>>
      /\ lastPrepared' = {}
      /\ UNCHANGED <<mapParameterCall, pc, cur, todo, waiting, call, outcome, executed>>
    BY DEF Break, handlerVars, threadVars
<1>2. \A S : <<>> \in Seq(S)
    BY EmptySeq
<1>3. Types'
    BY <1>1, <1>2 DEF Good, Types, Pairs
<1>4. Called' \subseteq Called /\ Asked(up)' = {}
    BY <1>1, RangeEmpty DEF Called, Ids, Asked
<1>5. Pointers'
    BY <1>1, <1>4 DEF Good, Pointers, OneSender, SenderOpen, SenderFresh, CalledKnown,
       KindsMatch, PointersOpen, PointersCleaned, Sending
<1> QED
    BY <1>3, <1>5 DEF Good

LEMMA CleanMapsKeeps ==
    ASSUME Good, CleanMaps
    PROVE  Good'
<1>1. /\ conn' = "cleaned" /\ mapParameterCall' = {}
      /\ UNCHANGED <<pc, cur, todo, waiting, up, down, bound, call, outcome,
                     executed, lastPrepared>>
    BY DEF CleanMaps, Clean, threadVars, historyVars
<1>2. Types'
    BY <1>1 DEF Good, Types
<1>3. Called' = Called /\ Asked(up)' = Asked(up)
    BY <1>1 DEF Called, Ids, Asked
<1>4. Pointers'
    BY <1>1, <1>3 DEF Good, Pointers, OneSender, SenderOpen, SenderFresh, CalledKnown,
       KindsMatch, PointersOpen, PointersCleaned, Sending
<1> QED
    BY <1>2, <1>4 DEF Good

LEMMA CleanCallbacksKeeps ==
    ASSUME Good, CleanCallbacks
    PROVE  Good'
<1>1. /\ conn = "cleaned" /\ conn' = "down" /\ waiting' = <<>>
      /\ outcome' = [c \in DOMAIN outcome |->
                       IF c \in Range(waiting) THEN "discarded" ELSE outcome[c]]
      /\ UNCHANGED <<mapParameterCall, pc, cur, todo, up, down, bound, call,
                     executed, lastPrepared>>
    BY DEF CleanCallbacks, handlerVars, threadVars
<1>2. /\ outcome \in Seq(Outcomes) /\ Len(outcome) = Len(call) /\ Len(call) \in Nat
      /\ DOMAIN outcome = 1 .. Len(call) /\ \A c \in 1 .. Len(call) : outcome[c] \in Outcomes
    BY LenProperties, ElementOfSeq DEF Good, Types
<1>3. outcome' \in [1 .. Len(call) -> Outcomes]
    BY <1>1, <1>2 DEF Outcomes
<1>4. outcome' \in Seq(Outcomes) /\ Len(outcome') = Len(call)
    BY <1>2, <1>3, FunctionIsSeq
<1>5. <<>> \in Seq(Nat)
    BY EmptySeq
<1>6. Types'
    BY <1>1, <1>4, <1>5 DEF Good, Types
<1>7. Called' \subseteq Called /\ Asked(up)' = Asked(up) /\ Range(waiting) \subseteq Called
    BY <1>1, RangeEmpty DEF Called, Ids, Asked
<1>8. \A c \in 1 .. Len(call) : c \notin Called => outcome'[c] = outcome[c]
    BY <1>1, <1>2, <1>7
<1>9. \A c \in mapParameterCall : c \notin Called /\ c \in 1 .. Len(call)
    BY <1>1 DEF Good, Pointers, PointersCleaned, PointersOpen, SenderFresh
<1>10. OneSender' /\ CalledKnown' /\ KindsMatch' /\ PointersCleaned' /\ SenderFresh'
    BY <1>1, <1>7 DEF Good, Pointers, OneSender, SenderFresh, CalledKnown, KindsMatch,
                      PointersCleaned, Sending
<1>11. SenderOpen'
    BY <1>1, <1>8 DEF Good, Pointers, SenderOpen, SenderFresh, Sending
<1>12. PointersOpen'
    BY <1>1, <1>8, <1>9 DEF Good, Pointers, PointersOpen
<1> QED
    BY <1>6, <1>10, <1>11, <1>12 DEF Good, Pointers

LEMMA ReconnectKeeps ==
    ASSUME Good, Reconnect
    PROVE  Good'
<1>1. /\ conn' = "up"
      /\ UNCHANGED <<mapParameterCall, pc, cur, todo, waiting, up, down, bound, call,
                     outcome, executed, lastPrepared>>
    BY DEF Reconnect, handlerVars, threadVars, historyVars
<1>2. Types'
    BY <1>1 DEF Good, Types
<1>3. Called' = Called /\ Asked(up)' = Asked(up)
    BY <1>1 DEF Called, Ids, Asked
<1>4. Pointers'
    BY <1>1, <1>3 DEF Good, Pointers, OneSender, SenderOpen, SenderFresh, CalledKnown,
       KindsMatch, PointersOpen, PointersCleaned, Sending
<1> QED
    BY <1>2, <1>4 DEF Good

LEMMA ReceiveEffect ==
    ASSUME Types, Receive
    PROVE  /\ conn = "up" /\ up # <<>> /\ up' = Tail(up)
           /\ Head(up).id \notin Executing \union Simple
           /\ bound' = Fed(bound, Head(up))
           /\ UNCHANGED <<mapParameterCall, pc, cur, todo, conn, waiting, down, call,
                          outcome, executed, lastPrepared>>
<1> DEFINE m == Head(up)
           vals == [n \in DOMAIN m.vals |-> <<m.c, m.vals[n]>>]
<1>1. up # <<>> /\ up \in Seq(Requests)
    BY DEF Receive, Types
<1>2. m \in Requests
    BY <1>1, RangeHeadTail
<1>3. m.vals \in Seq(Nat)
    BY <1>2 DEF Requests
<1>4. vals = Tag(m.c, m.vals)
    BY <1>3, LenProperties DEF Tag
<1>5. /\ m.id \notin Executing \union Simple
      /\ bound' = CASE m.id = "idBeginRows" -> vals
                    [] m.id \in {"idTransferring", "idEndBLOB"} -> bound \o vals
                    [] OTHER -> bound
    BY DEF Receive
<1> HIDE DEF vals, m
<1>6. bound' = Fed(bound, m)
    BY <1>4, <1>5 DEF Fed
<1> QED
    BY <1>5, <1>6 DEF Receive, handlerVars, threadVars, historyVars, m

LEMMA ReceiveKeeps ==
    ASSUME Good, Receive
    PROVE  Good'
<1>1. /\ conn = "up" /\ up # <<>> /\ up' = Tail(up) /\ bound' = Fed(bound, Head(up))
      /\ UNCHANGED <<mapParameterCall, pc, cur, todo, conn, waiting, down, call,
                     outcome, executed, lastPrepared>>
    BY ReceiveEffect DEF Good
<1>2. up \in Seq(Requests) /\ bound \in Pairs
    BY DEF Good, Types
<1>3. /\ Tail(up) \in Seq(Requests) /\ Range(Tail(up)) \subseteq Range(up)
      /\ Head(up) \in Requests
    BY <1>1, <1>2, RangeHeadTail
<1>4. bound' \in Pairs
    BY <1>1, <1>2, <1>3, FedType
<1>5. Types'
    BY <1>1, <1>3, <1>4 DEF Good, Types
<1>6. Called' \subseteq Called /\ Asked(up)' \subseteq Asked(up)
    BY <1>1, <1>3 DEF Called, Ids, Asked
<1>7. Pointers'
    BY <1>1, <1>6 DEF Good, Pointers, OneSender, SenderOpen, SenderFresh, CalledKnown,
       KindsMatch, PointersOpen, PointersCleaned, Sending
<1> QED
    BY <1>5, <1>7 DEF Good

(* The server answers with a sequence of replies about the call.           *)
LEMMA ServeEffect ==
    ASSUME Good, Serve
    PROVE  /\ conn = "up" /\ up # <<>> /\ Head(up).id \in Executing \union Simple
           /\ up' = Tail(up) /\ bound' = Fed(bound, Head(up))
           /\ executed' = [executed EXCEPT ![Head(up).c] = bound]
           /\ Head(up).c \in 1 .. Len(call) /\ Head(up) \in Asked(up)
           /\ \E a \in Seq(Replies(Head(up).c)), m \in Lasts(Head(up).c) :
                 down' = down \o Append(a, m)
           /\ UNCHANGED <<mapParameterCall, pc, cur, todo, conn, waiting, call,
                          outcome, lastPrepared>>
<1> DEFINE h == Head(up)
           c == h.c
           a == IF h.id \in Executing THEN Answers(c) ELSE <<>>
           res == Msg("result", c, 0, 0, <<>>)
           exc == Msg("exception", c, 0, 0, <<>>)
<1>1. /\ conn = "up" /\ up # <<>> /\ h.id \in Executing \union Simple
      /\ up' = Tail(up) /\ executed' = [executed EXCEPT ![c] = bound]
      /\ bound' = IF h.id \in Executing THEN <<>> ELSE bound
      /\ UNCHANGED <<mapParameterCall, pc, cur, todo, conn, waiting, call,
                     outcome, lastPrepared>>
    BY DEF Serve, handlerVars, threadVars
<1>2. \/ down' = down \o Append(a, res)
      \/ \E n \in 0 .. Len(a) : down' = down \o Append(SubSeq(a, 1, n), exc)
    BY DEF Serve
<1>3. up \in Seq(Requests) /\ call \in Seq(Calls)
    BY DEF Good, Types
<1>4. h \in Requests /\ h \in Range(up)
    BY <1>1, <1>3, RangeHeadTail
<1>5. h \in Asked(up) /\ c \in Called
    BY <1>1, <1>4 DEF Asked, Called
<1>6. c \in 1 .. Len(call) /\ c \in Nat
  <2>1. c \in 1 .. Len(call)
    BY <1>5 DEF Good, Pointers, CalledKnown
  <2>2. Len(call) \in Nat
    BY <1>3, LenProperties
  <2> HIDE DEF c
  <2> QED
    BY <2>1, <2>2
<1>7. call[c].stmts \in Seq(Statement) /\ call[c].vParam \in Seq(Nat)
  <2>1. call[c] \in Calls
    BY <1>3, <1>6, ElementOfSeq
  <2> QED
    BY <2>1 DEF Calls
<1>8. a \in Seq(Replies(c))
    BY <1>6, <1>7, AnswersType, EmptySeq
<1>9. res \in Lasts(c) /\ exc \in Lasts(c)
  <2>1. <<>> \in Seq(Value)
    BY EmptySeq
  <2> QED
    BY <2>1 DEF Msg, Lasts, Ending
<1>10. bound' = Fed(bound, h)
    BY <1>1 DEF Fed, Executing, Simple
<1>11. \E x \in Seq(Replies(c)), m \in Lasts(c) : down' = down \o Append(x, m)
  <2> HIDE DEF a, res, exc, c
  <2>1. CASE down' = down \o Append(a, res)
    BY <1>8, <1>9, <2>1
  <2>2. ASSUME NEW n \in 0 .. Len(a), down' = down \o Append(SubSeq(a, 1, n), exc)
        PROVE  \E x \in Seq(Replies(c)), m \in Lasts(c) :
                  down' = down \o Append(x, m)
    <3>1. Len(a) \in Nat /\ \A i \in 1 .. n : a[i] \in Replies(c)
        BY <1>8, LenProperties, ElementOfSeq
    <3>2. SubSeq(a, 1, n) \in Seq(Replies(c))
        BY <3>1, SubSeqProperties
    <3> QED
        BY <1>9, <2>2, <3>2
  <2> QED
    BY <1>2, <2>1, <2>2
<1> QED
    BY <1>1, <1>5, <1>6, <1>10, <1>11

LEMMA RepliesRange ==
    ASSUME NEW c \in Nat, NEW a \in Seq(Replies(c)), NEW m \in Lasts(c),
           NEW d \in Seq(AllReplies)
    PROVE  /\ d \o Append(a, m) \in Seq(AllReplies)
           /\ Ids(d \o Append(a, m)) = Ids(d) \union {c}
<1> DEFINE e == Append(a, m)
           R == Replies(c) \union Lasts(c)
           A == AllReplies
<1>1. R \subseteq A
    BY DEF Replies, Lasts, AllReplies
<1>2. \A x \in R : x.c = c
    BY DEF Replies, Lasts
<1>3. a \in Seq(R) /\ m \in R /\ d \in Seq(A)
    BY SeqSubset
<1> HIDE DEF R, A
<1>4. e \in Seq(R) /\ Range(e) = Range(a) \union {m} /\ Range(a) \subseteq R
    BY <1>3, AppendProperties, RangeAppend, RangeOfSeq
<1> HIDE DEF e
<1>5. e \in Seq(A)
    BY <1>1, <1>4, SeqSubset
<1>6. d \o e \in Seq(A) /\ Range(d \o e) = Range(d) \union Range(e)
    BY <1>5, <1>3, ConcatProperties, RangeConcatenation
<1>7. {x.c : x \in Range(e)} = {c}
    BY <1>2, <1>4, <1>3
<1>8. Ids(d \o e) = Ids(d) \union {c}
    BY <1>6, <1>7 DEF Ids
<1> QED
    BY <1>6, <1>8 DEF e, A

LEMMA ServeKeeps ==
    ASSUME Good, Serve
    PROVE  Good'
<1> DEFINE h == Head(up)
           c == h.c
<1>1. /\ conn = "up" /\ up # <<>> /\ up' = Tail(up) /\ bound' = Fed(bound, h)
      /\ executed' = [executed EXCEPT ![c] = bound]
      /\ c \in 1 .. Len(call) /\ h \in Asked(up)
      /\ UNCHANGED <<mapParameterCall, pc, cur, todo, conn, waiting, call,
                     outcome, lastPrepared>>
    BY ServeEffect
<1>2. PICK a \in Seq(Replies(c)), m \in Lasts(c) : down' = down \o Append(a, m)
    BY ServeEffect
<1>3. /\ up \in Seq(Requests) /\ down \in Seq(AllReplies) /\ bound \in Pairs
      /\ call \in Seq(Calls) /\ executed \in Seq(Pairs) /\ Len(executed) = Len(call)
      /\ Len(call) \in Nat /\ c \in Nat
    BY <1>1, LenProperties DEF Good, Types
<1>4. /\ Tail(up) \in Seq(Requests) /\ Range(Tail(up)) \subseteq Range(up)
      /\ h \in Requests
    BY <1>1, <1>3, RangeHeadTail
<1>5. bound' \in Pairs
    BY <1>1, <1>3, <1>4, FedType
<1> HIDE DEF c, h
<1>6. down' \in Seq(AllReplies) /\ Ids(down') = Ids(down) \union {c}
    BY <1>2, <1>3, RepliesRange
<1>7. executed' \in Seq(Pairs) /\ Len(executed') = Len(call)
  <2>1. executed \in [1 .. Len(call) -> Pairs]
    BY <1>3, LenProperties
  <2>2. executed' \in [1 .. Len(call) -> Pairs]
    BY <1>1, <1>3, <2>1
  <2> QED
    BY <1>3, <2>2, FunctionIsSeq
<1>8. Types'
    BY <1>1, <1>4, <1>5, <1>6, <1>7 DEF Good, Types
<1>9. Called' \subseteq Called /\ Asked(up)' \subseteq Asked(up)
  <2>1. c \in Called
    BY <1>1 DEF Called, c
  <2>2. Asked(up)' \subseteq Asked(up)
    BY <1>1, <1>4 DEF Asked
  <2> QED
    BY <1>1, <1>6, <2>1, <2>2 DEF Called, Ids
<1>10. Pointers'
    BY <1>1, <1>9 DEF Good, Pointers, OneSender, SenderOpen, SenderFresh, CalledKnown,
       KindsMatch, PointersOpen, PointersCleaned, Sending
<1> QED
    BY <1>8, <1>10 DEF Good

(* The end of a call: its pointer goes with the result.                    *)
LEMMA OnResultEffect ==
    ASSUME Good, OnResult
    PROVE  /\ conn = "up" /\ down # <<>> /\ down' = Tail(down)
           /\ Head(down).id \in Ending /\ Head(down).c \in 1 .. Len(call)
           /\ waiting' = Tail(waiting)
           /\ \/ /\ outcome' = [outcome EXCEPT ![Head(down).c] = "result"]
                 /\ mapParameterCall' = IF call[Head(down).c].kind \in Executing
                                        THEN mapParameterCall \ {Head(down).c}
                                        ELSE mapParameterCall
              \/ /\ outcome' = [outcome EXCEPT ![Head(down).c] = "exception"]
                 /\ UNCHANGED mapParameterCall
           /\ UNCHANGED <<pc, cur, todo, conn, up, bound, call, executed, lastPrepared>>
<1> DEFINE c == Head(down).c
<1>1. /\ conn = "up" /\ down # <<>> /\ down' = Tail(down)
      /\ Head(down).id \in Ending /\ waiting' = Tail(waiting)
      /\ UNCHANGED <<pc, cur, todo, conn, up, bound, call, executed, lastPrepared>>
    BY DEF OnResult, Arrives, Taken, threadVars, Ending
<1>2. c \in 1 .. Len(call)
  <2>1. Head(down) \in Range(down)
    BY <1>1, RangeHeadTail DEF Good, Types
  <2>2. c \in Called
    BY <2>1 DEF Called, Ids
  <2> QED
    BY <2>2 DEF Good, Pointers, CalledKnown
<1>3. \/ /\ outcome' = [outcome EXCEPT ![c] = "result"]
         /\ mapParameterCall' = IF call[c].kind \in Executing
                                THEN mapParameterCall \ {c} ELSE mapParameterCall
      \/ /\ outcome' = [outcome EXCEPT ![c] = "exception"]
         /\ UNCHANGED mapParameterCall
  <2>1. CASE Head(down).id = "result"
    <3>1. CASE call[c].kind \in Executing
        BY <2>1, <3>1 DEF OnResult, Process, Erase
    <3>2. CASE call[c].kind \notin Executing
        BY <2>1, <3>2 DEF OnResult, ProcessSimple
    <3> QED
        BY <3>1, <3>2
  <2>2. CASE Head(down).id = "exception"
    BY <2>2 DEF OnResult
  <2> QED
    BY <1>1, <2>1, <2>2 DEF Ending
<1> QED
    BY <1>1, <1>2, <1>3

LEMMA OnResultKeeps ==
    ASSUME Good, OnResult, waiting # <<>>
    PROVE  Good'
<1> DEFINE c == Head(down).c
<1>1. /\ conn = "up" /\ down # <<>> /\ down' = Tail(down)
      /\ c \in 1 .. Len(call) /\ waiting' = Tail(waiting)
      /\ \/ /\ outcome' = [outcome EXCEPT ![c] = "result"]
            /\ mapParameterCall' = IF call[c].kind \in Executing
                                   THEN mapParameterCall \ {c} ELSE mapParameterCall
         \/ /\ outcome' = [outcome EXCEPT ![c] = "exception"]
            /\ UNCHANGED mapParameterCall
      /\ UNCHANGED <<pc, cur, todo, conn, up, bound, call, executed, lastPrepared>>
    BY OnResultEffect
<1>2. /\ down \in Seq(AllReplies) /\ waiting \in Seq(Nat) /\ Len(call) \in Nat
      /\ outcome \in [1 .. Len(call) -> Outcomes]
    BY LenProperties DEF Good, Types
<1>3. /\ Tail(down) \in Seq(AllReplies) /\ Range(Tail(down)) \subseteq Range(down)
      /\ Tail(waiting) \in Seq(Nat) /\ Range(Tail(waiting)) \subseteq Range(waiting)
      /\ Head(down) \in Range(down)
    BY <1>1, <1>2, RangeHeadTail
<1>4. c \in Called
    BY <1>3 DEF Called, Ids
<1> HIDE DEF c
<1>5. /\ outcome' \in [1 .. Len(call) -> Outcomes]
      /\ \A x \in 1 .. Len(call) : x # c => outcome'[x] = outcome[x]
      /\ outcome'[c] \in {"result", "exception"}
      /\ outcome'[c] = "result" =>
            mapParameterCall' = IF call[c].kind \in Executing
                                THEN mapParameterCall \ {c} ELSE mapParameterCall
      /\ mapParameterCall' \subseteq mapParameterCall
    BY <1>1, <1>2 DEF Outcomes
<1>6. outcome' \in Seq(Outcomes) /\ Len(outcome') = Len(call)
    BY <1>2, <1>5, FunctionIsSeq
<1>7. Types'
    BY <1>1, <1>3, <1>5, <1>6 DEF Good, Types
<1>8. Called' \subseteq Called /\ Asked(up)' = Asked(up)
    BY <1>1, <1>3 DEF Called, Ids, Asked
<1>9. OneSender' /\ CalledKnown' /\ KindsMatch' /\ PointersCleaned' /\ SenderFresh'
    BY <1>1, <1>5, <1>8 DEF Good, Pointers, OneSender, SenderFresh, CalledKnown,
                            KindsMatch, PointersCleaned, Sending
<1>10. SenderOpen'
    BY <1>1, <1>4, <1>5 DEF Good, Pointers, SenderOpen, SenderFresh, Sending
<1>11. PointersOpen'
  <2> SUFFICES ASSUME NEW x \in mapParameterCall'
               PROVE  /\ x \in 1 .. Len(call) /\ call[x].kind \in Executing
                      /\ outcome'[x] \in {"none", "exception"}
    BY <1>1 DEF PointersOpen
  <2>1. /\ x \in 1 .. Len(call) /\ call[x].kind \in Executing
        /\ outcome[x] \in {"none", "exception"}
    BY <1>5 DEF Good, Pointers, PointersOpen
  <2>2. x = c => outcome'[c] # "result"
    BY <1>5, <2>1
  <2> QED
    BY <1>5, <2>1, <2>2
<1> QED
    BY <1>7, <1>9, <1>10, <1>11 DEF Good, Pointers

(* A new call.                                                             *)
Grown(x, o) ==
    /\ call' \in Seq(Calls) /\ Len(call') = Len(call) + 1 /\ Len(call) \in Nat
    /\ outcome' \in Seq(Outcomes) /\ Len(outcome') = Len(call')
    /\ executed' \in Seq(Pairs) /\ Len(executed') = Len(call')
    /\ \A c \in 1 .. Len(call) :
          call'[c] = call[c] /\ outcome'[c] = outcome[c] /\ executed'[c] = executed[c]
    /\ call'[Len(call')] = x /\ outcome'[Len(call')] = o
    /\ Len(call') \in 1 .. Len(call') /\ 1 .. Len(call) \subseteq 1 .. Len(call')
    /\ Len(call') \notin 1 .. Len(call) /\ Len(call') \in Nat

(* A new call, its outcome and what it executes.                           *)
LEMMA CallGrows ==
    ASSUME Types, NEW x \in Calls, NEW o \in Outcomes, call' = Append(call, x),
           outcome' = Append(outcome, o), executed' = Append(executed, <<>>)
    PROVE  Grown(x, o)
<1>1. /\ call \in Seq(Calls) /\ outcome \in Seq(Outcomes) /\ executed \in Seq(Pairs)
      /\ Len(outcome) = Len(call) /\ Len(executed) = Len(call) /\ Len(call) \in Nat
      /\ <<>> \in Pairs
    BY LenProperties, EmptySeq DEF Types, Pairs
<1>2. /\ call' \in Seq(Calls) /\ Len(call') = Len(call) + 1 /\ call'[Len(call) + 1] = x
      /\ \A c \in 1 .. Len(call) : call'[c] = call[c]
    BY <1>1, Appended
<1>3. /\ outcome' \in Seq(Outcomes) /\ Len(outcome') = Len(call) + 1
      /\ outcome'[Len(call) + 1] = o
      /\ \A c \in 1 .. Len(call) : outcome'[c] = outcome[c]
    BY <1>1, Appended
<1>4. /\ executed' \in Seq(Pairs) /\ Len(executed') = Len(call) + 1
      /\ \A c \in 1 .. Len(call) : executed'[c] = executed[c]
    BY <1>1, Appended
<1> QED
    BY <1>1, <1>2, <1>3, <1>4 DEF Grown

LEMMA SimpleMsg ==
    ASSUME NEW k \in Executing \union Simple, NEW c \in Nat
    PROVE  /\ Msg(k, c, 0, 0, <<>>) \in Requests
           /\ Msg(k, c, 0, 0, <<>>).id = k /\ Msg(k, c, 0, 0, <<>>).c = c
<1>1. <<>> \in Seq(Nat)
    BY EmptySeq
<1> QED
    BY <1>1 DEF Msg, Requests

LEMMA SendSimpleKeeps ==
    ASSUME Good, NEW k \in Simple, NEW stmts \in Seq(Statement), SendSimple(k, stmts),
           k = "idPrepare" => stmts[1] \in Statement
    PROVE  Good'
<1> DEFINE x == [kind |-> k, stmts |-> stmts, vParam |-> <<>>]
           c == Len(call')
           m == Msg(k, c, 0, 0, <<>>)
<1>1. /\ call' = Append(call, x) /\ executed' = Append(executed, <<>>)
      /\ \/ /\ conn = "up" /\ up' = Append(up, m) /\ waiting' = Append(waiting, c)
            /\ outcome' = Append(outcome, "none")
            /\ lastPrepared' \subseteq Statement
         \/ /\ outcome' = Append(outcome, "failed")
            /\ UNCHANGED <<up, waiting, lastPrepared>>
      /\ Sending = {}
      /\ UNCHANGED <<mapParameterCall, pc, cur, todo, conn, down, bound>>
  <2>1. lastPrepared \subseteq Statement
    BY DEF Good, Types
  <2> QED
    BY <2>1 DEF SendSimple, NewCall, NoneSending, Sending, handlerVars, threadVars, Simple
<1>2. x \in Calls /\ x.kind = k
    BY EmptySeq DEF Calls
<1> HIDE DEF x
<1>3. \E o \in {"none", "failed"} : Grown(x, o)
    BY <1>1, <1>2, CallGrows DEF Good, Outcomes
<1>4. PICK o \in {"none", "failed"} : Grown(x, o)
    BY <1>3
<1>5. c \in Nat /\ m \in Requests /\ m.id = k /\ m.c = c
    BY <1>4, SimpleMsg DEF Grown
<1>6. /\ up \in Seq(Requests) /\ waiting \in Seq(Nat)
    BY DEF Good, Types
<1> HIDE DEF m
<1>7. /\ up' \in Seq(Requests) /\ Range(up') \subseteq Range(up) \union {m}
      /\ waiting' \in Seq(Nat) /\ Range(waiting') \subseteq Range(waiting) \union {c}
  <2>1. Append(up, m) \in Seq(Requests) /\ Range(Append(up, m)) = Range(up) \union {m}
    BY <1>5, <1>6, AppendProperties, RangeAppend
  <2>2. Append(waiting, c) \in Seq(Nat) /\ Range(Append(waiting, c)) = Range(waiting) \union {c}
    BY <1>5, <1>6, AppendProperties, RangeAppend
  <2> QED
    BY <1>1, <1>6, <2>1, <2>2
<1>8. Types'
    BY <1>1, <1>4, <1>7 DEF Good, Types, Grown
<1>9. Called' \subseteq Called \union {c} /\ Asked(up)' \subseteq Asked(up) \union {m}
  <2>1. Asked(up)' \subseteq Asked(up) \union {m}
    BY <1>7 DEF Asked
  <2> QED
    BY <1>1, <1>5, <1>7, <2>1 DEF Called, Ids
<1>10. Sending' = {}
    BY <1>1 DEF Sending
<1>11. OneSender' /\ SenderOpen' /\ SenderFresh'
    BY <1>10 DEF OneSender, SenderOpen, SenderFresh
<1>12. CalledKnown'
    BY <1>4, <1>9 DEF Good, Pointers, CalledKnown, Grown
<1>13. KindsMatch'
  <2> SUFFICES ASSUME NEW y \in Asked(up)'
               PROVE  call'[y.c].kind = y.id
    BY DEF KindsMatch
  <2>1. CASE y = m
    BY <1>2, <1>4, <1>5, <2>1 DEF Grown
  <2>2. CASE y \in Asked(up)
    <3>1. y.c \in 1 .. Len(call) /\ call[y.c].kind = y.id
        BY <2>2 DEF Good, Pointers, KindsMatch, CalledKnown, Called
    <3> QED
        BY <1>4, <3>1 DEF Grown
  <2> QED
    BY <1>9, <2>1, <2>2
<1>14. PointersOpen' /\ PointersCleaned'
  <2>1. PointersCleaned'
    BY <1>1, <1>10 DEF Good, Pointers, PointersCleaned
  <2>2. PointersOpen'
    BY <1>1, <1>4 DEF Good, Pointers, PointersOpen, Grown
  <2> QED
    BY <2>1, <2>2
<1> QED
    BY <1>8, <1>11, <1>12, <1>13, <1>14 DEF Good, Pointers

(* What Execute and ExecuteBatch start.                                    *)
Starts(t, k, stmts, v) ==
    /\ k \in Executing /\ stmts \in Seq(Statement) /\ v \in Seq(Nat)
    /\ Start(t, k, stmts, v)

LEMMA ExecuteStarts ==
    ASSUME Good, NEW t \in Thread, Execute(t)
    PROVE  Sending = {} /\ \E k, stmts, v : Starts(t, k, stmts, v)
<1>1. Sending = {}
    BY DEF Execute, NoneSending, Sending
<1>2. /\ Batches \subseteq Seq(Statement) /\ Arrays \subseteq Seq(Nat)
      /\ lastPrepared \subseteq Statement
    BY ConstantsAssumption DEF Good, Types
<1>3. \A v \in Arrays \union {<<>>} : v \in Seq(Nat)
    BY <1>2, EmptySeq
<1>4. ASSUME NEW k \in Executing, NEW stmts \in Seq(Statement), ExecuteWith(t, k, stmts)
      PROVE  \E kk, ss, v : Starts(t, kk, ss, v)
    BY <1>3, <1>4 DEF ExecuteWith, Starts
<1>5. <<Query>> \in Seq(Statement)
  <2>1. Query \in Statement
    BY DEF Query, Statement
  <2> QED
    BY <2>1, OneIsSeq
<1>6. ASSUME NEW s \in lastPrepared
      PROVE  <<s>> \in Seq(Statement)
    BY <1>2, OneIsSeq
<1>7. {"idExecuteParameters", "idExecute", "idExecuteBatch"} = Executing
    BY DEF Executing
<1>8. CASE \E s \in lastPrepared : ExecuteWith(t, "idExecuteParameters", <<s>>)
  <2>1. PICK s \in lastPrepared : ExecuteWith(t, "idExecuteParameters", <<s>>)
    BY <1>8
  <2>2. <<s>> \in Seq(Statement) /\ "idExecuteParameters" \in Executing
    BY <1>6, <1>7
  <2> QED
    BY <1>1, <1>4, <2>1, <2>2, Zenon
<1>9. CASE ExecuteWith(t, "idExecute", <<Query>>)
  <2>1. "idExecute" \in Executing
    BY <1>7
  <2> QED
    BY <1>1, <1>4, <1>5, <1>9, <2>1, Zenon
<1>10. CASE \E b \in Batches : ExecuteWith(t, "idExecuteBatch", b)
  <2>1. PICK b \in Batches : ExecuteWith(t, "idExecuteBatch", b)
    BY <1>10
  <2>2. b \in Seq(Statement) /\ "idExecuteBatch" \in Executing
    BY <1>2, <1>7
  <2> QED
    BY <1>1, <1>4, <2>1, <2>2, Zenon
<1> QED
    BY <1>1, <1>8, <1>9, <1>10 DEF Execute

LEMMA StartEffect ==
    ASSUME Good, NEW t \in Thread, NEW k, NEW stmts, NEW v, Starts(t, k, stmts, v)
    PROVE  /\ Grown([kind |-> k, stmts |-> stmts, vParam |-> v], "none")
           /\ pc' = [pc EXCEPT ![t] = "data"] /\ cur' = [cur EXCEPT ![t] = Len(call')]
           /\ todo' = [todo EXCEPT ![t] = SendParametersData(Len(call'), v)]
           /\ lastPrepared' \subseteq Statement
           /\ UNCHANGED <<mapParameterCall, conn, waiting, up, down, bound>>
<1> DEFINE x == [kind |-> k, stmts |-> stmts, vParam |-> v]
<1>1. /\ k \in Executing /\ stmts \in Seq(Statement) /\ v \in Seq(Nat)
      /\ call' = Append(call, x) /\ executed' = Append(executed, <<>>)
      /\ outcome' = Append(outcome, "none")
      /\ pc' = [pc EXCEPT ![t] = "data"] /\ cur' = [cur EXCEPT ![t] = Len(call')]
      /\ todo' = [todo EXCEPT ![t] = SendParametersData(Len(call'), v)]
      /\ lastPrepared' = IF k = "idExecuteBatch" THEN {} ELSE lastPrepared
      /\ UNCHANGED <<mapParameterCall, conn, waiting, up, down, bound>>
    BY DEF Starts, Start, NewCall, handlerVars, sessionVars
<1>2. x \in Calls
    BY <1>1 DEF Calls
<1> HIDE DEF x
<1>3. Grown(x, "none")
    BY <1>1, <1>2, CallGrows DEF Good, Outcomes
<1>4. lastPrepared' \subseteq Statement
    BY <1>1 DEF Good, Types
<1> QED
    BY <1>1, <1>3, <1>4 DEF x

LEMMA StartKeeps ==
    ASSUME Good, NEW t \in Thread, Sending = {}, NEW k, NEW stmts, NEW v,
           Starts(t, k, stmts, v)
    PROVE  Good' /\ Sending' = {t} /\ cur'[t] = Len(call')
<1> DEFINE x == [kind |-> k, stmts |-> stmts, vParam |-> v]
           c == Len(call')
<1>1. /\ Grown(x, "none")
      /\ pc' = [pc EXCEPT ![t] = "data"] /\ cur' = [cur EXCEPT ![t] = c]
      /\ todo' = [todo EXCEPT ![t] = SendParametersData(c, v)]
      /\ lastPrepared' \subseteq Statement
      /\ UNCHANGED <<mapParameterCall, conn, waiting, up, down, bound>>
    BY StartEffect
<1>2. x.kind = k /\ k \in Executing /\ v \in Seq(Nat)
    BY DEF Starts
<1> HIDE DEF x
<1>3. SendParametersData(c, v) \in Seq(DataMsgs)
  <2>1. c \in Nat
    BY <1>1 DEF Grown
  <2> HIDE DEF c
  <2>2. SendParametersData(c, v) \in Seq(Data(c)) /\ Data(c) \subseteq DataMsgs
    BY <1>2, <2>1, ParametersData DEF Data, DataMsgs
  <2> QED
    BY <2>2, SeqSubset
<1>4. Types'
  <2>1. pc \in [Thread -> {"idle", "data", "request"}] /\ cur \in [Thread -> Nat]
        /\ todo \in [Thread -> Seq(DataMsgs)]
    BY DEF Good, Types
  <2>2. pc' \in [Thread -> {"idle", "data", "request"}]
    BY <1>1, <2>1
  <2>3. cur' \in [Thread -> Nat]
    BY <1>1, <2>1 DEF Grown
  <2>4. todo' \in [Thread -> Seq(DataMsgs)]
    BY <1>1, <1>3, <2>1
  <2> QED
    BY <1>1, <2>2, <2>3, <2>4 DEF Good, Types, Grown
<1>5. Sending' = {t} /\ cur'[t] = c
  <2>1. pc \in [Thread -> {"idle", "data", "request"}] /\ cur \in [Thread -> Nat]
    BY DEF Good, Types
  <2> QED
    BY <1>1, <2>1 DEF Sending
<1>6. Called' = Called /\ Asked(up)' = Asked(up) /\ Called \subseteq 1 .. Len(call)
    BY <1>1 DEF Called, Ids, Asked, Good, Pointers, CalledKnown
<1>7. OneSender'
    BY <1>5 DEF OneSender
<1>8. SenderOpen'
    BY <1>1, <1>2, <1>5 DEF SenderOpen, Grown
<1>9. SenderFresh'
    BY <1>1, <1>5, <1>6 DEF SenderFresh, Grown
<1>10. CalledKnown'
    BY <1>1, <1>6 DEF CalledKnown, Grown
<1>11. KindsMatch'
  <2> SUFFICES ASSUME NEW y \in Asked(up)
               PROVE  call'[y.c].kind = y.id
    BY <1>6 DEF KindsMatch
  <2>1. y.c \in 1 .. Len(call) /\ call[y.c].kind = y.id
    BY DEF Good, Pointers, KindsMatch, CalledKnown, Called
  <2> QED
    BY <1>1, <2>1 DEF Grown
<1>12. PointersOpen'
    BY <1>1 DEF Good, Pointers, PointersOpen, Grown
<1>13. PointersCleaned'
  <2>1. conn = "cleaned" => mapParameterCall = {}
    BY DEF Good, Pointers, PointersCleaned
  <2> QED
    BY <1>1, <2>1 DEF PointersCleaned
<1> QED
    BY <1>4, <1>5, <1>7, <1>8, <1>9, <1>10, <1>11, <1>12, <1>13 DEF Good, Pointers

(* A sender whose call fails returns; nobody sends then.                   *)
LEMMA Returned ==
    ASSUME Good, NEW t \in Thread, t \in Sending, Return(t)
    PROVE  /\ Sending' = {} /\ cur' \in [Thread -> Nat]
           /\ pc' \in [Thread -> {"idle", "data", "request"}]
           /\ todo' \in [Thread -> Seq(DataMsgs)]
<1>1. /\ pc \in [Thread -> {"idle", "data", "request"}] /\ cur \in [Thread -> Nat]
      /\ todo \in [Thread -> Seq(DataMsgs)] /\ <<>> \in Seq(DataMsgs)
    BY EmptySeq DEF Good, Types
<1>2. /\ cur' \in [Thread -> Nat] /\ pc' \in [Thread -> {"idle", "data", "request"}]
      /\ todo' \in [Thread -> Seq(DataMsgs)]
    BY <1>1 DEF Return
<1>3. \A u \in Thread : pc'[u] = "idle"
    BY <1>1 DEF Good, Pointers, OneSender, Sending, Return
<1> QED
    BY <1>2, <1>3 DEF Sending

(* A call that could not be sent.                                          *)
LEMMA FailedKeeps ==
    ASSUME Good, NEW t \in Thread, t \in Sending, Return(t),
           outcome' = [outcome EXCEPT ![cur[t]] = "failed"],
           mapParameterCall' \subseteq mapParameterCall \ {cur[t]},
           UNCHANGED <<conn, waiting, up, down, bound, call, executed, lastPrepared>>
    PROVE  Good'
<1>1. /\ Sending' = {} /\ cur' \in [Thread -> Nat]
      /\ pc' \in [Thread -> {"idle", "data", "request"}]
      /\ todo' \in [Thread -> Seq(DataMsgs)]
    BY Returned
<1>2. /\ outcome \in [1 .. Len(call) -> Outcomes] /\ Len(call) \in Nat
      /\ cur[t] \in 1 .. Len(call)
    BY LenProperties DEF Good, Types, Pointers, SenderOpen
<1>3. /\ outcome' \in [1 .. Len(call) -> Outcomes]
      /\ \A x \in 1 .. Len(call) : x # cur[t] => outcome'[x] = outcome[x]
    BY <1>2 DEF Outcomes
<1>4. outcome' \in Seq(Outcomes) /\ Len(outcome') = Len(call)
    BY <1>2, <1>3, FunctionIsSeq
<1>5. Types'
    BY <1>1, <1>4 DEF Good, Types
<1>6. Called' = Called /\ Asked(up)' = Asked(up)
    BY DEF Called, Ids, Asked
<1>7. OneSender' /\ SenderOpen' /\ SenderFresh'
    BY <1>1 DEF OneSender, SenderOpen, SenderFresh
<1>8. CalledKnown' /\ KindsMatch'
    BY <1>6 DEF Good, Pointers, CalledKnown, KindsMatch
<1>9. PointersOpen'
    BY <1>3 DEF Good, Pointers, PointersOpen
<1>10. PointersCleaned'
  <2>1. ASSUME conn = "cleaned", NEW c \in mapParameterCall'
        PROVE  FALSE
    <3>1. c \in mapParameterCall /\ c # cur[t]
        OBVIOUS
    <3>2. PICK u \in Sending : c = cur[u]
        BY <2>1, <3>1 DEF Good, Pointers, PointersCleaned
    <3> QED
        BY <3>1, <3>2 DEF Good, Pointers, OneSender
  <2> QED
    BY <2>1 DEF PointersCleaned
<1> QED
    BY <1>5, <1>7, <1>8, <1>9, <1>10 DEF Good, Pointers

(* Sending the data, registering the call, sending the request.            *)
LEMMA SendDataEffect ==
    ASSUME Good, NEW t \in Thread, SendData(t)
    PROVE  /\ t \in Sending /\ pc[t] = "data" /\ todo[t] # <<>>
           /\ \/ /\ conn = "up" /\ up' = Append(up, Head(todo[t]))
                 /\ todo' = [todo EXCEPT ![t] = Tail(@)]
                 /\ UNCHANGED <<mapParameterCall, pc, cur, outcome>>
              \/ /\ conn # "up" /\ mapParameterCall' = {} /\ Return(t)
                 /\ outcome' = [outcome EXCEPT ![cur[t]] = "failed"]
                 /\ UNCHANGED up
           /\ UNCHANGED <<conn, waiting, down, bound, call, executed, lastPrepared>>
BY DEF SendData, Clean, Sending, handlerVars

LEMMA SendDataKeeps ==
    ASSUME Good, NEW t \in Thread, SendData(t)
    PROVE  Good'
<1>1. /\ t \in Sending /\ todo[t] # <<>>
      /\ UNCHANGED <<conn, waiting, down, bound, call, executed, lastPrepared>>
    BY SendDataEffect
<1>2. CASE /\ conn = "up" /\ up' = Append(up, Head(todo[t]))
           /\ todo' = [todo EXCEPT ![t] = Tail(@)]
           /\ UNCHANGED <<mapParameterCall, pc, cur, outcome>>
  <2> DEFINE m == Head(todo[t])
  <2>1. up \in Seq(Requests) /\ todo \in [Thread -> Seq(DataMsgs)] /\ todo[t] \in Seq(DataMsgs)
    BY DEF Good, Types
  <2>2. m \in DataMsgs /\ Tail(todo[t]) \in Seq(DataMsgs)
    BY <1>1, <2>1, RangeHeadTail
  <2>3. m \in Requests /\ m.id \notin Executing \union Simple
    BY <2>2 DEF DataMsgs, Requests, DataIds, Executing, Simple
  <2> HIDE DEF m
  <2>4. up' \in Seq(Requests) /\ Range(up') = Range(up) \union {m}
    BY <1>2, <2>1, <2>3, AppendProperties, RangeAppend DEF m
  <2>5. todo' \in [Thread -> Seq(DataMsgs)]
    BY <1>2, <2>1, <2>2
  <2>6. Types'
    BY <1>1, <1>2, <2>4, <2>5 DEF Good, Types
  <2>7. Asked(up)' = Asked(up)
    BY <2>3, <2>4 DEF Asked
  <2>8. Called' = Called
    BY <1>1, <2>7 DEF Called, Ids
  <2>9. Pointers'
    BY <1>1, <1>2, <2>7, <2>8 DEF Good, Pointers, OneSender, SenderOpen, SenderFresh,
       CalledKnown, KindsMatch, PointersOpen, PointersCleaned, Sending
  <2> QED
    BY <2>6, <2>9 DEF Good
<1>3. CASE /\ conn # "up" /\ mapParameterCall' = {} /\ Return(t)
           /\ outcome' = [outcome EXCEPT ![cur[t]] = "failed"]
           /\ UNCHANGED up
    BY <1>1, <1>3, FailedKeeps
<1> QED
    BY <1>2, <1>3, SendDataEffect

LEMMA RegisterEffect ==
    ASSUME Good, NEW t \in Thread, Register(t)
    PROVE  /\ t \in Sending /\ pc[t] = "data" /\ todo[t] = <<>>
           /\ mapParameterCall' \subseteq mapParameterCall \union {cur[t]}
           /\ pc' = [pc EXCEPT ![t] = "request"]
           /\ UNCHANGED <<cur, todo, conn, waiting, up, down, bound, call, outcome,
                          executed, lastPrepared>>
BY DEF Register, Sending, sessionVars, historyVars

LEMMA RegisterKeeps ==
    ASSUME Good, NEW t \in Thread, Register(t)
    PROVE  Good' /\ Sending' = Sending
<1>1. /\ t \in Sending /\ mapParameterCall' \subseteq mapParameterCall \union {cur[t]}
      /\ pc' = [pc EXCEPT ![t] = "request"]
      /\ UNCHANGED <<cur, todo, conn, waiting, up, down, bound, call, outcome,
                     executed, lastPrepared>>
    BY RegisterEffect
<1>2. pc \in [Thread -> {"idle", "data", "request"}]
    BY DEF Good, Types
<1>3. pc' \in [Thread -> {"idle", "data", "request"}] /\ Sending' = Sending
    BY <1>1, <1>2 DEF Sending
<1>4. Types'
    BY <1>1, <1>3 DEF Good, Types
<1>5. Called' = Called /\ Asked(up)' = Asked(up)
    BY <1>1 DEF Called, Ids, Asked
<1>6. OneSender' /\ SenderOpen' /\ SenderFresh' /\ CalledKnown' /\ KindsMatch'
    BY <1>1, <1>3, <1>5 DEF Good, Pointers, OneSender, SenderOpen, SenderFresh,
                            CalledKnown, KindsMatch
<1>7. PointersOpen'
    BY <1>1 DEF Good, Pointers, PointersOpen, SenderOpen
<1>8. PointersCleaned'
    BY <1>1, <1>3 DEF Good, Pointers, PointersCleaned
<1> QED
    BY <1>3, <1>4, <1>6, <1>7, <1>8 DEF Good, Pointers

LEMMA SendExecuteEffect ==
    ASSUME Good, NEW t \in Thread, SendExecute(t)
    PROVE  /\ t \in Sending /\ pc[t] = "request" /\ Return(t)
           /\ \/ /\ conn = "up"
                 /\ up' = Append(up, Msg(call[cur[t]].kind, cur[t], 0, 0, <<>>))
                 /\ waiting' = Append(waiting, cur[t])
                 /\ UNCHANGED <<mapParameterCall, outcome>>
              \/ /\ conn # "up" /\ mapParameterCall' = mapParameterCall \ {cur[t]}
                 /\ outcome' = [outcome EXCEPT ![cur[t]] = "failed"]
                 /\ UNCHANGED <<up, waiting>>
           /\ UNCHANGED <<conn, down, bound, call, executed, lastPrepared>>
BY DEF SendExecute, Erase, Sending

LEMMA SendExecuteStepKeeps ==
    ASSUME Good, NEW t \in Thread, SendExecute(t)
    PROVE  Good' /\ Sending' = {}
<1> DEFINE c == cur[t]
           m == Msg(call[c].kind, c, 0, 0, <<>>)
           Sent == /\ conn = "up" /\ up' = Append(up, m) /\ waiting' = Append(waiting, c)
                   /\ UNCHANGED <<mapParameterCall, outcome>>
           Failed == /\ mapParameterCall' = mapParameterCall \ {c}
                     /\ outcome' = [outcome EXCEPT ![c] = "failed"]
                     /\ UNCHANGED <<up, waiting>>
<1>1. /\ t \in Sending /\ pc[t] = "request" /\ Return(t)
      /\ UNCHANGED <<conn, down, bound, call, executed, lastPrepared>>
    BY SendExecuteEffect
<1>2. /\ Sending' = {} /\ cur' \in [Thread -> Nat]
      /\ pc' \in [Thread -> {"idle", "data", "request"}]
      /\ todo' \in [Thread -> Seq(DataMsgs)]
    BY <1>1, Returned
<1>3. ASSUME Sent PROVE Good'
  <2>1. /\ c \in Nat /\ c \in 1 .. Len(call) /\ call[c].kind \in Executing
        /\ up \in Seq(Requests) /\ waiting \in Seq(Nat)
    BY <1>1 DEF Good, Types, Pointers, SenderOpen
  <2>2. m \in Requests /\ m.id = call[c].kind /\ m.c = c
    BY <2>1, SimpleMsg
  <2> HIDE DEF m
  <2>3. /\ up' \in Seq(Requests) /\ Range(up') = Range(up) \union {m}
        /\ waiting' \in Seq(Nat) /\ Range(waiting') = Range(waiting) \union {c}
    <3>1. Append(up, m) \in Seq(Requests) /\ Range(Append(up, m)) = Range(up) \union {m}
        BY <2>1, <2>2, AppendProperties, RangeAppend
    <3>2. /\ Append(waiting, c) \in Seq(Nat)
          /\ Range(Append(waiting, c)) = Range(waiting) \union {c}
        BY <2>1, AppendProperties, RangeAppend
    <3> QED
        BY <1>3, <3>1, <3>2
  <2>4. Types'
    BY <1>1, <1>2, <1>3, <2>3 DEF Good, Types
  <2>5. Asked(up)' = Asked(up) \union {m}
    BY <2>1, <2>2, <2>3 DEF Asked
  <2>6. Called' = Called \union {c}
    BY <1>1, <2>2, <2>3, <2>5 DEF Called, Ids
  <2>7. OneSender' /\ SenderOpen' /\ SenderFresh'
    BY <1>2 DEF OneSender, SenderOpen, SenderFresh
  <2>8. CalledKnown' /\ KindsMatch'
    BY <1>1, <2>1, <2>2, <2>5, <2>6 DEF Good, Pointers, CalledKnown, KindsMatch
  <2>9. PointersOpen' /\ PointersCleaned'
    BY <1>1, <1>3 DEF Good, Pointers, PointersOpen, PointersCleaned
  <2> QED
    BY <1>2, <2>4, <2>7, <2>8, <2>9 DEF Good, Pointers
<1>4. ASSUME Failed PROVE Good'
    BY <1>1, <1>4, FailedKeeps
<1>5. Sent \/ Failed
    BY SendExecuteEffect
<1> QED
    BY <1>2, <1>3, <1>4, <1>5

----------------------------------------------------------------------------
(* n is k and one for each request for an answer, or last answer, in q.    *)
Marks == Executing \union Simple \union Ending
Mark(m) == IF m.id \in Marks THEN 1 ELSE 0
Counting(r, q, n, k) ==
    /\ r \in [0 .. Len(q) -> Nat] /\ r[0] = n /\ r[Len(q)] = k
    /\ \A i \in 1 .. Len(q) : r[i - 1] = r[i] + Mark(q[i])
Counts(q, n, k) == \E r : Counting(r, q, n, k)

(* Counting: none, one, and one sequence after the other.                  *)
LEMMA CountsNone ==
    ASSUME NEW n \in Nat
    PROVE  Counts(<<>>, n, n)
<1> DEFINE r == [i \in 0 .. 0 |-> n]
<1>1. r \in [0 .. 0 -> Nat] /\ r[0] = n
    OBVIOUS
<1> HIDE DEF r
<1>2. Len(<<>>) = 0
    BY EmptySeq
<1>3. \A i \in 1 .. 0 : FALSE
    OBVIOUS
<1>4. Counting(r, <<>>, n, n)
    BY <1>1, <1>2, <1>3 DEF Counting
<1> QED
    BY <1>4 DEF Counts

LEMMA CountsUnmarked ==
    ASSUME NEW M, NEW q \in Seq(M), NEW n \in Nat, \A m \in M : m.id \notin Marks
    PROVE  Counts(q, n, n)
<1> DEFINE r == [i \in 0 .. Len(q) |-> n]
<1>1. Len(q) \in Nat /\ \A i \in 1 .. Len(q) : q[i] \in M
    BY LenProperties, ElementOfSeq
<1>2. r \in [0 .. Len(q) -> Nat] /\ \A i \in 0 .. Len(q) : r[i] = n
    OBVIOUS
<1> HIDE DEF r
<1>3. \A i \in 1 .. Len(q) : r[i - 1] = r[i] + Mark(q[i])
  <2> SUFFICES ASSUME NEW i \in 1 .. Len(q)
               PROVE  r[i - 1] = r[i] + Mark(q[i])
    OBVIOUS
  <2>1. r[i] = n /\ r[i - 1] = n /\ Mark(q[i]) = 0
    BY <1>1, <1>2 DEF Mark
  <2> QED
    BY <2>1
<1>4. Counting(r, q, n, n)
    BY <1>1, <1>2, <1>3 DEF Counting
<1> QED
    BY <1>4 DEF Counts

LEMMA CountsOne ==
    ASSUME NEW m, NEW n \in Nat, m.id \in Marks
    PROVE  Counts(<<m>>, n + 1, n)
<1> DEFINE r == [i \in 0 .. 1 |-> IF i = 0 THEN n + 1 ELSE n]
           q == <<m>>
<1>1. r \in [0 .. 1 -> Nat] /\ r[0] = n + 1 /\ r[1] = n
    OBVIOUS
<1>2. Len(q) = 1 /\ q[1] = m
    OBVIOUS
<1> HIDE DEF r, q
<1>3. Mark(m) = 1 /\ \A i \in 1 .. 1 : i = 1 /\ i - 1 = 0
    BY DEF Mark
<1>4. Counting(r, q, n + 1, n)
    BY <1>1, <1>2, <1>3 DEF Counting
<1> QED
    BY <1>4 DEF Counts, q

LEMMA CountsShift ==
    ASSUME NEW M, NEW q \in Seq(M), NEW n \in Nat, NEW k \in Nat, Counts(q, n, k)
    PROVE  Counts(q, n + 1, k + 1)
<1>1. PICK r : Counting(r, q, n, k)
    BY DEF Counts
<1> DEFINE s == [i \in 0 .. Len(q) |-> r[i] + 1]
<1>2. /\ Len(q) \in Nat /\ r \in [0 .. Len(q) -> Nat] /\ r[0] = n /\ r[Len(q)] = k
      /\ \A i \in 1 .. Len(q) : r[i - 1] = r[i] + Mark(q[i])
    BY <1>1, LenProperties DEF Counting
<1>3. s \in [0 .. Len(q) -> Nat] /\ \A i \in 0 .. Len(q) : s[i] = r[i] + 1
    BY <1>2
<1> HIDE DEF s
<1>4. s[0] = n + 1 /\ s[Len(q)] = k + 1
    BY <1>2, <1>3
<1>5. \A i \in 1 .. Len(q) : s[i - 1] = s[i] + Mark(q[i])
  <2> SUFFICES ASSUME NEW i \in 1 .. Len(q)
               PROVE  s[i - 1] = s[i] + Mark(q[i])
    OBVIOUS
  <2>1. i \in 0 .. Len(q) /\ i - 1 \in 0 .. Len(q)
    BY <1>2
  <2>2. /\ s[i] = r[i] + 1 /\ s[i - 1] = r[i - 1] + 1 /\ r[i - 1] = r[i] + Mark(q[i])
        /\ r[i] \in Nat /\ Mark(q[i]) \in Nat
    BY <1>2, <1>3, <2>1 DEF Mark
  <2> QED
    BY <2>2
<1>6. Counting(s, q, n + 1, k + 1)
    BY <1>3, <1>4, <1>5 DEF Counting
<1> QED
    BY <1>6 DEF Counts

LEMMA CountsConcat ==
    ASSUME NEW M, NEW q \in Seq(M), NEW p \in Seq(M), NEW n \in Nat, NEW k \in Nat,
           NEW l \in Nat, Counts(q, n, k), Counts(p, k, l)
    PROVE  Counts(q \o p, n, l)
<1> DEFINE a == Len(q)
           b == Len(p)
           s == q \o p
<1>1. PICK r : Counting(r, q, n, k)
    BY DEF Counts
<1>2. PICK z : Counting(z, p, k, l)
    BY DEF Counts
<1>3. /\ a \in Nat /\ r \in [0 .. a -> Nat] /\ r[0] = n /\ r[a] = k
      /\ \A i \in 1 .. a : r[i - 1] = r[i] + Mark(q[i])
    BY <1>1, LenProperties DEF Counting
<1>4. /\ b \in Nat /\ z \in [0 .. b -> Nat] /\ z[0] = k /\ z[b] = l
      /\ \A i \in 1 .. b : z[i - 1] = z[i] + Mark(p[i])
    BY <1>2, LenProperties DEF Counting
<1>5. /\ Len(s) = a + b
      /\ \A i \in 1 .. a + b : s[i] = IF i <= a THEN q[i] ELSE p[i - a]
    BY ConcatProperties
<1> HIDE DEF a, b, s
<1> DEFINE d == [i \in 0 .. a + b |-> IF i <= a THEN r[i] ELSE z[i - a]]
<1>6. /\ d \in [0 .. a + b -> Nat] /\ \A i \in 0 .. a : d[i] = r[i]
      /\ \A i \in 0 .. b : d[a + i] = z[i]
  <2>1. \A i \in 0 .. a + b : i <= a => i \in 0 .. a /\ r[i] \in Nat
    BY <1>3, <1>4
  <2>2. \A i \in 0 .. a + b : ~(i <= a) => i - a \in 0 .. b /\ z[i - a] \in Nat
    BY <1>3, <1>4
  <2>3. d \in [0 .. a + b -> Nat]
    BY <2>1, <2>2
  <2>4. \A i \in 0 .. a : i \in 0 .. a + b /\ i <= a
    BY <1>3, <1>4
  <2>5. \A i \in 0 .. a : d[i] = r[i]
    BY <2>4
  <2>6. ASSUME NEW i \in 0 .. b
        PROVE  d[a + i] = z[i]
    <3>1. CASE i = 0
        BY <1>3, <1>4, <3>1
    <3>2. CASE i # 0
      <4>1. a + i \in 0 .. a + b /\ ~(a + i <= a) /\ (a + i) - a = i
        BY <1>3, <1>4, <3>2
      <4> QED
        BY <4>1
    <3> QED
        BY <3>1, <3>2
  <2> QED
    BY <2>3, <2>5, <2>6
<1> HIDE DEF d
<1>7. d[0] = n /\ d[a + b] = l
    BY <1>3, <1>4, <1>6
<1>8. ASSUME NEW i \in 1 .. a + b
      PROVE  d[i - 1] = d[i] + Mark(s[i])
  <2>1. CASE i <= a
    <3>1. i \in 1 .. a /\ d[i] = r[i] /\ d[i - 1] = r[i - 1] /\ s[i] = q[i]
        BY <1>3, <1>4, <1>5, <1>6, <2>1
    <3> QED
        BY <1>3, <3>1
  <2>2. CASE i > a
    <3> DEFINE j == i - a
    <3>1. j \in 1 .. b /\ j - 1 \in 0 .. b /\ i = a + j /\ i - 1 = a + (j - 1)
        BY <1>3, <1>4, <2>2
    <3> HIDE DEF j
    <3>2. d[i] = z[j] /\ d[i - 1] = z[j - 1]
        BY <1>6, <3>1
    <3>3. s[i] = p[j]
        BY <1>3, <1>5, <2>2 DEF j
    <3> QED
        BY <1>4, <3>1, <3>2, <3>3
  <2> QED
    BY <1>3, <2>1, <2>2
<1>9. Counting(d, s, n, l)
    BY <1>5, <1>6, <1>7, <1>8 DEF Counting
<1> QED
    BY <1>9 DEF Counts, s

LEMMA CountsTail ==
    ASSUME NEW M, NEW q \in Seq(M), q # <<>>, NEW n \in Nat, NEW k \in Nat,
           Counts(q, n, k)
    PROVE  n - Mark(Head(q)) \in Nat /\ Counts(Tail(q), n - Mark(Head(q)), k)
<1>1. PICK r : Counting(r, q, n, k)
    BY DEF Counts
<1> DEFINE a == Len(q)
           t == Tail(q)
           s == [i \in 0 .. a - 1 |-> r[i + 1]]
           j == n - Mark(Head(q))
<1>2. /\ a \in Nat \ {0} /\ r \in [0 .. a -> Nat] /\ r[0] = n /\ r[a] = k
      /\ \A i \in 1 .. a : r[i - 1] = r[i] + Mark(q[i])
    BY <1>1, EmptySeq DEF Counting
<1>3. /\ Len(t) = a - 1 /\ Head(q) = q[1]
      /\ \A i \in 1 .. a - 1 : t[i] = q[i + 1]
    BY HeadTailProperties
<1> HIDE DEF a, t
<1>4. s \in [0 .. a - 1 -> Nat] /\ \A i \in 0 .. a - 1 : s[i] = r[i + 1]
    BY <1>2
<1> HIDE DEF s
<1>5. j \in Nat /\ s[0] = j /\ s[a - 1] = k
  <2>1. r[0] = r[1] + Mark(q[1]) /\ r[1] \in Nat /\ Mark(q[1]) \in Nat
    <3>1. 1 \in 1 .. a /\ 1 \in 0 .. a /\ 1 - 1 = 0
        BY <1>2
    <3> QED
        BY <1>2, <3>1 DEF Mark
  <2>2. s[0] = r[1] /\ s[a - 1] = r[a]
    BY <1>2, <1>4
  <2> QED
    BY <1>2, <1>3, <2>1, <2>2
<1>6. ASSUME NEW i \in 1 .. a - 1
      PROVE  s[i - 1] = s[i] + Mark(t[i])
  <2> DEFINE l == i + 1
  <2>1. l \in 1 .. a /\ l - 1 = i
    BY <1>2
  <2>2. s[i] = r[l] /\ s[i - 1] = r[i] /\ t[i] = q[l]
    BY <1>2, <1>3, <1>4, SMTT(40)
  <2> HIDE DEF l
  <2> QED
    BY <1>2, <2>1, <2>2
<1> HIDE DEF j
<1>7. Counting(s, t, j, k)
    BY <1>3, <1>4, <1>5, <1>6 DEF Counting
<1> QED
    BY <1>5, <1>7 DEF Counts, j, t

LEMMA CountsAppend ==
    ASSUME NEW M, NEW q \in Seq(M), NEW m \in M, NEW n \in Nat, NEW k \in Nat,
           Counts(q, n, k)
    PROVE  /\ m.id \in Marks => Counts(Append(q, m), n + 1, k)
           /\ m.id \notin Marks => Counts(Append(q, m), n, k)
<1> DEFINE one == <<m>>
<1>1. Append(q, m) = q \o one /\ one \in Seq(M)
    BY AppendIsConcat, OneIsSeq
<1>2. ASSUME m.id \in Marks
      PROVE  Counts(one, k + 1, k)
    BY <1>2, CountsOne
<1>3. ASSUME m.id \notin Marks
      PROVE  Counts(one, k, k)
  <2>1. one \in Seq({m})
    BY OneIsSeq
  <2> HIDE DEF one
  <2> QED
    BY <1>3, <2>1, CountsUnmarked
<1>4. Counts(q, n + 1, k + 1)
    BY CountsShift
<1> HIDE DEF one
<1>5. ASSUME m.id \in Marks
      PROVE  Counts(q \o one, n + 1, k)
  <2>1. Counts(one, k + 1, k) /\ n + 1 \in Nat /\ k + 1 \in Nat
    BY <1>2, <1>5
  <2> QED
    BY <1>1, <1>4, <2>1, CountsConcat
<1>6. ASSUME m.id \notin Marks
      PROVE  Counts(q \o one, n, k)
    BY <1>1, <1>3, <1>6, CountsConcat
<1> QED
    BY <1>1, <1>5, <1>6

(* While the session is open, a call waits for each request for an answer  *)
(* and each last answer that is under way.                                 *)
Emptied == /\ conn # "up" => up = <<>> /\ down = <<>> /\ bound = <<>>
           /\ conn = "down" => waiting = <<>>
Counted == conn = "up" =>
    \E k \in Nat : Counts(down, Len(waiting), k) /\ Counts(up, k, 0)

(* The last answer belongs to a call that waits.                           *)
LEMMA ResultAwaited ==
    ASSUME Good, Counted, OnResult
    PROVE  waiting # <<>> /\ Counted'
<1>1. /\ conn = "up" /\ down # <<>> /\ down' = Tail(down) /\ waiting' = Tail(waiting)
      /\ Head(down).id \in Ending /\ UNCHANGED <<conn, up>>
    BY OnResultEffect
<1>2. PICK k \in Nat : Counts(down, Len(waiting), k) /\ Counts(up, k, 0)
    BY <1>1 DEF Counted
<1>3. down \in Seq(AllReplies) /\ waiting \in Seq(Nat) /\ Len(waiting) \in Nat
    BY LenProperties DEF Good, Types
<1>4. Mark(Head(down)) = 1
    BY <1>1 DEF Mark, Marks
<1>5. Len(waiting) - 1 \in Nat /\ Counts(Tail(down), Len(waiting) - 1, k)
  <2>1. /\ Len(waiting) - Mark(Head(down)) \in Nat
        /\ Counts(Tail(down), Len(waiting) - Mark(Head(down)), k)
    BY <1>1, <1>2, <1>3, CountsTail
  <2> QED
    BY <1>4, <2>1
<1>6. waiting # <<>>
    BY <1>5, EmptySeq
<1>7. Len(Tail(waiting)) = Len(waiting) - 1
    BY <1>3, <1>6, HeadTailProperties
<1>8. Counts(down', Len(waiting'), k) /\ Counts(up', k, 0)
    BY <1>1, <1>2, <1>5, <1>7
<1> QED
    BY <1>6, <1>8 DEF Counted

(* Each action keeps Counted.                                              *)
LEMMA TakeCounted ==
    ASSUME Good, Counted, Take
    PROVE  Counted'
<1>1. /\ conn = "up" /\ down # <<>> /\ down' = Tail(down)
      /\ Head(down).id \notin Ending /\ UNCHANGED <<conn, up, waiting>>
    BY TakeEffect DEF core
<1>2. PICK k \in Nat : Counts(down, Len(waiting), k) /\ Counts(up, k, 0)
    BY <1>1 DEF Counted
<1>3. down \in Seq(AllReplies) /\ Len(waiting) \in Nat
    BY LenProperties DEF Good, Types
<1>4. Mark(Head(down)) = 0
  <2>1. Head(down) \in AllReplies
    BY <1>1, <1>3, RangeHeadTail
  <2>2. Head(down).id \in AnswerIds
    BY <1>1, <2>1 DEF AllReplies
  <2> QED
    BY <1>1, <2>2 DEF Mark, Marks, AnswerIds, Executing, Simple
<1>5. Counts(Tail(down), Len(waiting), k)
  <2>1. Counts(Tail(down), Len(waiting) - Mark(Head(down)), k)
    BY <1>1, <1>2, <1>3, CountsTail
  <2>2. Len(waiting) - Mark(Head(down)) = Len(waiting)
    BY <1>3, <1>4
  <2> QED
    BY <2>1, <2>2
<1>6. Counts(down', Len(waiting'), k) /\ Counts(up', k, 0)
    BY <1>1, <1>2, <1>5
<1> QED
    BY <1>6 DEF Counted

LEMMA ReceiveCounted ==
    ASSUME Good, Counted, Receive
    PROVE  Counted'
<1>1. /\ conn = "up" /\ up # <<>> /\ up' = Tail(up)
      /\ Head(up).id \notin Executing \union Simple /\ UNCHANGED <<conn, down, waiting>>
    BY ReceiveEffect DEF Good
<1>2. PICK k \in Nat : Counts(down, Len(waiting), k) /\ Counts(up, k, 0)
    BY <1>1 DEF Counted
<1>3. up \in Seq(Requests)
    BY DEF Good, Types
<1>4. Mark(Head(up)) = 0
  <2>1. Head(up) \in Requests
    BY <1>1, <1>3, RangeHeadTail
  <2>2. Head(up).id \in DataIds
    BY <1>1, <2>1 DEF Requests
  <2> QED
    BY <1>1, <2>2 DEF Mark, Marks, DataIds, Ending
<1>5. Counts(Tail(up), k, 0)
  <2>1. Counts(Tail(up), k - Mark(Head(up)), 0)
    BY <1>1, <1>2, <1>3, CountsTail
  <2>2. k - Mark(Head(up)) = k
    BY <1>4
  <2> QED
    BY <2>1, <2>2
<1>6. Counts(down', Len(waiting'), k) /\ Counts(up', k, 0)
    BY <1>1, <1>2, <1>5
<1> QED
    BY <1>6 DEF Counted

LEMMA ServeCounted ==
    ASSUME Good, Counted, Serve
    PROVE  Counted'
<1> DEFINE c == Head(up).c
<1>1. /\ conn = "up" /\ up # <<>> /\ up' = Tail(up)
      /\ Head(up).id \in Executing \union Simple /\ UNCHANGED <<conn, waiting>>
    BY ServeEffect
<1>2. PICK a \in Seq(Replies(c)), m \in Lasts(c) : down' = down \o Append(a, m)
    BY ServeEffect
<1>3. PICK k \in Nat : Counts(down, Len(waiting), k) /\ Counts(up, k, 0)
    BY <1>1 DEF Counted
<1>4. /\ up \in Seq(Requests) /\ down \in Seq(AllReplies) /\ Len(waiting) \in Nat
    BY LenProperties DEF Good, Types
<1>5. k - 1 \in Nat /\ Counts(Tail(up), k - 1, 0)
  <2>1. Mark(Head(up)) = 1
    BY <1>1 DEF Mark, Marks
  <2>2. k - Mark(Head(up)) \in Nat /\ Counts(Tail(up), k - Mark(Head(up)), 0)
    BY <1>1, <1>3, <1>4, CountsTail
  <2> QED
    BY <2>1, <2>2
<1>6. c \in Nat
  <2>1. Head(up) \in Requests
    BY <1>1, <1>4, RangeHeadTail
  <2> QED
    BY <2>1 DEF Requests
<1> DEFINE A == AllReplies
           R == Replies(c)
<1>7. R \subseteq A /\ m \in A /\ m.id \in Marks /\ \A x \in R : x.id \notin Marks
    BY <1>6 DEF Replies, Lasts, AllReplies, Marks, Ending, AnswerIds, Executing, Simple
<1>8. a \in Seq(R) /\ down \in Seq(A)
    BY <1>4
<1> HIDE DEF A, R
<1> DEFINE l == k - 1
<1>9. l \in Nat /\ l + 1 = k
    BY <1>5
<1> HIDE DEF l
<1>10. Counts(a, l, l) /\ a \in Seq(A)
    BY <1>7, <1>8, <1>9, CountsUnmarked, SeqSubset
<1>11. Counts(Append(a, m), l + 1, l)
    BY <1>7, <1>9, <1>10, CountsAppend
<1>12. Append(a, m) \in Seq(A)
    BY <1>7, <1>10, AppendProperties
<1> DEFINE e == Append(a, m)
<1>13. e \in Seq(A) /\ Counts(e, k, l) /\ down' = down \o e
    BY <1>2, <1>9, <1>11, <1>12
<1> HIDE DEF e
<1>14. Counts(down \o e, Len(waiting), l)
    BY <1>3, <1>4, <1>8, <1>9, <1>13, CountsConcat
<1>15. Counts(down', Len(waiting'), l) /\ Counts(up', l, 0)
    BY <1>1, <1>5, <1>13, <1>14 DEF l
<1> QED
    BY <1>9, <1>15 DEF Counted

LEMMA AskCounted ==
    ASSUME Good, Counted, conn = "up", NEW m \in Requests, NEW c \in Nat,
           m.id \in Executing \union Simple,
           up' = Append(up, m), waiting' = Append(waiting, c), UNCHANGED <<conn, down>>
    PROVE  Counted'
<1>1. PICK k \in Nat : Counts(down, Len(waiting), k) /\ Counts(up, k, 0)
    BY DEF Counted
<1>2. /\ up \in Seq(Requests) /\ down \in Seq(AllReplies) /\ waiting \in Seq(Nat)
      /\ Len(waiting) \in Nat /\ m.id \in Marks
    BY LenProperties DEF Good, Types, Marks
<1>3. Counts(down, Len(waiting) + 1, k + 1)
    BY <1>1, <1>2, CountsShift
<1>4. Counts(Append(up, m), k + 1, 0)
    BY <1>1, <1>2, CountsAppend
<1>5. Len(waiting') = Len(waiting) + 1 /\ k + 1 \in Nat
    BY <1>2, AppendProperties
<1>6. Counts(down', Len(waiting'), k + 1) /\ Counts(up', k + 1, 0)
    BY <1>3, <1>4, <1>5
<1> QED
    BY <1>5, <1>6 DEF Counted

LEMMA SendDataCounted ==
    ASSUME Good, Counted, NEW t \in Thread, SendData(t)
    PROVE  Counted'
<1>1. CASE conn = "up"
  <2> DEFINE m == Head(todo[t])
  <2>1. /\ todo[t] # <<>> /\ up' = Append(up, m) /\ UNCHANGED <<conn, waiting, down>>
    BY <1>1, SendDataEffect
  <2>2. up \in Seq(Requests) /\ todo[t] \in Seq(DataMsgs)
    BY DEF Good, Types
  <2>3. m \in DataMsgs
    BY <2>1, <2>2, RangeHeadTail
  <2>4. m \in Requests /\ m.id \notin Marks
    BY <2>3 DEF DataMsgs, Requests, DataIds, Marks, Ending, Executing, Simple
  <2> HIDE DEF m
  <2>5. PICK k \in Nat : Counts(down, Len(waiting), k) /\ Counts(up, k, 0)
    BY <1>1 DEF Counted
  <2>6. Counts(Append(up, m), k, 0)
    BY <2>2, <2>4, <2>5, CountsAppend
  <2>7. Counts(down', Len(waiting'), k) /\ Counts(up', k, 0)
    BY <2>1, <2>5, <2>6
  <2> QED
    BY <2>7 DEF Counted
<1>2. CASE conn # "up"
    BY <1>2, SendDataEffect DEF Counted
<1> QED
    BY <1>1, <1>2

LEMMA ReconnectCounted ==
    ASSUME Good, Emptied, Reconnect
    PROVE  Counted'
<1>1. /\ conn = "down" /\ UNCHANGED <<waiting, up, down>>
    BY DEF Reconnect
<1>2. up' = <<>> /\ down' = <<>> /\ waiting' = <<>>
    BY <1>1 DEF Emptied
<1>3. Len(<<>>) = 0 /\ Counts(<<>>, 0, 0)
    BY EmptySeq, CountsNone
<1>4. Counts(down', Len(waiting'), 0) /\ Counts(up', 0, 0)
    BY <1>2, <1>3
<1> QED
    BY <1>4 DEF Counted

----------------------------------------------------------------------------
Known == Good /\ Emptied /\ Counted

(* Known holds at first, and each step keeps it.                           *)
LEMMA InitKnown == Init => Known
<1> SUFFICES ASSUME Init
             PROVE  Known
    OBVIOUS
<1>1. Good
    BY InitGood
<1>2. up = <<>> /\ down = <<>> /\ waiting = <<>> /\ conn = "up"
    BY DEF Init
<1>3. Len(<<>>) = 0 /\ Counts(<<>>, 0, 0)
    BY EmptySeq, CountsNone
<1> QED
    BY <1>1, <1>2, <1>3 DEF Known, Emptied, Counted

LEMMA SimpleStep ==
    ASSUME Known, NEW k \in Simple, NEW stmts \in Seq(Statement), SendSimple(k, stmts),
           k = "idPrepare" => stmts[1] \in Statement
    PROVE  Known'
<1>1. Good'
    BY SendSimpleKeeps DEF Known
<1> DEFINE m == Msg(k, Len(call'), 0, 0, <<>>)
<1>2. /\ \/ conn = "up" /\ up' = Append(up, m) /\ waiting' = Append(waiting, Len(call'))
         \/ conn # "up" /\ UNCHANGED <<up, waiting>>
      /\ UNCHANGED <<conn, down, bound>>
    BY DEF SendSimple
<1>3. Len(call') \in Nat
    BY <1>1, LenProperties DEF Good, Types
<1>4. m \in Requests /\ m.id \in Executing \union Simple
    BY <1>3, SimpleMsg
<1> HIDE DEF m
<1>5. CASE conn = "up" /\ up' = Append(up, m) /\ waiting' = Append(waiting, Len(call'))
  <2>1. Counted'
    BY <1>2, <1>3, <1>4, <1>5, AskCounted DEF Known
  <2>2. Emptied'
    BY <1>2, <1>5 DEF Emptied
  <2> QED
    BY <1>1, <2>1, <2>2 DEF Known
<1>6. CASE conn # "up" /\ UNCHANGED <<up, waiting>>
    BY <1>1, <1>2, <1>6 DEF Known, Emptied, Counted
<1> QED
    BY <1>2, <1>5, <1>6

LEMMA ExecuteStep ==
    ASSUME Known, NEW t \in Thread, Execute(t)
    PROVE  Known'
<1>1. Good /\ Sending = {}
    BY ExecuteStarts DEF Known
<1>2. PICK k, stmts, v : Starts(t, k, stmts, v)
    BY <1>1, ExecuteStarts
<1>3. Good'
    BY <1>1, <1>2, StartKeeps
<1>4. UNCHANGED <<conn, waiting, up, down, bound>>
    BY <1>1, <1>2, StartEffect
<1> QED
    BY <1>3, <1>4 DEF Known, Emptied, Counted

LEMMA SendExecuteStep ==
    ASSUME Known, NEW t \in Thread, SendExecute(t)
    PROVE  Known'
<1> DEFINE c == cur[t]
           m == Msg(call[c].kind, c, 0, 0, <<>>)
<1>1. Good /\ Good'
    BY SendExecuteStepKeeps DEF Known
<1>2. /\ \/ conn = "up" /\ up' = Append(up, m) /\ waiting' = Append(waiting, c)
         \/ conn # "up" /\ UNCHANGED <<up, waiting>>
      /\ t \in Sending /\ UNCHANGED <<conn, down, bound>>
    BY <1>1, SendExecuteEffect
<1>3. c \in Nat /\ call[c].kind \in Executing \union Simple
    BY <1>2 DEF Known, Good, Types, Pointers, SenderOpen
<1>4. m \in Requests /\ m.id \in Executing \union Simple
    BY <1>3, SimpleMsg
<1> HIDE DEF m, c
<1>5. CASE conn = "up" /\ up' = Append(up, m) /\ waiting' = Append(waiting, c)
  <2>1. Counted'
    BY <1>2, <1>3, <1>4, <1>5, AskCounted DEF Known
  <2>2. Emptied'
    BY <1>2, <1>5 DEF Emptied
  <2> QED
    BY <1>1, <2>1, <2>2 DEF Known
<1>6. CASE conn # "up" /\ UNCHANGED <<up, waiting>>
    BY <1>1, <1>2, <1>6 DEF Known, Emptied, Counted
<1> QED
    BY <1>2, <1>5, <1>6

LEMMA KnownStep ==
    ASSUME Known, [Next]_vars
    PROVE  Known'
<1>1. Good /\ Emptied /\ Counted
    BY DEF Known
<1>2. ASSUME NEW s \in Prepared, SendSimple("idPrepare", <<s>>)
      PROVE  Known'
  <2> DEFINE p == <<s>>
  <2>1. s \in Statement /\ p[1] = s
    BY ConstantsAssumption
  <2>2. p \in Seq(Statement) /\ "idPrepare" \in Simple
    BY <2>1, OneIsSeq DEF Simple
  <2>3. SendSimple("idPrepare", p)
    BY <1>2
  <2> HIDE DEF p
  <2> QED
    BY <2>1, <2>2, <2>3, SimpleStep
<1>3. ASSUME NEW k \in {"idOpen", "idBeginTrans"}, SendSimple(k, <<>>)
      PROVE  Known'
  <2>1. <<>> \in Seq(Statement) /\ k \in Simple /\ k # "idPrepare"
    BY EmptySeq DEF Simple
  <2> QED
    BY <1>3, <2>1, SimpleStep
<1>4. ASSUME NEW t \in Thread, Execute(t)
      PROVE  Known'
    BY <1>4, ExecuteStep
<1>5. ASSUME NEW t \in Thread, SendData(t)
      PROVE  Known'
  <2>1. Good' /\ Counted'
    BY <1>1, <1>5, SendDataKeeps, SendDataCounted
  <2>2. Emptied'
    BY <1>1, <1>5, SendDataEffect DEF Emptied
  <2> QED
    BY <2>1, <2>2 DEF Known
<1>6. ASSUME NEW t \in Thread, Register(t)
      PROVE  Known'
  <2>1. Good' /\ UNCHANGED <<conn, waiting, up, down, bound>>
    BY <1>1, <1>6, RegisterKeeps, RegisterEffect
  <2> QED
    BY <1>1, <2>1 DEF Known, Emptied, Counted
<1>7. ASSUME NEW t \in Thread, SendExecute(t)
      PROVE  Known'
    BY <1>7, SendExecuteStep
<1>8. CASE Receive
  <2>1. Good' /\ Counted' /\ conn = "up" /\ conn' = "up"
    BY <1>1, <1>8, ReceiveKeeps, ReceiveCounted, ReceiveEffect DEF Good
  <2> QED
    BY <2>1 DEF Known, Emptied
<1>9. CASE Serve
  <2>1. Good' /\ Counted' /\ conn = "up" /\ conn' = "up"
    BY <1>1, <1>9, ServeKeeps, ServeCounted, ServeEffect
  <2> QED
    BY <2>1 DEF Known, Emptied
<1>10. CASE Take
  <2>1. Good' /\ Counted' /\ conn = "up" /\ conn' = "up"
    BY <1>1, <1>10, TakeKeeps, TakeCounted, TakeEffect DEF core
  <2> QED
    BY <2>1 DEF Known, Emptied
<1>11. CASE OnResult
  <2>1. waiting # <<>> /\ Counted'
    BY <1>1, <1>11, ResultAwaited
  <2>2. Good' /\ conn = "up" /\ conn' = "up"
    BY <1>1, <1>11, <2>1, OnResultKeeps, OnResultEffect
  <2> QED
    BY <2>1, <2>2 DEF Known, Emptied
<1>12. CASE OnAllProcessed
  <2>1. Good' /\ UNCHANGED <<conn, waiting, up, down, bound>>
    BY <1>1, <1>12, AllProcessedKeeps DEF OnAllProcessed, sessionVars
  <2> QED
    BY <1>1, <2>1 DEF Known, Emptied, Counted
<1>13. CASE Break
  <2>1. Good'
    BY <1>1, <1>13, BreakKeeps
  <2> QED
    BY <1>13, <2>1 DEF Known, Emptied, Counted, Break
<1>14. CASE CleanMaps
  <2>1. Good'
    BY <1>1, <1>14, CleanMapsKeeps
  <2> QED
    BY <1>1, <1>14, <2>1 DEF Known, Emptied, Counted, CleanMaps
<1>15. CASE CleanCallbacks
  <2>1. Good'
    BY <1>1, <1>15, CleanCallbacksKeeps
  <2> QED
    BY <1>1, <1>15, <2>1 DEF Known, Emptied, Counted, CleanCallbacks
<1>16. CASE Reconnect
  <2>1. Good' /\ Counted'
    BY <1>1, <1>16, ReconnectKeeps, ReconnectCounted
  <2> QED
    BY <1>16, <2>1 DEF Known, Emptied, Reconnect
<1>17. CASE UNCHANGED vars
  <2>1. UNCHANGED <<core, down>>
    BY <1>17 DEF vars, core, handlerVars, threadVars, sessionVars, historyVars
  <2>2. Good'
    BY <1>1, <2>1, UnchangedKeeps
  <2> QED
    BY <1>1, <2>1, <2>2 DEF Known, Emptied, Counted, core
<1> QED
    BY <1>2, <1>3, <1>4, <1>5, <1>6, <1>7, <1>8, <1>9, <1>10, <1>11, <1>12, <1>13,
       <1>14, <1>15, <1>16, <1>17 DEF Next, Take

(* For any statements, arrays and threads, the handler keeps a pointer to  *)
(* a parameter array only of a call that has not ended (or that ended with *)
(* a server exception): not while another thread registers its call and    *)
(* the session is closed, cleaned and opened again.                        *)
THEOREM NoStalePointerHolds == Spec => []NoStalePointer
<1>1. Init => Known
    BY InitKnown
<1>2. Known /\ [Next]_vars => Known'
    BY KnownStep
<1>3. Known => NoStalePointer
    BY DEF Known, Good, Pointers, PointersOpen, NoStalePointer
<1> QED
    BY <1>1, <1>2, <1>3, PTL DEF Spec

----------------------------------------------------------------------------
(* The requests of q lead from b to e, and where q asks for a statement,   *)
(* what is bound are the parameters P of its call.                         *)
Fitting(a, q, P) ==
    \A i \in 1 .. Len(q) : q[i].id \in Executing => a[i - 1] = P[q[i].c]
Fits(q, b, e, P) ==
    \E a : Feeds(a, q) /\ a[0] = b /\ a[Len(q)] = e /\ Fitting(a, q, P)

LEMMA LeadsEmpty ==
    ASSUME NEW b, NEW e, Leads(b, <<>>, e)
    PROVE  b = e
<1>1. Len(<<>>) = 0
    BY EmptySeq
<1> QED
    BY <1>1 DEF Leads

(* Fitting: none, one more at the end, one less at the front.              *)
LEMMA FitsNone ==
    ASSUME NEW b \in Pairs, NEW P
    PROVE  Fits(<<>>, b, b, P)
<1>1. PICK a : Feeds(a, <<>>) /\ a[0] = b
    BY FeedsNone
<1>2. Len(<<>>) = 0 /\ \A i \in 1 .. 0 : FALSE
    BY EmptySeq
<1>3. Fitting(a, <<>>, P)
    BY <1>2 DEF Fitting
<1> QED
    BY <1>1, <1>2, <1>3 DEF Fits

LEMMA FitsOther ==
    ASSUME NEW M, NEW q \in Seq(M), NEW b, NEW e, NEW P, NEW Q, Fits(q, b, e, P),
           \A m \in Range(q) : m.id \in Executing => P[m.c] = Q[m.c]
    PROVE  Fits(q, b, e, Q)
<1>1. PICK a : Feeds(a, q) /\ a[0] = b /\ a[Len(q)] = e /\ Fitting(a, q, P)
    BY DEF Fits
<1>2. Range(q) = {q[i] : i \in 1 .. Len(q)}
    BY RangeEquality
<1>3. Fitting(a, q, Q)
    BY <1>1, <1>2 DEF Fitting
<1> QED
    BY <1>1, <1>3 DEF Fits

LEMMA FitsAppend ==
    ASSUME NEW q \in Seq(Requests), NEW m \in Requests, NEW b, NEW e \in Pairs, NEW P,
           Fits(q, b, e, P), m.id \in Executing => e = P[m.c]
    PROVE  Fits(Append(q, m), b, Fed(e, m), P) /\ Fed(e, m) \in Pairs
<1> DEFINE n == Len(q)
           s == Append(q, m)
           z == Fed(e, m)
<1>1. PICK a : Feeds(a, q) /\ a[0] = b /\ a[Len(q)] = e /\ Fitting(a, q, P)
    BY DEF Fits
<1>2. /\ n \in Nat /\ a \in [0 .. n -> Pairs] /\ a[0] = b /\ a[n] = e
      /\ \A i \in 1 .. n : a[i] = Fed(a[i - 1], q[i])
      /\ \A i \in 1 .. n : q[i].id \in Executing => a[i - 1] = P[q[i].c]
    BY <1>1, LenProperties DEF Feeds, Fitting
<1>3. /\ Len(s) = n + 1 /\ s[n + 1] = m
      /\ \A i \in 1 .. n : s[i] = q[i]
    BY Appended
<1>4. z \in Pairs
    BY FedType
<1> HIDE DEF n, s, z
<1> DEFINE d == [i \in 0 .. n + 1 |-> IF i = n + 1 THEN z ELSE a[i]]
<1>5. /\ d \in [0 .. n + 1 -> Pairs] /\ d[n + 1] = z
      /\ \A i \in 0 .. n : d[i] = a[i]
  <2>1. \A i \in 0 .. n + 1 : i # n + 1 => i \in 0 .. n /\ a[i] \in Pairs
    BY <1>2
  <2>2. \A i \in 0 .. n : i \in 0 .. n + 1 /\ i # n + 1
    BY <1>2
  <2>3. n + 1 \in 0 .. n + 1
    BY <1>2
  <2> QED
    BY <1>4, <2>1, <2>2, <2>3
<1> HIDE DEF d
<1>6. ASSUME NEW i \in 1 .. n + 1
      PROVE  /\ d[i] = Fed(d[i - 1], s[i])
             /\ s[i].id \in Executing => d[i - 1] = P[s[i].c]
  <2>1. CASE i \in 1 .. n
    <3>1. d[i] = a[i] /\ d[i - 1] = a[i - 1] /\ s[i] = q[i]
        BY <1>2, <1>3, <1>5, <2>1
    <3> QED
        BY <1>2, <2>1, <3>1
  <2>2. CASE i = n + 1
    <3>1. d[i] = z /\ d[i - 1] = e /\ s[i] = m
        BY <1>2, <1>3, <1>5, <2>2
    <3> QED
        BY <3>1 DEF z
  <2> QED
    BY <1>2, <2>1, <2>2
<1>7. Feeds(d, s) /\ Fitting(d, s, P) /\ d[0] = b /\ d[Len(s)] = z
    BY <1>2, <1>3, <1>5, <1>6 DEF Feeds, Fitting
<1>8. Fits(s, b, z, P)
    BY <1>7 DEF Fits
<1> QED
    BY <1>4, <1>8 DEF s, z

LEMMA FeedsTail ==
    ASSUME NEW M, NEW q \in Seq(M), q # <<>>, NEW a, Feeds(a, q)
    PROVE  \E d : /\ Feeds(d, Tail(q)) /\ d[0] = Fed(a[0], Head(q))
                  /\ d[Len(Tail(q))] = a[Len(q)]
                  /\ \A i \in 0 .. Len(Tail(q)) : d[i] = a[i + 1]
<1> DEFINE n == Len(q)
           t == Tail(q)
           d == [i \in 0 .. n - 1 |-> a[i + 1]]
<1>1. /\ n \in Nat \ {0} /\ a \in [0 .. n -> Pairs]
      /\ \A i \in 1 .. n : a[i] = Fed(a[i - 1], q[i])
    BY EmptySeq DEF Feeds
<1>2. /\ Len(t) = n - 1 /\ Head(q) = q[1] /\ \A i \in 1 .. n - 1 : t[i] = q[i + 1]
    BY HeadTailProperties
<1> HIDE DEF n, t
<1>3. d \in [0 .. n - 1 -> Pairs] /\ \A i \in 0 .. n - 1 : d[i] = a[i + 1]
    BY <1>1
<1> HIDE DEF d
<1>4. ASSUME NEW i \in 1 .. n - 1
      PROVE  d[i] = Fed(d[i - 1], t[i])
  <2> DEFINE l == i + 1
  <2>1. l \in 1 .. n /\ l - 1 = i
    BY <1>1
  <2>2. d[i] = a[l] /\ d[i - 1] = a[i] /\ t[i] = q[l]
    BY <1>1, <1>2, <1>3
  <2> HIDE DEF l
  <2> QED
    BY <1>1, <2>1, <2>2
<1>5. d[0] = Fed(a[0], q[1]) /\ d[n - 1] = a[n]
  <2>1. 1 \in 1 .. n /\ 1 - 1 = 0 /\ 0 \in 0 .. n - 1 /\ n - 1 \in 0 .. n - 1
    BY <1>1
  <2>2. a[1] = Fed(a[0], q[1])
    BY <1>1, <2>1
  <2> QED
    BY <1>1, <1>3, <2>1, <2>2
<1>6. Feeds(d, t)
    BY <1>2, <1>3, <1>4 DEF Feeds
<1> QED
    BY <1>2, <1>3, <1>5, <1>6 DEF n, t

LEMMA LeadsTail ==
    ASSUME NEW M, NEW q \in Seq(M), q # <<>>, NEW b, NEW e, Leads(b, q, e)
    PROVE  Leads(Fed(b, Head(q)), Tail(q), e)
<1>1. PICK a : Feeds(a, q) /\ a[0] = b /\ a[Len(q)] = e
    BY DEF Leads
<1>2. PICK d : /\ Feeds(d, Tail(q)) /\ d[0] = Fed(a[0], Head(q))
               /\ d[Len(Tail(q))] = a[Len(q)]
    BY <1>1, FeedsTail
<1> QED
    BY <1>1, <1>2 DEF Leads

LEMMA FitsTail ==
    ASSUME NEW M, NEW q \in Seq(M), q # <<>>, NEW b, NEW e, NEW P, Fits(q, b, e, P)
    PROVE  /\ Fits(Tail(q), Fed(b, Head(q)), e, P)
           /\ Head(q).id \in Executing => b = P[Head(q).c]
<1>1. PICK a : Feeds(a, q) /\ a[0] = b /\ a[Len(q)] = e /\ Fitting(a, q, P)
    BY DEF Fits
<1>2. PICK d : /\ Feeds(d, Tail(q)) /\ d[0] = Fed(a[0], Head(q))
               /\ d[Len(Tail(q))] = a[Len(q)]
               /\ \A i \in 0 .. Len(Tail(q)) : d[i] = a[i + 1]
    BY <1>1, FeedsTail
<1>3. /\ Len(Tail(q)) = Len(q) - 1 /\ Len(q) \in Nat \ {0} /\ Head(q) = q[1]
      /\ \A i \in 1 .. Len(q) - 1 : Tail(q)[i] = q[i + 1]
    BY HeadTailProperties, EmptySeq
<1>4. Fitting(d, Tail(q), P)
  <2> SUFFICES ASSUME NEW i \in 1 .. Len(Tail(q)), Tail(q)[i].id \in Executing
               PROVE  d[i - 1] = P[Tail(q)[i].c]
    BY DEF Fitting
  <2>1. i + 1 \in 1 .. Len(q) /\ i - 1 \in 0 .. Len(Tail(q)) /\ Tail(q)[i] = q[i + 1]
    BY <1>3
  <2>2. d[i - 1] = a[(i - 1) + 1] /\ (i - 1) + 1 = (i + 1) - 1
    BY <1>2, <2>1
  <2>3. a[(i + 1) - 1] = P[q[i + 1].c]
    BY <1>1, <2>1 DEF Fitting
  <2> QED
    BY <2>1, <2>2, <2>3
<1>5. Head(q).id \in Executing => b = P[Head(q).c]
  <2>1. 1 \in 1 .. Len(q) /\ 1 - 1 = 0
    BY <1>3
  <2> QED
    BY <1>1, <1>3, <2>1 DEF Fitting
<1> QED
    BY <1>1, <1>2, <1>4, <1>5 DEF Fits

(* The parameter array of each call.                                       *)
Params == [c \in 1 .. Len(call) |-> Own(c, Len(call[c].vParam))]

(* What is bound, after the requests that are under way and those that a   *)
(* thread has still to send, are the parameters of the call it sends; and  *)
(* nothing is bound when nobody sends.                                     *)
Bound == conn = "up" =>
    \E e \in Pairs :
        /\ Fits(up, bound, e, Params)
        /\ Sending = {} => e = <<>>
        /\ \A t \in Sending : Leads(e, todo[t], Params[cur[t]])

(* A statement that was executed had its own parameters.                   *)
Done   == Finished \union Ids(down)
Served == \A c \in Done : call[c].kind \in Executing => executed[c] = Params[c]
Ready  == \A t \in Sending : pc[t] = "request" => todo[t] = <<>>

(* The parameter arrays of the calls do not change.                        *)
LEMMA ParamsType ==
    ASSUME Good, NEW c \in 1 .. Len(call)
    PROVE  /\ Params[c] = Own(c, Len(call[c].vParam)) /\ Params[c] \in Pairs
           /\ call[c].vParam \in Seq(Nat) /\ c \in Nat
<1>1. call \in Seq(Calls) /\ Len(call) \in Nat
    BY LenProperties DEF Good, Types
<1>2. call[c] \in Calls /\ c \in Nat
    BY <1>1, ElementOfSeq
<1>3. call[c].vParam \in Seq(Nat)
    BY <1>2 DEF Calls
<1>4. Len(call[c].vParam) \in Nat
    BY <1>3, LenProperties
<1> QED
    BY <1>2, <1>3, <1>4, OwnType DEF Params

LEMMA DoneKnown ==
    ASSUME Good
    PROVE  Done \subseteq 1 .. Len(call)
<1>1. DOMAIN call = 1 .. Len(call)
    BY LenProperties DEF Good, Types
<1> QED
    BY <1>1 DEF Done, Finished, Good, Pointers, CalledKnown, Called

LEMMA ParamsGrow ==
    ASSUME Good, NEW x, NEW o, Grown(x, o)
    PROVE  /\ \A c \in 1 .. Len(call) : Params'[c] = Params[c]
           /\ Params'[Len(call')] = Own(Len(call'), Len(x.vParam))
BY DEF Params, Grown

(* A new call has not been served.                                         *)
LEMMA ServedGrows ==
    ASSUME Good, Served, NEW x, NEW o, Grown(x, o), o # "result", UNCHANGED down
    PROVE  Served'
<1>1. DOMAIN call = 1 .. Len(call) /\ DOMAIN call' = 1 .. Len(call')
    BY LenProperties DEF Good, Types, Grown
<1>2. \A c \in 1 .. Len(call') : c \in 1 .. Len(call) \/ c = Len(call')
    BY DEF Grown
<1>3. Finished' \subseteq Finished
    BY <1>1, <1>2 DEF Finished, Grown
<1>4. Done' \subseteq Done
    BY <1>3 DEF Done, Ids
<1>5. ASSUME NEW c \in Done', call'[c].kind \in Executing
      PROVE  executed'[c] = Params'[c]
  <2>1. c \in Done /\ c \in 1 .. Len(call)
    BY <1>4, DoneKnown
  <2>2. call'[c] = call[c] /\ executed'[c] = executed[c] /\ Params'[c] = Params[c]
    BY <2>1, ParamsGrow DEF Grown
  <2> QED
    BY <1>5, <2>1, <2>2 DEF Served
<1> QED
    BY <1>5 DEF Served

(* The requests under way keep their parameters when there is a new call.  *)
LEMMA FitsGrown ==
    ASSUME Good, NEW x, NEW o, Grown(x, o), NEW e, Fits(up, bound, e, Params)
    PROVE  Fits(up, bound, e, Params')
<1>1. up \in Seq(Requests)
    BY DEF Good, Types
<1>2. ASSUME NEW m \in Range(up), m.id \in Executing
      PROVE  Params[m.c] = Params'[m.c]
  <2>1. m \in Asked(up)
    BY <1>2 DEF Asked
  <2>2. m.c \in 1 .. Len(call)
    BY <2>1 DEF Good, Pointers, CalledKnown, Called
  <2> QED
    BY <2>2, ParamsGrow
<1> DEFINE P == Params
           Q == Params'
<1>3. Fits(up, bound, e, P) /\ \A m \in Range(up) : m.id \in Executing => P[m.c] = Q[m.c]
    BY <1>2
<1> HIDE DEF P, Q
<1>4. Fits(up, bound, e, Q)
    BY <1>1, <1>3, FitsOther
<1> QED
    BY <1>4 DEF Q

(* Each action keeps what Binding adds to Known.                           *)
LEMMA SimpleBinds ==
    ASSUME Known, Bound, Served, NEW k \in Simple, NEW stmts \in Seq(Statement),
           SendSimple(k, stmts)
    PROVE  Bound' /\ Served' /\ Ready'
<1> DEFINE x == [kind |-> k, stmts |-> stmts, vParam |-> <<>>]
           c == Len(call')
           m == Msg(k, c, 0, 0, <<>>)
<1>1. /\ call' = Append(call, x) /\ executed' = Append(executed, <<>>)
      /\ \/ /\ conn = "up" /\ up' = Append(up, m) /\ outcome' = Append(outcome, "none")
         \/ conn # "up" /\ outcome' = Append(outcome, "failed")
      /\ Sending = {}
      /\ UNCHANGED <<pc, conn, down, bound>>
    BY DEF SendSimple, NewCall, NoneSending, Sending, threadVars
<1>2. x \in Calls
    BY EmptySeq DEF Calls
<1> HIDE DEF x
<1>3. PICK o \in {"none", "failed"} : Grown(x, o)
    BY <1>1, <1>2, CallGrows DEF Known, Good, Outcomes
<1>4. Served'
    BY <1>1, <1>3, ServedGrows DEF Known
<1>5. Sending' = {}
    BY <1>1 DEF Sending
<1>6. Bound'
  <2> SUFFICES ASSUME conn' = "up"
               PROVE  \E e \in Pairs : /\ Fits(up', bound', e, Params')
                                       /\ Sending' = {} => e = <<>>
                                       /\ \A t \in Sending' :
                                             Leads(e, todo'[t], Params'[cur'[t]])
    BY DEF Bound
  <2>1. conn = "up" /\ up' = Append(up, m)
    BY <1>1
  <2>2. <<>> \in Pairs /\ Fits(up, bound, <<>>, Params)
    BY <1>1, <2>1 DEF Bound
  <2>3. Fits(up, bound, <<>>, Params')
    BY <1>3, <2>2, FitsGrown DEF Known
  <2>4. c \in Nat /\ m \in Requests /\ m.id = k /\ up \in Seq(Requests)
    BY <1>3, SimpleMsg DEF Grown, Known, Good, Types
  <2>5. Fed(<<>>, m) = <<>> /\ m.id \notin Executing
    BY <2>4 DEF Fed, Executing, Simple
  <2> DEFINE Q == Params'
  <2>6. Fits(up, bound, <<>>, Q)
    BY <2>3
  <2> HIDE DEF m, Q
  <2>7. Fits(Append(up, m), bound, Fed(<<>>, m), Q)
    BY <2>2, <2>4, <2>5, <2>6, FitsAppend
  <2> QED
    BY <1>1, <1>5, <2>1, <2>2, <2>5, <2>7 DEF Q
<1> QED
    BY <1>4, <1>5, <1>6 DEF Ready

LEMMA StartBinds ==
    ASSUME Known, Bound, Served, NEW t \in Thread, Sending = {}, NEW k, NEW stmts, NEW v,
           Starts(t, k, stmts, v)
    PROVE  Bound' /\ Served' /\ Ready'
<1> DEFINE x == [kind |-> k, stmts |-> stmts, vParam |-> v]
           c == Len(call')
<1>1. /\ Grown(x, "none") /\ pc' = [pc EXCEPT ![t] = "data"]
      /\ todo' = [todo EXCEPT ![t] = SendParametersData(c, v)]
      /\ UNCHANGED <<conn, up, down, bound>>
    BY StartEffect DEF Known
<1>2. Sending' = {t} /\ cur'[t] = c
    BY StartKeeps DEF Known
<1>3. x.vParam = v /\ v \in Seq(Nat) /\ c \in Nat
    BY <1>1 DEF Starts, Grown
<1> HIDE DEF x
<1>4. Served'
    BY <1>1, ServedGrows DEF Known
<1>5. pc'[t] = "data" /\ todo'[t] = SendParametersData(c, v)
    BY <1>1 DEF Known, Good, Types
<1>6. Ready'
    BY <1>2, <1>5 DEF Ready
<1>7. Leads(<<>>, todo'[t], Params'[cur'[t]])
  <2>1. Params'[c] = Own(c, Len(v))
    BY <1>1, <1>3, ParamsGrow DEF Known
  <2> HIDE DEF c
  <2>2. Leads(<<>>, SendParametersData(c, v), Own(c, Len(v)))
    BY <1>3, ParametersData
  <2> QED
    BY <1>2, <1>5, <2>1, <2>2
<1>8. Bound'
  <2> SUFFICES ASSUME conn' = "up"
               PROVE  \E e \in Pairs : /\ Fits(up', bound', e, Params')
                                       /\ Sending' = {} => e = <<>>
                                       /\ \A u \in Sending' :
                                             Leads(e, todo'[u], Params'[cur'[u]])
    BY DEF Bound
  <2>1. <<>> \in Pairs /\ Fits(up, bound, <<>>, Params)
    BY <1>1 DEF Bound
  <2>2. Fits(up, bound, <<>>, Params')
    BY <1>1, <2>1, FitsGrown DEF Known
  <2> QED
    BY <1>1, <1>2, <1>7, <2>1, <2>2
<1> QED
    BY <1>4, <1>6, <1>8

LEMMA ServedKeeps ==
    ASSUME Served, Done' \subseteq Done, UNCHANGED <<call, executed>>
    PROVE  Served'
<1>1. Params' = Params
    BY DEF Params
<1> QED
    BY <1>1 DEF Served

(* A call that fails has not been served, and nobody sends then.           *)
LEMMA FailedBinds ==
    ASSUME Good, Served, NEW t \in Thread, t \in Sending, Return(t), conn # "up",
           outcome' = [outcome EXCEPT ![cur[t]] = "failed"],
           UNCHANGED <<conn, down, call, executed>>
    PROVE  Bound' /\ Served' /\ Ready'
<1>1. Sending' = {}
    BY Returned
<1>2. DOMAIN outcome = 1 .. Len(call) /\ DOMAIN call = 1 .. Len(call)
    BY LenProperties DEF Good, Types
<1>3. Finished' \subseteq Finished
    BY <1>2 DEF Finished
<1>4. Done' \subseteq Done
    BY <1>3 DEF Done, Ids
<1>5. Served'
    BY <1>4, ServedKeeps
<1> QED
    BY <1>1, <1>5 DEF Bound, Ready

LEMMA SendDataBinds ==
    ASSUME Known, Bound, Served, Ready, NEW t \in Thread, SendData(t)
    PROVE  Bound' /\ Served' /\ Ready'
<1>1. Good
    BY DEF Known
<1>2. /\ t \in Sending /\ pc[t] = "data" /\ todo[t] # <<>>
      /\ UNCHANGED <<conn, down, bound, call, executed>>
    BY <1>1, SendDataEffect
<1>3. CASE conn = "up"
  <2> DEFINE m == Head(todo[t])
  <2>1. /\ up' = Append(up, m) /\ todo' = [todo EXCEPT ![t] = Tail(@)]
        /\ UNCHANGED <<pc, cur, outcome>>
    BY <1>1, <1>3, SendDataEffect
  <2>2. /\ up \in Seq(Requests) /\ todo \in [Thread -> Seq(DataMsgs)]
        /\ todo[t] \in Seq(DataMsgs)
    BY <1>1 DEF Good, Types
  <2>3. m \in DataMsgs
    BY <1>2, <2>2, RangeHeadTail
  <2>4. m \in Requests /\ m.id \notin Executing
    BY <2>3 DEF DataMsgs, Requests, DataIds, Executing
  <2>5. Sending' = Sending /\ \A u \in Sending : u = t
    BY <1>1, <1>2, <2>1 DEF Sending, Good, Pointers, OneSender
  <2>6. todo'[t] = Tail(todo[t]) /\ Params' = Params
    BY <1>2, <2>1, <2>2 DEF Params
  <2>7. Done' = Done
    BY <1>2, <2>1 DEF Done, Finished, Ids
  <2>8. Served'
    BY <1>2, <2>7, ServedKeeps
  <2>9. Ready'
    BY <1>2, <2>1, <2>5 DEF Ready
  <2>10. PICK e \in Pairs : Fits(up, bound, e, Params) /\ Leads(e, todo[t], Params[cur[t]])
    BY <1>2, <1>3 DEF Bound
  <2>11. Leads(Fed(e, m), Tail(todo[t]), Params[cur[t]])
    BY <1>2, <2>2, <2>10, LeadsTail
  <2> HIDE DEF m
  <2>12. Fits(Append(up, m), bound, Fed(e, m), Params) /\ Fed(e, m) \in Pairs
    BY <2>2, <2>4, <2>10, FitsAppend
  <2>13. /\ Fits(up', bound', Fed(e, m), Params')
         /\ \A u \in Sending' : Leads(Fed(e, m), todo'[u], Params'[cur'[u]])
    BY <1>2, <2>1, <2>5, <2>6, <2>11, <2>12
  <2>14. Bound'
    BY <1>2, <2>5, <2>12, <2>13 DEF Bound
  <2> QED
    BY <2>8, <2>9, <2>14
<1>4. CASE conn # "up"
  <2>1. Return(t) /\ outcome' = [outcome EXCEPT ![cur[t]] = "failed"]
    BY <1>1, <1>4, SendDataEffect
  <2> QED
    BY <1>1, <1>2, <1>4, <2>1, FailedBinds
<1> QED
    BY <1>3, <1>4

LEMMA RegisterBinds ==
    ASSUME Known, Bound, Served, Ready, NEW t \in Thread, Register(t)
    PROVE  Bound' /\ Served' /\ Ready'
<1>1. Good
    BY DEF Known
<1>2. /\ t \in Sending /\ todo[t] = <<>> /\ pc' = [pc EXCEPT ![t] = "request"]
      /\ UNCHANGED <<cur, todo, conn, up, down, bound, call, outcome, executed>>
    BY <1>1, RegisterEffect
<1>3. Sending' = Sending /\ \A u \in Sending : u = t
    BY <1>1, <1>2, RegisterKeeps DEF Good, Pointers, OneSender
<1>4. Params' = Params /\ Done' = Done
    BY <1>2 DEF Params, Done, Finished, Ids
<1>5. Served'
    BY <1>2, <1>4, ServedKeeps
<1>6. Ready'
    BY <1>2, <1>3 DEF Ready
<1>7. Bound'
    BY <1>2, <1>3, <1>4 DEF Bound
<1> QED
    BY <1>5, <1>6, <1>7

LEMMA SendExecuteBinds ==
    ASSUME Known, Bound, Served, Ready, NEW t \in Thread, SendExecute(t)
    PROVE  Bound' /\ Served' /\ Ready'
<1>1. Good
    BY DEF Known
<1>2. /\ t \in Sending /\ pc[t] = "request" /\ Return(t)
      /\ UNCHANGED <<conn, down, bound, call, executed>>
    BY <1>1, SendExecuteEffect
<1>3. CASE conn = "up"
  <2> DEFINE c == cur[t]
             m == Msg(call[c].kind, c, 0, 0, <<>>)
  <2>1. up' = Append(up, m) /\ UNCHANGED outcome /\ Sending' = {}
    BY <1>1, <1>3, SendExecuteEffect, SendExecuteStepKeeps
  <2>2. up \in Seq(Requests) /\ c \in Nat /\ call[c].kind \in Executing
    BY <1>1, <1>2 DEF Good, Types, Pointers, SenderOpen
  <2>3. m \in Requests /\ m.id \in Executing /\ m.c = c
    BY <2>2, SimpleMsg
  <2>4. Params' = Params /\ Done' = Done
    BY <1>2, <2>1 DEF Params, Done, Finished, Ids
  <2>5. Served'
    BY <1>2, <2>4, ServedKeeps
  <2>6. PICK e \in Pairs : Fits(up, bound, e, Params) /\ Leads(e, todo[t], Params[c])
    BY <1>2, <1>3 DEF Bound
  <2>7. e = Params[c]
    BY <1>2, <2>6, LeadsEmpty DEF Ready
  <2> HIDE DEF m, c
  <2>8. Fits(Append(up, m), bound, Fed(e, m), Params) /\ Fed(e, m) \in Pairs
    BY <2>2, <2>3, <2>6, <2>7, FitsAppend
  <2>9. Fed(e, m) = <<>>
    BY <2>3 DEF Fed, Executing
  <2>10. Bound'
    BY <1>2, <2>1, <2>4, <2>8, <2>9 DEF Bound
  <2> QED
    BY <2>1, <2>5, <2>10 DEF Ready
<1>4. CASE conn # "up"
  <2>1. outcome' = [outcome EXCEPT ![cur[t]] = "failed"]
    BY <1>1, <1>4, SendExecuteEffect
  <2> QED
    BY <1>1, <1>2, <1>4, <2>1, FailedBinds
<1> QED
    BY <1>3, <1>4

LEMMA ReceiveBinds ==
    ASSUME Known, Bound, Served, Ready, Receive
    PROVE  Bound' /\ Served' /\ Ready'
<1>1. /\ conn = "up" /\ up # <<>> /\ up' = Tail(up) /\ bound' = Fed(bound, Head(up))
      /\ UNCHANGED <<pc, cur, todo, conn, down, call, outcome, executed>>
    BY ReceiveEffect DEF Known, Good
<1>2. up \in Seq(Requests)
    BY DEF Known, Good, Types
<1>3. PICK e \in Pairs :
          /\ Fits(up, bound, e, Params)
          /\ Sending = {} => e = <<>>
          /\ \A t \in Sending : Leads(e, todo[t], Params[cur[t]])
    BY <1>1 DEF Bound
<1>4. Fits(Tail(up), Fed(bound, Head(up)), e, Params)
    BY <1>1, <1>2, <1>3, FitsTail
<1>5. Params' = Params /\ Done' = Done /\ Sending' = Sending
    BY <1>1 DEF Params, Done, Finished, Ids, Sending
<1>6. Bound'
    BY <1>1, <1>3, <1>4, <1>5 DEF Bound
<1>7. Served'
    BY <1>1, <1>5, ServedKeeps
<1> QED
    BY <1>1, <1>5, <1>6, <1>7 DEF Ready

LEMMA ServeBinds ==
    ASSUME Known, Bound, Served, Ready, Serve
    PROVE  Bound' /\ Served' /\ Ready'
<1> DEFINE h == Head(up)
           c == h.c
<1>1. Good
    BY DEF Known
<1>2. /\ conn = "up" /\ up # <<>> /\ up' = Tail(up) /\ bound' = Fed(bound, h)
      /\ h.id \in Executing \union Simple /\ h \in Asked(up) /\ c \in 1 .. Len(call)
      /\ executed' = [executed EXCEPT ![c] = bound]
      /\ UNCHANGED <<pc, cur, todo, conn, call, outcome>>
    BY <1>1, ServeEffect
<1>3. PICK a \in Seq(Replies(c)), m \in Lasts(c) : down' = down \o Append(a, m)
    BY <1>1, ServeEffect
<1>4. /\ up \in Seq(Requests) /\ down \in Seq(AllReplies)
      /\ DOMAIN executed = 1 .. Len(call)
    BY <1>1, LenProperties DEF Good, Types
<1>5. PICK e \in Pairs :
          /\ Fits(up, bound, e, Params)
          /\ Sending = {} => e = <<>>
          /\ \A t \in Sending : Leads(e, todo[t], Params[cur[t]])
    BY <1>2 DEF Bound
<1>6. /\ Fits(Tail(up), Fed(bound, h), e, Params)
      /\ h.id \in Executing => bound = Params[c]
    BY <1>2, <1>4, <1>5, FitsTail
<1>7. call[c].kind = h.id /\ c \in Nat
    BY <1>1, <1>2, ParamsType DEF Good, Pointers, KindsMatch
<1>8. Params' = Params /\ Sending' = Sending /\ Finished' = Finished
    BY <1>2 DEF Params, Finished, Sending
<1>9. Bound'
    BY <1>2, <1>5, <1>6, <1>8 DEF Bound
<1> HIDE DEF c
<1>10. Ids(down') = Ids(down) \union {c}
    BY <1>3, <1>4, <1>7, RepliesRange
<1>11. Done' = Done \union {c}
    BY <1>8, <1>10 DEF Done
<1>12. \A d \in Done : d \in 1 .. Len(call)
    BY <1>1, DoneKnown
<1>13. ASSUME NEW d \in Done', call'[d].kind \in Executing
       PROVE  executed'[d] = Params'[d]
  <2>1. CASE d = c
    <3>1. bound = Params[c]
        BY <1>2, <1>6, <1>7, <1>13, <2>1
    <3> QED
        BY <1>2, <1>4, <1>8, <2>1, <3>1
  <2>2. CASE d # c
    <3>1. d \in Done /\ d \in 1 .. Len(call)
        BY <1>11, <1>12, <2>2
    <3>2. executed[d] = Params[d]
        BY <1>2, <1>13, <3>1 DEF Served
    <3> QED
        BY <1>2, <1>4, <1>8, <2>2, <3>1, <3>2
  <2> QED
    BY <2>1, <2>2
<1>14. Served'
    BY <1>13 DEF Served
<1> QED
    BY <1>2, <1>8, <1>9, <1>14 DEF Ready

LEMMA TakeBinds ==
    ASSUME Known, Bound, Served, Ready, Take
    PROVE  Bound' /\ Served' /\ Ready'
<1>1. down # <<>> /\ down' = Tail(down) /\ UNCHANGED core
    BY TakeEffect
<1>2. Range(Tail(down)) \subseteq Range(down)
    BY <1>1, RangeHeadTail DEF Known, Good, Types
<1>3. Params' = Params /\ Sending' = Sending /\ Finished' = Finished
    BY <1>1 DEF Params, Finished, Sending, core
<1>4. Done' \subseteq Done
    BY <1>1, <1>2, <1>3 DEF Done, Ids
<1>5. Served'
    BY <1>1, <1>4, ServedKeeps DEF core
<1>6. Bound' /\ Ready'
    BY <1>1, <1>3 DEF Bound, Ready, core
<1> QED
    BY <1>5, <1>6

LEMMA OnResultBinds ==
    ASSUME Known, Bound, Served, Ready, OnResult
    PROVE  Bound' /\ Served' /\ Ready'
<1> DEFINE c == Head(down).c
<1>1. Good
    BY DEF Known
<1>2. /\ down # <<>> /\ down' = Tail(down) /\ c \in 1 .. Len(call)
      /\ \/ outcome' = [outcome EXCEPT ![c] = "result"]
         \/ outcome' = [outcome EXCEPT ![c] = "exception"]
      /\ UNCHANGED <<pc, cur, todo, conn, up, bound, call, executed>>
    BY <1>1, OnResultEffect
<1>3. Range(Tail(down)) \subseteq Range(down) /\ Head(down) \in Range(down)
    BY <1>1, <1>2, RangeHeadTail DEF Good, Types
<1>4. DOMAIN outcome = 1 .. Len(call) /\ DOMAIN call = 1 .. Len(call)
    BY <1>1, LenProperties DEF Good, Types
<1>5. c \in Ids(down) /\ Ids(down') \subseteq Ids(down)
    BY <1>2, <1>3 DEF Ids
<1> HIDE DEF c
<1>6. Finished' \subseteq Finished \union {c}
    BY <1>2, <1>4 DEF Finished
<1>7. Done' \subseteq Done
    BY <1>5, <1>6 DEF Done
<1>8. Served'
    BY <1>2, <1>7, ServedKeeps
<1>9. Params' = Params /\ Sending' = Sending
    BY <1>2 DEF Params, Sending
<1>10. Bound' /\ Ready'
    BY <1>2, <1>9 DEF Bound, Ready
<1> QED
    BY <1>8, <1>10

LEMMA ReconnectBinds ==
    ASSUME Known, Served, Ready, Reconnect, PatientReconnect
    PROVE  Bound' /\ Served' /\ Ready'
<1>1. /\ conn = "down" /\ NoneSending
      /\ UNCHANGED <<pc, cur, todo, up, down, bound, call, outcome, executed>>
    BY DEF Reconnect, threadVars, historyVars
<1>2. up' = <<>> /\ bound' = <<>> /\ Sending' = {}
    BY <1>1 DEF Known, Emptied, NoneSending, Sending
<1>3. Done' = Done
    BY <1>1 DEF Done, Finished, Ids
<1>4. Served'
    BY <1>1, <1>3, ServedKeeps
<1>5. <<>> \in Pairs
    BY EmptySeq DEF Pairs
<1> DEFINE Q == Params'
<1>6. Fits(<<>>, <<>>, <<>>, Q)
  <2> HIDE DEF Q
  <2> QED
    BY <1>5, FitsNone
<1>7. Bound'
    BY <1>2, <1>5, <1>6 DEF Bound
<1> QED
    BY <1>2, <1>4, <1>7 DEF Ready

Binding == Known /\ Bound /\ Served /\ Ready

(* Binding holds at first, and each step keeps it.                         *)
LEMMA InitBinding == Init => Binding
<1> SUFFICES ASSUME Init
             PROVE  Binding
    OBVIOUS
<1>1. Known
    BY InitKnown
<1>2. up = <<>> /\ down = <<>> /\ bound = <<>> /\ call = <<>> /\ Sending = {}
    BY DEF Init, Sending
<1>3. <<>> \in Pairs
    BY EmptySeq DEF Pairs
<1> DEFINE P == Params
<1>4. Fits(<<>>, <<>>, <<>>, P)
  <2> HIDE DEF P
  <2> QED
    BY <1>3, FitsNone
<1>5. Bound
    BY <1>2, <1>3, <1>4 DEF Bound
<1>6. Done = {}
  <2>1. Len(<<>>) = 0 /\ 1 .. 0 = {}
    BY EmptySeq
  <2> QED
    BY <1>1, <1>2, <2>1, DoneKnown DEF Known
<1> QED
    BY <1>1, <1>2, <1>5, <1>6 DEF Binding, Served, Ready

LEMMA BindingStep ==
    ASSUME Binding, [Next]_vars, PatientReconnect
    PROVE  Binding'
<1>1. Known /\ Known' /\ Bound /\ Served /\ Ready
    BY KnownStep DEF Binding
<1> DEFINE Goal == Bound' /\ Served' /\ Ready'
<1>2. ASSUME NEW s \in Prepared, SendSimple("idPrepare", <<s>>)
      PROVE  Goal
  <2>1. <<s>> \in Seq(Statement) /\ "idPrepare" \in Simple
    BY ConstantsAssumption, OneIsSeq DEF Simple
  <2> QED
    BY <1>1, <1>2, <2>1, SimpleBinds
<1>3. ASSUME NEW k \in {"idOpen", "idBeginTrans"}, SendSimple(k, <<>>)
      PROVE  Goal
  <2>1. <<>> \in Seq(Statement) /\ k \in Simple
    BY EmptySeq DEF Simple
  <2> QED
    BY <1>1, <1>3, <2>1, SimpleBinds
<1>4. ASSUME NEW t \in Thread, Execute(t)
      PROVE  Goal
  <2>1. Sending = {}
    BY <1>1, <1>4, ExecuteStarts DEF Known
  <2>2. PICK k, stmts, v : Starts(t, k, stmts, v)
    BY <1>1, <1>4, ExecuteStarts DEF Known
  <2> QED
    BY <1>1, <2>1, <2>2, StartBinds
<1>5. ASSUME NEW t \in Thread, SendData(t)
      PROVE  Goal
    BY <1>1, <1>5, SendDataBinds
<1>6. ASSUME NEW t \in Thread, Register(t)
      PROVE  Goal
    BY <1>1, <1>6, RegisterBinds
<1>7. ASSUME NEW t \in Thread, SendExecute(t)
      PROVE  Goal
    BY <1>1, <1>7, SendExecuteBinds
<1>8. ASSUME Receive
      PROVE  Goal
    BY <1>1, <1>8, ReceiveBinds
<1>9. ASSUME Serve
      PROVE  Goal
    BY <1>1, <1>9, ServeBinds
<1>10. ASSUME Take
      PROVE  Goal
    BY <1>1, <1>10, TakeBinds
<1>11. ASSUME OnResult
       PROVE  Goal
    BY <1>1, <1>11, OnResultBinds
<1>12. ASSUME UNCHANGED <<core, down>>
       PROVE  Goal
  <2>1. Params' = Params /\ Sending' = Sending /\ Done' = Done
    BY <1>12 DEF Params, Sending, Done, Finished, Ids, core
  <2>2. Served'
    BY <1>1, <1>12, <2>1, ServedKeeps DEF core
  <2> QED
    BY <1>1, <1>12, <2>1, <2>2 DEF Bound, Ready, core
<1>13. ASSUME Break
       PROVE  Goal
  <2>1. /\ conn' = "closing" /\ down' = <<>>
        /\ UNCHANGED <<pc, todo, call, outcome, executed>>
    BY <1>13 DEF Break, threadVars
  <2>2. Done' \subseteq Done /\ Sending' = Sending
    BY <2>1, RangeEmpty DEF Done, Finished, Ids, Sending
  <2>3. Served'
    BY <1>1, <2>1, <2>2, ServedKeeps
  <2> QED
    BY <1>1, <2>1, <2>2, <2>3 DEF Bound, Ready
<1>14. ASSUME CleanMaps
       PROVE  Goal
  <2>1. /\ conn' = "cleaned" /\ UNCHANGED <<pc, todo, down, call, outcome, executed>>
    BY <1>14 DEF CleanMaps, threadVars, historyVars
  <2>2. Done' = Done /\ Sending' = Sending
    BY <2>1 DEF Done, Finished, Ids, Sending
  <2>3. Served'
    BY <1>1, <2>1, <2>2, ServedKeeps
  <2> QED
    BY <1>1, <2>1, <2>2, <2>3 DEF Bound, Ready
<1>15. ASSUME CleanCallbacks
       PROVE  Goal
  <2>1. /\ conn' = "down" /\ UNCHANGED <<pc, todo, down, call, executed>>
        /\ outcome' = [c \in DOMAIN outcome |->
                         IF c \in Range(waiting) THEN "discarded" ELSE outcome[c]]
    BY <1>15 DEF CleanCallbacks, threadVars
  <2>2. DOMAIN outcome = DOMAIN call
    BY <1>1, LenProperties DEF Known, Good, Types
  <2>3. Done' \subseteq Done /\ Sending' = Sending
    BY <2>1, <2>2 DEF Done, Finished, Ids, Sending
  <2>4. Served'
    BY <1>1, <2>1, <2>3, ServedKeeps
  <2> QED
    BY <1>1, <2>1, <2>3, <2>4 DEF Bound, Ready
<1>16. ASSUME Reconnect
       PROVE  Goal
    BY <1>1, <1>16, ReconnectBinds
<1>17. ASSUME OnAllProcessed \/ UNCHANGED vars
       PROVE  Goal
  <2>1. UNCHANGED <<core, down>>
    BY <1>17 DEF OnAllProcessed, vars, core, handlerVars, threadVars, sessionVars,
                 historyVars
  <2> QED
    BY <1>12, <2>1
<1>18. Goal
  <2> HIDE DEF Goal
  <2> QED
    BY <1>2, <1>3, <1>4, <1>5, <1>6, <1>7, <1>8, <1>9, <1>10, <1>11, <1>13,
       <1>14, <1>15, <1>16, <1>17 DEF Next, Take
<1> QED
    BY <1>1, <1>18 DEF Binding

(* For any statements, arrays, batch sizes and threads, when a session is  *)
(* not reconnected in the middle of a call: a statement is executed with   *)
(* exactly the values of its own parameter array, in their order.  The     *)
(* data sent ahead are not mixed with another thread's, and what a broken  *)
(* session left behind is not taken for the next call.                     *)
THEOREM BindsOwnParametersHolds ==
    ASSUME PatientReconnect
    PROVE  Spec => []BindsOwnParameters
<1>1. Init => Binding
    BY InitBinding
<1>2. Binding /\ [Next]_vars => Binding'
    BY BindingStep
<1>3. Binding => BindsOwnParameters
  <2> SUFFICES ASSUME Binding, NEW c \in Finished, call[c].kind \in Executing
               PROVE  executed[c] = [n \in 1 .. Len(call[c].vParam) |-> <<c, n>>]
    BY DEF BindsOwnParameters
  <2>1. c \in Done /\ Good
    BY DEF Done, Binding, Known
  <2>2. c \in 1 .. Len(call)
    BY <2>1, DoneKnown
  <2>3. executed[c] = Own(c, Len(call[c].vParam))
    BY <2>1, <2>2, ParamsType DEF Binding, Served
  <2> QED
    BY <2>3 DEF Own
<1> QED
    BY <1>1, <1>2, <1>3, PTL DEF Spec

----------------------------------------------------------------------------
(* The rowsets.  A walk along the answers under way: each takes what the   *)
(* handler has received to what it has received next (Rowed), and must be  *)
(* in turn for that (InTurn).                                              *)

(* Walking from b to e along q: R holds the steps, a state, an element of  *)
(* q and the next state.                                                   *)
Walk(g, R, q) == \A i \in 1 .. Len(q) : <<g[i - 1], q[i], g[i]>> \in R
Path(R, q, b, e) == \E g : Walk(g, R, q) /\ g[0] = b /\ g[Len(q)] = e

LEMMA PathNone ==
    ASSUME NEW R, NEW b
    PROVE  Path(R, <<>>, b, b)
<1> DEFINE g == [i \in 0 .. 0 |-> b]
<1>1. g[0] = b /\ Len(<<>>) = 0 /\ \A i \in 1 .. 0 : FALSE
    BY EmptySeq
<1> HIDE DEF g
<1> QED
    BY <1>1 DEF Path, Walk

LEMMA PathEmpty ==
    ASSUME NEW R, NEW b, NEW e, Path(R, <<>>, b, e)
    PROVE  b = e
<1>1. Len(<<>>) = 0
    BY EmptySeq
<1> QED
    BY <1>1 DEF Path

LEMMA PathOne ==
    ASSUME NEW R, NEW b, NEW m, NEW e, <<b, m, e>> \in R
    PROVE  Path(R, <<m>>, b, e)
<1> DEFINE g == [i \in 0 .. 1 |-> IF i = 0 THEN b ELSE e]
           q == <<m>>
<1>1. g[0] = b /\ g[1] = e /\ Len(q) = 1 /\ q[1] = m
    OBVIOUS
<1> HIDE DEF g, q
<1>2. \A i \in 1 .. Len(q) : <<g[i - 1], q[i], g[i]>> \in R
  <2>1. \A i \in 1 .. 1 : i = 1 /\ i - 1 = 0
    OBVIOUS
  <2> QED
    BY <1>1, <2>1
<1>3. Path(R, q, b, e)
    BY <1>1, <1>2 DEF Path, Walk
<1> QED
    BY <1>3 DEF q

LEMMA PathConcat ==
    ASSUME NEW M, NEW q \in Seq(M), NEW r \in Seq(M), NEW R, NEW b, NEW d, NEW e,
           Path(R, q, b, d), Path(R, r, d, e)
    PROVE  Path(R, q \o r, b, e)
<1> DEFINE n == Len(q)
           k == Len(r)
           s == q \o r
<1>1. PICK f : (\A i \in 1 .. n : <<f[i - 1], q[i], f[i]>> \in R) /\ f[0] = b /\ f[n] = d
    BY DEF Path, Walk
<1>2. PICK h : (\A i \in 1 .. k : <<h[i - 1], r[i], h[i]>> \in R) /\ h[0] = d /\ h[k] = e
    BY DEF Path, Walk
<1>3. /\ n \in Nat /\ k \in Nat /\ Len(s) = n + k
      /\ \A i \in 1 .. n + k : s[i] = IF i <= n THEN q[i] ELSE r[i - n]
    BY LenProperties, ConcatProperties
<1> HIDE DEF n, k, s
<1> DEFINE g == [i \in 0 .. n + k |-> IF i <= n THEN f[i] ELSE h[i - n]]
<1>4. /\ \A i \in 0 .. n : g[i] = f[i]
      /\ \A i \in 0 .. k : g[n + i] = h[i]
  <2>1. \A i \in 0 .. n : i \in 0 .. n + k /\ g[i] = f[i]
    BY <1>3
  <2>2. ASSUME NEW i \in 0 .. k
        PROVE  g[n + i] = h[i]
    <3>1. CASE i = 0
        BY <1>1, <1>2, <1>3, <2>1, <3>1
    <3>2. CASE i # 0
        <4>1. n + i \in 0 .. n + k /\ ~(n + i <= n) /\ (n + i) - n = i
            BY <1>3, <3>2
        <4> QED
            BY <4>1
    <3> QED
        BY <3>1, <3>2
  <2> QED
    BY <2>1, <2>2
<1> HIDE DEF g
<1>5. ASSUME NEW i \in 1 .. n + k
      PROVE  <<g[i - 1], s[i], g[i]>> \in R
  <2>1. CASE i <= n
    <3>1. i \in 1 .. n /\ g[i] = f[i] /\ g[i - 1] = f[i - 1] /\ s[i] = q[i]
        BY <1>3, <1>4, <2>1
    <3> QED
        BY <1>1, <3>1
  <2>2. CASE i > n
    <3> DEFINE j == i - n
    <3>1. j \in 1 .. k /\ j - 1 \in 0 .. k /\ i = n + j /\ i - 1 = n + (j - 1) /\ ~(i <= n)
        BY <1>3, <2>2
    <3>2. g[n + j] = h[j] /\ g[n + (j - 1)] = h[j - 1] /\ s[i] = r[j]
        BY <1>3, <1>4, <3>1
    <3>3. g[i] = h[j] /\ g[i - 1] = h[j - 1]
        BY <3>1, <3>2
    <3> HIDE DEF j
    <3> QED
        BY <1>2, <3>1, <3>2, <3>3
  <2> QED
    BY <1>3, <2>1, <2>2
<1>6. g[0] = b /\ g[n + k] = e
    BY <1>1, <1>2, <1>3, <1>4
<1>7. Path(R, s, b, e)
    BY <1>3, <1>5, <1>6 DEF Path, Walk
<1> QED
    BY <1>7 DEF s

LEMMA PathAppend ==
    ASSUME NEW M, NEW q \in Seq(M), NEW m \in M, NEW R, NEW b, NEW d, NEW e,
           Path(R, q, b, d), <<d, m, e>> \in R
    PROVE  Path(R, Append(q, m), b, e)
<1> DEFINE r == <<m>>
<1>1. r \in Seq(M) /\ Path(R, r, d, e) /\ Append(q, m) = q \o r
    BY PathOne, OneIsSeq, AppendIsConcat
<1> HIDE DEF r
<1> QED
    BY <1>1, PathConcat

LEMMA PathTail ==
    ASSUME NEW M, NEW q \in Seq(M), q # <<>>, NEW R, NEW b, NEW e, Path(R, q, b, e)
    PROVE  \E d : <<b, Head(q), d>> \in R /\ Path(R, Tail(q), d, e)
<1> DEFINE n == Len(q)
           t == Tail(q)
<1>1. PICK f : (\A i \in 1 .. n : <<f[i - 1], q[i], f[i]>> \in R) /\ f[0] = b /\ f[n] = e
    BY DEF Path, Walk
<1>2. /\ n \in Nat \ {0} /\ Len(t) = n - 1 /\ Head(q) = q[1]
      /\ \A i \in 1 .. n - 1 : t[i] = q[i + 1]
    BY HeadTailProperties, EmptySeq
<1> HIDE DEF n, t
<1> DEFINE g == [i \in 0 .. n - 1 |-> f[i + 1]]
<1>3. \A i \in 0 .. n - 1 : g[i] = f[i + 1]
    OBVIOUS
<1> HIDE DEF g
<1>4. ASSUME NEW i \in 1 .. n - 1
      PROVE  <<g[i - 1], t[i], g[i]>> \in R
  <2> DEFINE l == i + 1
  <2>1. l \in 1 .. n /\ l - 1 = i /\ i - 1 \in 0 .. n - 1 /\ (i - 1) + 1 = i /\ i \in 0 .. n - 1
    BY <1>2
  <2>2. g[i] = f[l] /\ g[i - 1] = f[i] /\ t[i] = q[l]
    BY <1>2, <1>3, <2>1
  <2> HIDE DEF l
  <2> QED
    BY <1>1, <2>1, <2>2
<1>5. 1 \in 1 .. n /\ 1 - 1 = 0 /\ g[0] = f[1] /\ g[n - 1] = e
    BY <1>1, <1>2, <1>3
<1>6. <<b, q[1], f[1]>> \in R
    BY <1>1, <1>5
<1>7. Path(R, t, f[1], e)
    BY <1>2, <1>4, <1>5 DEF Path, Walk
<1> QED
    BY <1>2, <1>6, <1>7 DEF t

LEMMA PathOther ==
    ASSUME NEW M, NEW q \in Seq(M), NEW R, NEW S, NEW b, NEW e, Path(R, q, b, e),
           \A m \in Range(q) : \A x, y : <<x, m, y>> \in R => <<x, m, y>> \in S
    PROVE  Path(S, q, b, e)
<1>1. PICK g : Walk(g, R, q) /\ g[0] = b /\ g[Len(q)] = e
    BY DEF Path
<1>2. Range(q) = {q[i] : i \in 1 .. Len(q)}
    BY RangeEquality
<1>3. Walk(g, S, q)
    BY <1>1, <1>2 DEF Walk
<1> QED
    BY <1>1, <1>3 DEF Path

LEMMA PathPrefix ==
    ASSUME NEW M, NEW q \in Seq(M), NEW n \in 0 .. Len(q), NEW R, NEW b, NEW e,
           Path(R, q, b, e)
    PROVE  \E d : Path(R, SubSeq(q, 1, n), b, d)
<1>1. PICK g : Walk(g, R, q) /\ g[0] = b /\ g[Len(q)] = e
    BY DEF Path
<1>2. Len(q) \in Nat /\ \A i \in 1 .. n : q[i] \in M
    BY LenProperties, ElementOfSeq
<1> DEFINE s == SubSeq(q, 1, n)
<1>3. Len(s) = n /\ \A i \in 1 .. n : s[i] = q[i]
    BY <1>2, SubSeqProperties
<1> HIDE DEF s
<1>4. Walk(g, R, s)
    BY <1>1, <1>2, <1>3 DEF Walk
<1> QED
    BY <1>1, <1>3, <1>4 DEF Path, s

(* What OnResultReturned and the result handlers do with what a call       *)
(* receives: the index of the call, the values and the large value so far, *)
(* the calls that have their result, and what the callbacks have received. *)
Rows == Seq(Seq(Value))
RowState == [index : Nat, v : Seq(Value), b : Seq(Value), fin : SUBSET Nat,
             got : [Nat -> Rows]]

Handed(h, c, r) == [h.got EXCEPT ![c] = Append(@, r)]

Rowed(h, m) ==
    CASE m.id = "idRowsetHeader" /\ m.n = 0 ->
            [h EXCEPT !.index = m.c, !.v = <<>>, !.b = <<>>, !.got = Handed(h, m.c, <<>>)]
      [] m.id = "idBeginRows" \/ (m.id = "idRowsetHeader" /\ m.n # 0) ->
            [h EXCEPT !.index = m.c, !.v = <<>>, !.b = <<>>]
      [] m.id = "idTransferring" -> [h EXCEPT !.v = @ \o m.vals]
      [] m.id = "idStartBLOB" -> [h EXCEPT !.b = m.vals]
      [] m.id = "idEndBLOB" -> [h EXCEPT !.v = @ \o h.b, !.b = <<>>]
      [] m.id = "idEndRows" ->
            [h EXCEPT !.v = <<>>, !.got = Handed(h, m.c, h.v \o m.vals)]
      [] m.id = "idOutputParameter" -> [h EXCEPT !.v = <<>>]
      [] m.id = "result" -> [h EXCEPT !.fin = @ \union {m.c}]
      [] OTHER -> h

(* What holds when an answer is taken: its call has no result yet, it is   *)
(* the call of the last header, output values come alone, and a call that  *)
(* gets its result has received what it was to receive, W.                 *)
Indexed == {"idEndRows", "idCallReturn", "idOutputParameter"}
InTurn(h, m, W) ==
    /\ m.c \notin h.fin
    /\ m.id \in Indexed => h.index = m.c
    /\ m.id = "idEndRows" => h.v \o m.vals # <<>>
    /\ m.id = "idOutputParameter" => h.v = <<>>
    /\ m.id = "result" => h.got[m.c] = W[m.c]

RowStep(W) == {x \in RowState \X AllReplies \X RowState :
                  InTurn(x[1], x[2], W) /\ x[3] = Rowed(x[1], x[2])}

LEMMA RowedType ==
    ASSUME NEW h \in RowState, NEW m \in AllReplies
    PROVE  /\ Rowed(h, m) \in RowState
           /\ m.id # "result" => Rowed(h, m).fin = h.fin
           /\ m.id = "result" => Rowed(h, m) = [h EXCEPT !.fin = @ \union {m.c}]
           /\ \A d \in Nat : d # m.c => Rowed(h, m).got[d] = h.got[d]
<1>1. /\ h.index \in Nat /\ h.v \in Seq(Value) /\ h.b \in Seq(Value)
      /\ h.fin \in SUBSET Nat /\ h.got \in [Nat -> Rows]
      /\ m.c \in Nat /\ m.vals \in Seq(Value)
    BY DEF RowState, AllReplies
<1>2. <<>> \in Seq(Value) /\ h.v \o m.vals \in Seq(Value) /\ h.v \o h.b \in Seq(Value)
    BY <1>1, EmptySeq, ConcatProperties
<1>3. ASSUME NEW r \in Seq(Value)
      PROVE  /\ Handed(h, m.c, r) \in [Nat -> Rows]
             /\ \A d \in Nat : d # m.c => Handed(h, m.c, r)[d] = h.got[d]
  <2>1. Append(h.got[m.c], r) \in Rows
    BY <1>1, AppendProperties DEF Rows
  <2> QED
    BY <1>1, <2>1 DEF Handed
<1>4. /\ [h EXCEPT !.fin = @ \union {m.c}] \in RowState
      /\ [h EXCEPT !.fin = @ \union {m.c}].got = h.got
    BY <1>1 DEF RowState
<1>5. CASE m.id = "idRowsetHeader" /\ m.n = 0
  <2> DEFINE f == Handed(h, m.c, <<>>)
  <2>1. Rowed(h, m) = [h EXCEPT !.index = m.c, !.v = <<>>, !.b = <<>>, !.got = f]
    BY <1>5 DEF Rowed
  <2>2. f \in [Nat -> Rows] /\ \A d \in Nat : d # m.c => f[d] = h.got[d]
    BY <1>2, <1>3
  <2> HIDE DEF f
  <2> QED
    BY <1>1, <1>2, <1>5, <2>1, <2>2 DEF RowState
<1>6. CASE m.id = "idBeginRows" \/ (m.id = "idRowsetHeader" /\ m.n # 0)
  <2>1. Rowed(h, m) = [h EXCEPT !.index = m.c, !.v = <<>>, !.b = <<>>]
    BY <1>6 DEF Rowed
  <2> QED
    BY <1>1, <1>2, <1>6, <2>1 DEF RowState
<1>7. CASE m.id = "idEndRows"
  <2> DEFINE f == Handed(h, m.c, h.v \o m.vals)
  <2>1. Rowed(h, m) = [h EXCEPT !.v = <<>>, !.got = f]
    BY <1>7 DEF Rowed
  <2>2. f \in [Nat -> Rows] /\ \A d \in Nat : d # m.c => f[d] = h.got[d]
    BY <1>2, <1>3
  <2> HIDE DEF f
  <2> QED
    BY <1>1, <1>2, <1>7, <2>1, <2>2 DEF RowState
<1>8. CASE m.id = "result"
  <2>1. Rowed(h, m) = [h EXCEPT !.fin = @ \union {m.c}]
    BY <1>8 DEF Rowed
  <2> QED
    BY <1>4, <1>8, <2>1
<1>9. CASE m.id \notin {"idRowsetHeader", "idBeginRows", "idEndRows", "result"}
  <2>1. /\ Rowed(h, m) \in RowState
        /\ Rowed(h, m).fin = h.fin /\ Rowed(h, m).got = h.got
    BY <1>1, <1>2, <1>9 DEF Rowed, RowState
  <2> QED
    BY <1>9, <2>1
<1> QED
    BY <1>5, <1>6, <1>7, <1>8, <1>9

LEMMA RowSteps ==
    ASSUME NEW h, NEW m, NEW e, NEW W
    PROVE  <<h, m, e>> \in RowStep(W) <=>
               /\ h \in RowState /\ m \in AllReplies /\ InTurn(h, m, W)
               /\ e = Rowed(h, m)
<1> DEFINE x == <<h, m, e>>
<1>1. x[1] = h /\ x[2] = m /\ x[3] = e
    OBVIOUS
<1>2. ASSUME x \in RowStep(W)
      PROVE  /\ h \in RowState /\ m \in AllReplies /\ InTurn(h, m, W)
             /\ e = Rowed(h, m)
  <2>1. /\ x \in RowState \X AllReplies \X RowState
        /\ InTurn(x[1], x[2], W) /\ x[3] = Rowed(x[1], x[2])
    BY <1>2 DEF RowStep
  <2> QED
    BY <1>1, <2>1
<1>3. ASSUME h \in RowState, m \in AllReplies, InTurn(h, m, W), e = Rowed(h, m)
      PROVE  x \in RowStep(W)
  <2>1. x \in RowState \X AllReplies \X RowState
    BY <1>3, RowedType
  <2>2. InTurn(x[1], x[2], W) /\ x[3] = Rowed(x[1], x[2])
    BY <1>1, <1>3
  <2> HIDE DEF x
  <2> QED
    BY <2>1, <2>2 DEF RowStep
<1> QED
    BY <1>2, <1>3

(* The answers to a call concern only that call, before its last one.      *)
LEMMA RowsKeep ==
    ASSUME NEW c \in Nat, NEW q \in Seq(Replies(c)), NEW W, NEW b \in RowState, NEW e,
           Path(RowStep(W), q, b, e)
    PROVE  /\ e \in RowState /\ e.fin = b.fin
           /\ \A d \in Nat : d # c => e.got[d] = b.got[d]
<1> DEFINE n == Len(q)
           Same(x) == /\ x \in RowState /\ x.fin = b.fin
                      /\ \A d \in Nat : d # c => x.got[d] = b.got[d]
<1>1. PICK g : /\ \A i \in 1 .. n : <<g[i - 1], q[i], g[i]>> \in RowStep(W)
               /\ g[0] = b /\ g[n] = e
    BY DEF Path, Walk
<1>2. n \in Nat /\ \A i \in 1 .. n : q[i] \in Replies(c)
    BY LenProperties, ElementOfSeq
<1> HIDE DEF n
<1> DEFINE B == {i \in 1 .. n : ~Same(g[i])}
<1>3. Same(g[0])
    BY <1>1
<1>4. ASSUME NEW i \in 1 .. n, Same(g[i - 1])
      PROVE  Same(g[i])
  <2>1. q[i] \in AllReplies /\ q[i].c = c /\ q[i].id # "result"
    BY <1>2 DEF Replies, AllReplies, AnswerIds
  <2>2. g[i] = Rowed(g[i - 1], q[i])
    BY <1>1, RowSteps
  <2> DEFINE x == g[i - 1]
             m == q[i]
  <2>3. x \in RowState /\ x.fin = b.fin /\ \A d \in Nat : d # c => x.got[d] = b.got[d]
    BY <1>4
  <2>4. m \in AllReplies /\ m.c = c /\ m.id # "result" /\ g[i] = Rowed(x, m)
    BY <2>1, <2>2
  <2> HIDE DEF x, m
  <2> QED
    BY <2>3, <2>4, RowedType
<1> HIDE DEF Same
<1>5. \A i \in B : i - 1 \in B
  <2> SUFFICES ASSUME NEW i \in B
               PROVE  i - 1 \in B
    OBVIOUS
  <2>1. i \in 1 .. n /\ ~Same(g[i - 1])
    BY <1>4
  <2>2. i - 1 # 0
    BY <1>3, <2>1
  <2> QED
    BY <1>2, <2>1, <2>2
<1>6. B = {}
  <2>1. B \in SUBSET (1 .. n) /\ n \in Nat
    BY <1>2
  <2> HIDE DEF B
  <2> QED
    BY <1>5, <2>1, NoneBad
<1>7. Same(e)
  <2>1. n = 0 \/ n \in 1 .. n
    BY <1>2
  <2> QED
    BY <1>1, <1>3, <1>6, <2>1
<1> QED
    BY <1>7 DEF Same

(* The answers q to call c hand over r.                                    *)
Delivers(c, q, r, W) ==
    /\ q \in Seq(Replies(c)) /\ r \in Rows
    /\ \A h \in RowState : c \notin h.fin =>
          \E e \in RowState : /\ Path(RowStep(W), q, h, e) /\ e.fin = h.fin
                              /\ e.got = [h.got EXCEPT ![c] = @ \o r]

LEMMA DeliversNone ==
    ASSUME NEW c \in Nat, NEW W
    PROVE  Delivers(c, <<>>, <<>>, W)
<1>1. <<>> \in Seq(Replies(c)) /\ <<>> \in Rows
    BY EmptySeq DEF Rows
<1>2. ASSUME NEW h \in RowState
      PROVE  h.got = [h.got EXCEPT ![c] = @ \o <<>>]
  <2>1. h.got \in [Nat -> Rows] /\ h.got[c] \in Seq(Seq(Value))
    BY DEF RowState, Rows
  <2>2. h.got[c] \o <<>> = h.got[c]
    BY <2>1, ConcatEmptySeq
  <2> QED
    BY <2>1, <2>2
<1> QED
    BY <1>1, <1>2, PathNone DEF Delivers

LEMMA DeliversConcat ==
    ASSUME NEW c \in Nat, NEW q, NEW r, NEW u, NEW w, NEW W,
           Delivers(c, q, r, W), Delivers(c, u, w, W)
    PROVE  Delivers(c, q \o u, r \o w, W)
<1>1. /\ q \in Seq(Replies(c)) /\ r \in Rows /\ u \in Seq(Replies(c)) /\ w \in Rows
      /\ q \o u \in Seq(Replies(c)) /\ r \o w \in Rows
    BY ConcatProperties DEF Delivers, Rows
<1>2. ASSUME NEW h \in RowState, c \notin h.fin
      PROVE  \E e \in RowState : /\ Path(RowStep(W), q \o u, h, e) /\ e.fin = h.fin
                                 /\ e.got = [h.got EXCEPT ![c] = @ \o (r \o w)]
  <2>1. PICK d \in RowState : /\ Path(RowStep(W), q, h, d) /\ d.fin = h.fin
                              /\ d.got = [h.got EXCEPT ![c] = @ \o r]
    BY <1>2 DEF Delivers
  <2>2. PICK e \in RowState : /\ Path(RowStep(W), u, d, e) /\ e.fin = d.fin
                              /\ e.got = [d.got EXCEPT ![c] = @ \o w]
    BY <1>2, <2>1 DEF Delivers
  <2>3. Path(RowStep(W), q \o u, h, e)
    BY <1>1, <2>1, <2>2, PathConcat
  <2>4. h.got \in [Nat -> Rows] /\ h.got[c] \in Rows
    BY DEF RowState
  <2>5. (h.got[c] \o r) \o w = h.got[c] \o (r \o w)
    <3> DEFINE x == h.got[c]
               M == Seq(Value)
    <3>1. x \in Seq(M) /\ r \in Seq(M) /\ w \in Seq(M)
        BY <1>1, <2>4 DEF Rows
    <3> HIDE DEF x, M
    <3>2. (x \o r) \o w = x \o (r \o w)
        BY <3>1, ConcatAssociative
    <3> QED
        BY <3>2 DEF x
  <2>6. e.got = [h.got EXCEPT ![c] = @ \o (r \o w)]
    BY <2>1, <2>2, <2>4, <2>5
  <2> QED
    BY <2>1, <2>2, <2>3, <2>6
<1> QED
    BY <1>1, <1>2 DEF Delivers

LEMMA DeliversFlattened ==
    ASSUME NEW c \in Nat, NEW n \in Nat, NEW s \in [1 .. n -> Seq(Replies(c))],
           NEW t \in [1 .. n -> Rows], NEW W, \A i \in 1 .. n : Delivers(c, s[i], t[i], W)
    PROVE  Delivers(c, FlattenSeq(s), FlattenSeq(t), W)
<1> DEFINE R == Replies(c)
           M == Seq(Value)
<1>1. s \in Seq(Seq(R)) /\ Len(s) = n /\ t \in Seq(Seq(M)) /\ Len(t) = n
    BY FunctionIsSeq DEF Rows
<1>2. CASE n = 0
  <2>1. s = <<>> /\ t = <<>>
    BY <1>1, <1>2, EmptySeq
  <2>2. FlattenSeq(s) = s /\ FlattenSeq(t) = t
    BY <1>1, <1>2 DEF FlattenSeq
  <2> QED
    BY <2>1, <2>2, DeliversNone
<1>3. CASE n # 0
  <2> HIDE DEF R, M
  <2>1. PICK f \in [1 .. n -> Seq(R)] :
            /\ f[1] = s[1] /\ \A i \in 2 .. n : f[i] = f[i - 1] \o s[i]
            /\ FlattenSeq(s) = f[n]
    <3>1. \E f \in [1 .. Len(s) -> Seq(R)] :
            /\ f[1] = s[1] /\ \A i \in 2 .. Len(s) : f[i] = f[i - 1] \o s[i]
            /\ FlattenSeq(s) = f[Len(s)]
        BY <1>1, <1>3, Flattening
    <3> QED
        BY <1>1, <3>1
  <2>2. PICK g \in [1 .. n -> Seq(M)] :
            /\ g[1] = t[1] /\ \A i \in 2 .. n : g[i] = g[i - 1] \o t[i]
            /\ FlattenSeq(t) = g[n]
    <3>1. \E g \in [1 .. Len(t) -> Seq(M)] :
            /\ g[1] = t[1] /\ \A i \in 2 .. Len(t) : g[i] = g[i - 1] \o t[i]
            /\ FlattenSeq(t) = g[Len(t)]
        BY <1>1, <1>3, Flattening
    <3> QED
        BY <1>1, <3>1
  <2> DEFINE B == {i \in 1 .. n : ~Delivers(c, f[i], g[i], W)}
  <2>3. ASSUME NEW i \in B
        PROVE  i - 1 \in B
    <3>1. i \in 1 .. n /\ ~Delivers(c, f[i], g[i], W)
        BY <2>3
    <3>2. i # 1 /\ 1 \in 1 .. n
        BY <1>3, <2>1, <2>2, <3>1
    <3>3. i \in 2 .. n /\ i - 1 \in 1 .. n
        BY <3>1, <3>2
    <3>4. f[i] = f[i - 1] \o s[i] /\ g[i] = g[i - 1] \o t[i] /\ Delivers(c, s[i], t[i], W)
        BY <2>1, <2>2, <3>1, <3>3
    <3>5. ~Delivers(c, f[i - 1], g[i - 1], W)
        BY <3>1, <3>4, DeliversConcat
    <3> QED
        BY <3>3, <3>5
  <2>4. B = {}
    <3>1. B \in SUBSET (1 .. n)
        OBVIOUS
    <3> HIDE DEF B
    <3> QED
        BY <2>3, <3>1, NoneBad
  <2>5. n \in 1 .. n
    BY <1>3
  <2> QED
    BY <2>1, <2>2, <2>4, <2>5
<1> QED
    BY <1>2, <1>3

LEMMA RowNext ==
    ASSUME NEW h \in RowState, NEW m \in AllReplies, NEW W, InTurn(h, m, W)
    PROVE  <<h, m, Rowed(h, m)>> \in RowStep(W) /\ Rowed(h, m) \in RowState
BY RowSteps, RowedType

LEMMA RowedFields ==
    ASSUME NEW h \in RowState, NEW m \in AllReplies
    PROVE  LET e == Rowed(h, m) IN
           /\ m.id = "idRowsetHeader" /\ m.n = 0 =>
                 /\ e.index = m.c /\ e.v = <<>> /\ e.b = <<>> /\ e.fin = h.fin
                 /\ e.got = Handed(h, m.c, <<>>)
           /\ m.id = "idBeginRows" \/ (m.id = "idRowsetHeader" /\ m.n # 0) =>
                 /\ e.index = m.c /\ e.v = <<>> /\ e.b = <<>> /\ e.fin = h.fin
                 /\ e.got = h.got
           /\ m.id = "idTransferring" =>
                 /\ e.index = h.index /\ e.v = h.v \o m.vals /\ e.b = h.b
                 /\ e.fin = h.fin /\ e.got = h.got
           /\ m.id = "idStartBLOB" =>
                 /\ e.index = h.index /\ e.v = h.v /\ e.b = m.vals
                 /\ e.fin = h.fin /\ e.got = h.got
           /\ m.id = "idEndBLOB" =>
                 /\ e.index = h.index /\ e.v = h.v \o h.b /\ e.b = <<>>
                 /\ e.fin = h.fin /\ e.got = h.got
           /\ m.id = "idEndRows" =>
                 /\ e.index = h.index /\ e.v = <<>> /\ e.b = h.b /\ e.fin = h.fin
                 /\ e.got = Handed(h, m.c, h.v \o m.vals)
           /\ m.id = "idOutputParameter" =>
                 /\ e.index = h.index /\ e.v = <<>> /\ e.b = h.b
                 /\ e.fin = h.fin /\ e.got = h.got
           /\ m.id = "result" =>
                 /\ e.index = h.index /\ e.v = h.v /\ e.b = h.b
                 /\ e.fin = h.fin \union {m.c} /\ e.got = h.got
           /\ m.id \in {"idChunk", "idCallReturn", "idParameterPosition",
                        "idSqlBatchHeader", "exception"} => e = h
<1>1. CASE m.id = "idRowsetHeader" /\ m.n = 0
    BY <1>1 DEF Rowed, RowState
<1>2. CASE m.id = "idBeginRows" \/ (m.id = "idRowsetHeader" /\ m.n # 0)
    BY <1>2 DEF Rowed, RowState
<1>3. CASE m.id = "idEndRows"
    BY <1>3 DEF Rowed, RowState
<1>4. CASE m.id \notin {"idRowsetHeader", "idBeginRows", "idEndRows"}
    BY <1>4 DEF Rowed, RowState
<1> QED
    BY <1>1, <1>2, <1>3, <1>4

(* States with the same parts are equal.                                   *)
LEMMA RowEqual ==
    ASSUME NEW h \in RowState, NEW e \in RowState, h.index = e.index, h.v = e.v,
           h.b = e.b, h.fin = e.fin, h.got = e.got
    PROVE  h = e
BY DEF RowState

LEMMA OneMore ==
    ASSUME NEW M, NEW x \in M, NEW y \in M, NEW z \in M
    PROVE  Append(<<x>>, y) = <<x, y>> /\ Append(<<x, y>>, z) = <<x, y, z>>
<1> DEFINE p == <<x>>
           r == <<x, y>>
           s == <<x, y, z>>
<1>1. p \in Seq(M) /\ Len(p) = 1 /\ p[1] = x
    OBVIOUS
<1>2. r \in Seq(M) /\ Len(r) = 2 /\ r[1] = x /\ r[2] = y
    OBVIOUS
<1>3. s \in Seq(M) /\ Len(s) = 3 /\ s[1] = x /\ s[2] = y /\ s[3] = z
    OBVIOUS
<1> HIDE DEF p, r, s
<1>4. /\ Append(p, y) \in Seq(M) /\ Len(Append(p, y)) = 2
      /\ \A i \in 1 .. 2 : Append(p, y)[i] = r[i]
  <2>1. /\ Append(p, y) \in Seq(M) /\ Len(Append(p, y)) = Len(p) + 1
        /\ Append(p, y)[Len(p) + 1] = y
        /\ \A i \in 1 .. Len(p) : Append(p, y)[i] = p[i]
    <3>1. p \in Seq(M)
        BY <1>1
    <3> QED
        BY <3>1, Appended
  <2>2. Len(p) = 1 /\ 1 + 1 = 2 /\ \A i \in 1 .. 2 : i = 1 \/ i = 2
    BY <1>1
  <2>3. 1 \in 1 .. 1
    OBVIOUS
  <2> QED
    BY <1>1, <1>2, <2>1, <2>2, <2>3
<1>5. /\ Append(r, z) \in Seq(M) /\ Len(Append(r, z)) = 3
      /\ \A i \in 1 .. 3 : Append(r, z)[i] = s[i]
  <2>1. /\ Append(r, z) \in Seq(M) /\ Len(Append(r, z)) = 3 /\ Append(r, z)[3] = z
        /\ \A i \in 1 .. 2 : Append(r, z)[i] = r[i]
    <3>1. /\ Append(r, z) \in Seq(M) /\ Len(Append(r, z)) = Len(r) + 1
          /\ Append(r, z)[Len(r) + 1] = z
          /\ \A i \in 1 .. Len(r) : Append(r, z)[i] = r[i]
      <4>1. r \in Seq(M)
        BY <1>2
      <4> QED
        BY <4>1, Appended
    <3>2. Len(r) = 2 /\ 2 + 1 = 3
        BY <1>2
    <3> QED
        BY <3>1, <3>2
  <2>2. \A i \in 1 .. 3 : i = 3 \/ i = 1 \/ i = 2
    OBVIOUS
  <2>3. 1 \in 1 .. 2 /\ 2 \in 1 .. 2
    OBVIOUS
  <2> QED
    BY <1>2, <1>3, <2>1, <2>2, <2>3
<1>6. Append(p, y) = r
    BY <1>2, <1>4, SeqEqual
<1>7. Append(r, z) = s
    BY <1>3, <1>5, SeqEqual
<1> QED
    BY <1>6, <1>7 DEF p, r, s

LEMMA ThreeValues ==
    ASSUME NEW M, NEW x \in M, NEW y \in M, NEW z \in M
    PROVE  ((<<>> \o <<x>>) \o <<y>>) \o <<z>> = <<x, y, z>>
<1> DEFINE p == <<x>>
           r == <<x, y>>
<1>1. p \in Seq(M) /\ r \in Seq(M)
    OBVIOUS
<1>2. r = Append(p, y) /\ <<x, y, z>> = Append(r, z)
    BY OneMore
<1> HIDE DEF r
<1>3. r = p \o <<y>> /\ <<x, y, z>> = r \o <<z>>
    BY <1>1, <1>2, AppendIsConcat
<1>4. <<>> \o p = p
  <2> HIDE DEF p
  <2> QED
    BY <1>1, ConcatEmptySeq
<1> QED
    BY <1>3, <1>4

LEMMA TwoMore ==
    ASSUME NEW M, NEW x \in Seq(M), NEW o \in M, NEW w \in M
    PROVE  Append(Append(x, o), w) = x \o <<o, w>>
<1> DEFINE p == <<o>>
           r == <<o, w>>
<1>1. p \in Seq(M) /\ r = Append(p, w) /\ Append(x, o) = x \o p
    BY OneMore, AppendIsConcat
<1> HIDE DEF p, r
<1>2. x \o r = Append(x \o p, w)
    BY <1>1, ConcatAppend
<1> QED
    BY <1>1, <1>2 DEF r

----------------------------------------------------------------------------
(* A rowset, answer by answer.                                             *)

LEMMA RowedHeader ==
    ASSUME NEW h \in RowState, NEW m \in AllReplies, m.id = "idRowsetHeader", m.n = 0
    PROVE  Rowed(h, m).fin = h.fin /\ Rowed(h, m).got = Handed(h, m.c, <<>>)
BY RowedFields

LEMMA RowedValues ==
    ASSUME NEW h \in RowState, NEW m \in AllReplies, m.id = "idTransferring"
    PROVE  /\ Rowed(h, m).fin = h.fin /\ Rowed(h, m).got = h.got
           /\ Rowed(h, m).index = h.index /\ Rowed(h, m).v = h.v \o m.vals
BY RowedFields

LEMMA RowedLarge ==
    ASSUME NEW h \in RowState, NEW m \in AllReplies, m.id = "idEndBLOB"
    PROVE  /\ Rowed(h, m).fin = h.fin /\ Rowed(h, m).got = h.got
           /\ Rowed(h, m).index = h.index /\ Rowed(h, m).v = h.v \o h.b
BY RowedFields

LEMMA RowedEnd ==
    ASSUME NEW h \in RowState, NEW m \in AllReplies, m.id = "idEndRows"
    PROVE  /\ Rowed(h, m).fin = h.fin
           /\ Rowed(h, m).got = Handed(h, m.c, h.v \o m.vals)
BY RowedFields

(* A rowset, and what is sent with outputs.                                *)
LEMMA RowsetDelivers ==
    ASSUME NEW c \in Nat, NEW i \in Nat, NEW j \in Nat, NEW W
    PROVE  Delivers(c, Rowset(c, i, j),
               << <<>>, << <<c, i, j, -1>>, <<c, i, j, -2>>, <<c, i, j, -3>> >> >>, W)
<1> DEFINE v1 == <<c, i, j, -1>>
           v2 == <<c, i, j, -2>>
           v3 == <<c, i, j, -3>>
           r == << <<>>, <<v1, v2, v3>> >>
           q == Rowset(c, i, j)
<1>1. v1 \in Value /\ v2 \in Value /\ v3 \in Value
    BY DEF Value
<1>2. q \in Seq(Replies(c)) /\ Replies(c) \subseteq AllReplies
    BY RowsetType DEF Replies, AllReplies
<1> DEFINE m1 == Msg("idRowsetHeader", c, 0, 0, <<>>)
           m2 == Msg("idBeginRows", c, 0, 0, <<>>)
           m3 == Msg("idTransferring", c, 0, 0, <<v1>>)
           m4 == Msg("idStartBLOB", c, 0, 0, <<v2>>)
           m5 == Msg("idChunk", c, 0, 0, <<>>)
           m6 == Msg("idEndBLOB", c, 0, 0, <<>>)
           m7 == Msg("idEndRows", c, 0, 0, <<v3>>)
<1>3. /\ m1.id = "idRowsetHeader" /\ m1.n = 0 /\ m2.id = "idBeginRows"
      /\ m3.id = "idTransferring" /\ m3.vals = <<v1>>
      /\ m4.id = "idStartBLOB" /\ m4.vals = <<v2>> /\ m5.id = "idChunk"
      /\ m6.id = "idEndBLOB" /\ m7.id = "idEndRows" /\ m7.vals = <<v3>>
    BY DEF Msg
<1>4. q = <<m1, m2, m3, m4, m5, m6, m7>>
    BY DEF Rowset
<1> HIDE DEF v1, v2, v3, q, m1, m2, m3, m4, m5, m6, m7
<1>8. /\ Len(q) = 7 /\ q[1] = m1 /\ q[2] = m2 /\ q[3] = m3 /\ q[4] = m4
      /\ q[5] = m5 /\ q[6] = m6 /\ q[7] = m7
    BY <1>4
<1>9. \A m \in Replies(c) : m \in AllReplies /\ m.c = c
    BY DEF Replies, AllReplies
<1>10. /\ m1 \in Replies(c) /\ m2 \in Replies(c) /\ m3 \in Replies(c) /\ m4 \in Replies(c)
       /\ m5 \in Replies(c) /\ m6 \in Replies(c) /\ m7 \in Replies(c)
  <2>1. \A k \in 1 .. 7 : q[k] \in Replies(c)
    BY <1>2, <1>8, ElementOfSeq
  <2> QED
    BY <1>8, <2>1
<1>11. /\ m1 \in AllReplies /\ m1.c = c /\ m2 \in AllReplies /\ m2.c = c
       /\ m3 \in AllReplies /\ m3.c = c /\ m4 \in AllReplies /\ m4.c = c
       /\ m5 \in AllReplies /\ m5.c = c /\ m6 \in AllReplies /\ m6.c = c
       /\ m7 \in AllReplies /\ m7.c = c
    BY <1>9, <1>10
<1>5. r \in Rows
  <2>1. <<>> \in Seq(Value) /\ <<v1, v2, v3>> \in Seq(Value)
    BY <1>1
  <2> QED
    BY <2>1 DEF Rows
<1>6. ASSUME NEW h \in RowState, c \notin h.fin
      PROVE  \E e \in RowState : /\ Path(RowStep(W), q, h, e) /\ e.fin = h.fin
                                 /\ e.got = [h.got EXCEPT ![c] = @ \o r]
  <2> DEFINE h1 == Rowed(h, m1)
             h2 == Rowed(h1, m2)
             h3 == Rowed(h2, m3)
             h4 == Rowed(h3, m4)
             h5 == Rowed(h4, m5)
             h6 == Rowed(h5, m6)
             h7 == Rowed(h6, m7)
             f == Handed(h, c, <<>>)
  <2>0. h.fin \in SUBSET Nat /\ h.got \in [Nat -> Rows] /\ h.got[c] \in Seq(Seq(Value))
    BY DEF RowState, Rows
  <2>1. InTurn(h, m1, W)
    BY <1>3, <1>6, <1>11, <1>6 DEF InTurn, Indexed
  <2>2. <<h, m1, h1>> \in RowStep(W) /\ h1 \in RowState
    BY <1>11, <1>6, <2>1, RowNext
  <2>3. h1.fin = h.fin /\ h1.got = f
    BY <1>3, <1>11, RowedHeader
  <2> HIDE DEF h1
  <2>4. InTurn(h1, m2, W)
    BY <1>3, <1>6, <1>11, <2>2, <2>3 DEF InTurn, Indexed
  <2>5. <<h1, m2, h2>> \in RowStep(W) /\ h2 \in RowState
    BY <1>11, <2>2, <2>3, <2>4, RowNext
  <2>6. h2.fin = h.fin /\ h2.got = f /\ h2.index = c /\ h2.v = <<>>
    BY <1>3, <1>11, <2>2, <2>3, RowedFields
  <2> HIDE DEF h2
  <2>7. InTurn(h2, m3, W)
    BY <1>3, <1>6, <1>11, <2>5, <2>6 DEF InTurn, Indexed
  <2>8. <<h2, m3, h3>> \in RowStep(W) /\ h3 \in RowState
    BY <1>11, <2>5, <2>6, <2>7, RowNext
  <2>9. h3.fin = h.fin /\ h3.got = f /\ h3.index = c /\ h3.v = <<>> \o <<v1>>
    BY <1>3, <1>11, <2>5, <2>6, RowedValues
  <2> HIDE DEF h3
  <2>10. InTurn(h3, m4, W)
    BY <1>3, <1>6, <1>11, <2>8, <2>9 DEF InTurn, Indexed
  <2>11. <<h3, m4, h4>> \in RowStep(W) /\ h4 \in RowState
    BY <1>11, <2>8, <2>9, <2>10, RowNext
  <2>12. h4.fin = h.fin /\ h4.got = f /\ h4.index = c /\ h4.v = <<>> \o <<v1>> /\ h4.b = <<v2>>
    BY <1>3, <1>11, <2>8, <2>9, RowedFields
  <2> HIDE DEF h4
  <2>13. InTurn(h4, m5, W)
    BY <1>3, <1>6, <1>11, <2>11, <2>12 DEF InTurn, Indexed
  <2>14. <<h4, m5, h5>> \in RowStep(W) /\ h5 \in RowState
    BY <1>11, <2>11, <2>12, <2>13, RowNext
  <2>15. h5.fin = h.fin /\ h5.got = f /\ h5.index = c /\ h5.v = <<>> \o <<v1>> /\ h5.b = <<v2>>
    BY <1>3, <1>11, <2>11, <2>12, RowedFields
  <2> HIDE DEF h5
  <2>16. InTurn(h5, m6, W)
    BY <1>3, <1>6, <1>11, <2>14, <2>15 DEF InTurn, Indexed
  <2>17. <<h5, m6, h6>> \in RowStep(W) /\ h6 \in RowState
    BY <1>11, <2>14, <2>15, <2>16, RowNext
  <2>18. h6.fin = h.fin /\ h6.got = f /\ h6.index = c /\ h6.v = (<<>> \o <<v1>>) \o <<v2>>
    BY <1>3, <1>11, <2>14, <2>15, RowedLarge
  <2> HIDE DEF h6
  <2>30. h6.v \o m7.vals = <<v1, v2, v3>> /\ <<v1, v2, v3>> # <<>>
    <3>1. ((<<>> \o <<v1>>) \o <<v2>>) \o <<v3>> = <<v1, v2, v3>>
        BY <1>1, ThreeValues
    <3> QED
        BY <1>3, <2>18, <3>1
  <2>19. InTurn(h6, m7, W)
    BY <1>3, <1>6, <1>11, <2>17, <2>18, <2>30 DEF InTurn, Indexed
  <2>20. <<h6, m7, h7>> \in RowStep(W) /\ h7 \in RowState
    BY <1>11, <2>17, <2>18, <2>19, RowNext
  <2>21. h7.fin = h.fin /\ h7.got = Handed(h6, c, <<v1, v2, v3>>)
    BY <1>3, <1>11, <2>17, <2>18, <2>30, RowedEnd
  <2>22. h7.got = [f EXCEPT ![c] = Append(@, <<v1, v2, v3>>)]
    BY <2>18, <2>21 DEF Handed
  <2> HIDE DEF h7
  <2>23. h7.got = [h.got EXCEPT ![c] = @ \o r]
    <3> DEFINE w == <<v1, v2, v3>>
               o == <<>>
               x == h.got[c]
               M == Seq(Value)
    <3>1. x \in Seq(M) /\ o \in M /\ w \in M
        BY <1>1, <2>0
    <3>2. f = [h.got EXCEPT ![c] = Append(@, o)]
        BY DEF Handed
    <3>3. h7.got = [f EXCEPT ![c] = Append(@, w)] /\ r = <<o, w>>
        BY <2>22
    <3> HIDE DEF w, o, M
    <3>4. Append(Append(x, o), w) = x \o <<o, w>>
        BY <3>1, TwoMore
    <3> QED
        BY <2>0, <3>2, <3>3, <3>4
  <2> DEFINE g == [k \in 0 .. 7 |-> CASE k = 0 -> h [] k = 1 -> h1 [] k = 2 -> h2
                      [] k = 3 -> h3 [] k = 4 -> h4 [] k = 5 -> h5 [] k = 6 -> h6
                      [] k = 7 -> h7]
  <2>24. /\ g[0] = h /\ g[1] = h1 /\ g[2] = h2 /\ g[3] = h3 /\ g[4] = h4 /\ g[5] = h5
         /\ g[6] = h6 /\ g[7] = h7
    OBVIOUS
  <2> HIDE DEF g
  <2>25. \A k \in 1 .. 7 : <<g[k - 1], q[k], g[k]>> \in RowStep(W)
    <3>1. \A k \in 1 .. 7 : \/ k = 1 \/ k = 2 \/ k = 3 \/ k = 4 \/ k = 5 \/ k = 6 \/ k = 7
        OBVIOUS
    <3>2. /\ 1 - 1 = 0 /\ 2 - 1 = 1 /\ 3 - 1 = 2 /\ 4 - 1 = 3 /\ 5 - 1 = 4
          /\ 6 - 1 = 5 /\ 7 - 1 = 6
        OBVIOUS
    <3> QED
        BY <1>8, <2>2, <2>5, <2>8, <2>11, <2>14, <2>17, <2>20, <2>24, <3>1, <3>2
  <2>26. Path(RowStep(W), q, h, h7)
    BY <1>8, <2>24, <2>25 DEF Path, Walk
  <2> QED
    BY <2>20, <2>21, <2>23, <2>26
<1>7. Delivers(c, q, r, W)
    BY <1>2, <1>5, <1>6 DEF Delivers
<1> QED
    BY <1>7 DEF q, v1, v2, v3

----------------------------------------------------------------------------
(* Answers that hand no rows over.                                         *)

LEMMA SameGot ==
    ASSUME NEW c \in Nat, NEW h \in RowState
    PROVE  h.got = [h.got EXCEPT ![c] = @ \o <<>>]
<1>1. h.got \in [Nat -> Rows] /\ h.got[c] \in Seq(Seq(Value))
    BY DEF RowState, Rows
<1>2. h.got[c] \o <<>> = h.got[c]
    BY <1>1, ConcatEmptySeq
<1> QED
    BY <1>1, <1>2

LEMMA DeliversPlace ==
    ASSUME NEW c \in Nat, NEW W, NEW m \in Replies(c),
           m.id \in {"idParameterPosition", "idSqlBatchHeader"}
    PROVE  Delivers(c, <<m>>, <<>>, W)
<1> DEFINE q == <<m>>
<1>1. q \in Seq(Replies(c)) /\ <<>> \in Rows
    BY OneIsSeq, EmptySeq DEF Rows
<1>2. m \in AllReplies /\ m.c = c
    BY DEF Replies, AllReplies
<1>3. ASSUME NEW h \in RowState, c \notin h.fin
      PROVE  Path(RowStep(W), q, h, h)
  <2>1. InTurn(h, m, W)
    BY <1>2, <1>3 DEF InTurn, Indexed
  <2>2. Rowed(h, m) = h
    BY <1>2, RowedFields
  <2> QED
    BY <1>2, <2>1, <2>2, RowNext, PathOne
<1> HIDE DEF q
<1>4. Delivers(c, q, <<>>, W)
    BY <1>1, <1>3, SameGot DEF Delivers
<1> QED
    BY <1>4 DEF q

(* Outputs are no rows.                                                    *)
LEMMA OutputsDeliver ==
    ASSUME NEW c \in Nat, NEW i \in Nat, NEW j \in Nat, NEW W,
           call[c].stmts[i] \in Statement, call[c].stmts[i].outs > 0
    PROVE  Delivers(c, Outputs(c, i, j), <<>>, W)
<1> DEFINE s == call[c].stmts[i]
           v == <<c, i, j, 0>>
           w == [k \in 1 .. s.outs |-> <<c, i, j, k>>]
           m1 == Msg("idRowsetHeader", c, s.outs, 0, <<>>)
           m2 == Msg("idCallReturn", c, 0, 0, <<v>>)
           m3 == Msg("idOutputParameter", c, 0, 0, w)
           mid == IF s.ret THEN <<m2>> ELSE <<>>
           q == Outputs(c, i, j)
<1>1. s.outs \in Nat \ {0}
    BY DEF Statement
<1> HIDE DEF s
<1>2. v \in Value /\ w \in [1 .. s.outs -> Value]
    BY <1>1 DEF Value
<1> HIDE DEF v, w
<1>3. <<v>> \in Seq(Value) /\ w \in Seq(Value) /\ <<>> \in Seq(Value)
    BY <1>1, <1>2, OneIsSeq, FunctionIsSeq, EmptySeq
<1>4. m1 \in Replies(c) /\ m2 \in Replies(c) /\ m3 \in Replies(c)
    BY <1>1, <1>3 DEF Msg, Replies, AnswerIds
<1>5. q = (<<m1>> \o mid) \o <<m3>>
    BY DEF Outputs, s, v, w
<1>6. /\ m1.id = "idRowsetHeader" /\ m1.n # 0 /\ m2.id = "idCallReturn"
      /\ m3.id = "idOutputParameter"
    BY <1>1 DEF Msg
<1> HIDE DEF m1, m2, m3
<1>7. /\ m1 \in AllReplies /\ m1.c = c /\ m2 \in AllReplies /\ m2.c = c
      /\ m3 \in AllReplies /\ m3.c = c
    BY <1>4 DEF Replies, AllReplies
<1>8. <<m1>> \in Seq(Replies(c)) /\ mid \in Seq(Replies(c)) /\ <<m3>> \in Seq(Replies(c))
    BY <1>4, OneIsSeq, EmptySeq
<1>9. <<m1>> \o mid \in Seq(Replies(c)) /\ q \in Seq(Replies(c)) /\ <<>> \in Rows
    BY <1>5, <1>8, ConcatProperties, EmptySeq DEF Rows
<1> HIDE DEF q
<1>10. ASSUME NEW h \in RowState, c \notin h.fin
       PROVE  \E e \in RowState : /\ Path(RowStep(W), q, h, e) /\ e.fin = h.fin
                                  /\ e.got = [h.got EXCEPT ![c] = @ \o <<>>]
  <2> DEFINE h1 == Rowed(h, m1)
             h3 == Rowed(h1, m3)
  <2>1. InTurn(h, m1, W)
    BY <1>6, <1>7, <1>10 DEF InTurn, Indexed
  <2>2. <<h, m1, h1>> \in RowStep(W) /\ h1 \in RowState
    BY <1>7, <2>1, RowNext
  <2>3. h1.index = c /\ h1.v = <<>> /\ h1.fin = h.fin /\ h1.got = h.got
    BY <1>6, <1>7, RowedFields
  <2> HIDE DEF h1
  <2>4. InTurn(h1, m2, W)
    BY <1>6, <1>7, <1>10, <2>3 DEF InTurn, Indexed
  <2>5. Rowed(h1, m2) = h1
    BY <1>6, <1>7, <2>2, RowedFields
  <2>6. <<h1, m2, h1>> \in RowStep(W)
    BY <1>7, <2>2, <2>4, <2>5, RowNext
  <2>7. InTurn(h1, m3, W)
    BY <1>6, <1>7, <1>10, <2>3 DEF InTurn, Indexed
  <2>8. <<h1, m3, h3>> \in RowStep(W) /\ h3 \in RowState
    BY <1>7, <2>2, <2>7, RowNext
  <2>9. h3.fin = h.fin /\ h3.got = h.got
    BY <1>6, <1>7, <2>2, <2>3, RowedFields
  <2> HIDE DEF h3
  <2>10. Path(RowStep(W), <<m1>>, h, h1) /\ Path(RowStep(W), <<m3>>, h1, h3)
    BY <2>2, <2>8, PathOne
  <2>11. Path(RowStep(W), mid, h1, h1)
    BY <2>6, PathOne, PathNone
  <2> HIDE DEF mid
  <2>12. Path(RowStep(W), <<m1>> \o mid, h, h1)
    BY <1>8, <2>10, <2>11, PathConcat
  <2>13. Path(RowStep(W), (<<m1>> \o mid) \o <<m3>>, h, h3)
    BY <1>8, <1>9, <2>10, <2>12, PathConcat
  <2>14. h3.got = [h.got EXCEPT ![c] = @ \o <<>>]
    BY <2>9, SameGot
  <2> QED
    BY <1>5, <2>8, <2>9, <2>13, <2>14
<1>11. Delivers(c, q, <<>>, W)
    BY <1>9, <1>10 DEF Delivers
<1> QED
    BY <1>11 DEF q

LEMMA FlattenNone ==
    ASSUME NEW n \in Nat
    PROVE  FlattenSeq([j \in 1 .. n |-> <<>>]) = <<>>
<1> DEFINE o == <<>>
           t == [j \in 1 .. n |-> o]
           M == Seq(Value)
<1>0. o \in Seq(M)
    BY EmptySeq
<1>1. t \in [1 .. n -> Seq(M)]
    BY <1>0
<1>2. t \in Seq(Seq(M)) /\ Len(t) = n
    BY <1>1, FunctionIsSeq
<1>3. CASE n = 0
  <2>1. t = <<>> /\ FlattenSeq(t) = t
    BY <1>2, <1>3, EmptySeq DEF FlattenSeq
  <2> QED
    BY <2>1
<1>4. CASE n # 0
  <2>1. \A i \in 1 .. n : t[i] = o
    OBVIOUS
  <2> HIDE DEF t, M
  <2>2. PICK f \in [1 .. n -> Seq(M)] :
            /\ f[1] = t[1] /\ \A i \in 2 .. n : f[i] = f[i - 1] \o t[i]
            /\ FlattenSeq(t) = f[n]
    <3>1. \E f \in [1 .. Len(t) -> Seq(M)] :
            /\ f[1] = t[1] /\ \A i \in 2 .. Len(t) : f[i] = f[i - 1] \o t[i]
            /\ FlattenSeq(t) = f[Len(t)]
        BY <1>2, <1>4, Flattening
    <3> QED
        BY <1>2, <3>1
  <2> HIDE DEF o
  <2>3. o \o o = o
    BY <1>0, ConcatEmptySeq DEF o
  <2> DEFINE B == {i \in 1 .. n : f[i] # o}
  <2>4. ASSUME NEW i \in B
        PROVE  i - 1 \in B
    <3>1. i \in 1 .. n /\ f[i] # o /\ i # 1
        BY <1>4, <2>1, <2>2
    <3>2. i \in 2 .. n /\ i - 1 \in 1 .. n
        BY <3>1
    <3>3. f[i] = f[i - 1] \o o
        BY <2>1, <2>2, <3>1, <3>2
    <3>4. f[i - 1] # o
        BY <2>3, <3>1, <3>3
    <3> QED
        BY <3>2, <3>4
  <2>5. B = {}
    <3>1. B \in SUBSET (1 .. n)
        OBVIOUS
    <3> HIDE DEF B
    <3> QED
        BY <2>4, <3>1, NoneBad
  <2>6. n \in 1 .. n
    BY <1>4
  <2>7. FlattenSeq(t) = o
    BY <2>2, <2>5, <2>6
  <2> QED
    BY <2>7 DEF t, o
<1> QED
    BY <1>3, <1>4

----------------------------------------------------------------------------
(* The answers to a statement and to a call hand over the rowsets of the   *)
(* statement and of the call.                                              *)

(* The rowsets of a statement, and of a call.                              *)
RowsetRows(c, i, j) ==
    << <<>>, << <<c, i, j, -1>>, <<c, i, j, -2>>, <<c, i, j, -3>> >> >>
StatementRows(c, i) ==
    LET s == call[c].stmts
        sets == IF s[i].params = 0 THEN 1 ELSE Sets(c)
    IN  IF s[i].rows THEN FlattenSeq([j \in 1 .. sets |-> RowsetRows(c, i, j)])
        ELSE <<>>
RowsOf(c) == FlattenSeq([i \in 1 .. Len(call[c].stmts) |-> StatementRows(c, i)])

LEMMA CallNumbers ==
    ASSUME NEW c \in Nat, call[c].stmts \in Seq(Statement), call[c].vParam \in Seq(Nat)
    PROVE  /\ Width(c) \in Nat /\ Sets(c) \in Nat
           /\ \A i \in 1 .. Len(call[c].stmts) : Offset(c, i) \in Nat
<1> DEFINE stmts == call[c].stmts
           N == Len(stmts)
<1>1. /\ N \in Nat /\ Width(c) \in Nat /\ Len(call[c].vParam) \in Nat
      /\ \A i \in 1 .. N : stmts[i] \in Statement
    BY SumType, LenProperties, ElementOfSeq DEF Width
<1>2. Sets(c) \in Nat
  <2>1. CASE Width(c) = 0
    BY <2>1 DEF Sets
  <2>2. CASE Width(c) # 0
    <3> DEFINE w == Width(c)
               l == Len(call[c].vParam)
    <3>1. w \in Nat /\ w > 0 /\ l \in Nat /\ Sets(c) = l \div w
        BY <1>1, <2>2 DEF Sets
    <3> HIDE DEF w, l
    <3> QED
        BY <3>1, SMTT(40)
  <2> QED
    BY <2>1, <2>2
<1>3. ASSUME NEW i \in 1 .. N
      PROVE  Offset(c, i) \in Nat
  <2>1. \A k \in 1 .. i - 1 : stmts[k] \in Statement
    BY <1>1
  <2>2. SubSeq(stmts, 1, i - 1) \in Seq(Statement)
    BY <1>1, <2>1, SubSeqProperties
  <2> QED
    BY <2>2, SumType DEF Offset
<1> QED
    BY <1>1, <1>2, <1>3

LEMMA StatementDelivers ==
    ASSUME NEW c \in Nat, NEW W, call[c].stmts \in Seq(Statement),
           call[c].vParam \in Seq(Nat), NEW i \in 1 .. Len(call[c].stmts)
    PROVE  Delivers(c, StatementAnswers(c, i), StatementRows(c, i), W)
<1> DEFINE R == Replies(c)
           s == call[c].stmts[i]
           sets == IF s.params = 0 THEN 1 ELSE Sets(c)
           X(j) == IF s.rows THEN Rowset(c, i, j) ELSE <<>>
           Y(j) == IF s.outs > 0 THEN Outputs(c, i, j) ELSE <<>>
           Z(j) == IF s.rows THEN RowsetRows(c, i, j) ELSE <<>>
           place == Msg("idParameterPosition", c, Offset(c, i), s.params, <<>>)
           pos == IF call[c].kind = "idExecuteBatch" /\ s.params > 0
                  THEN <<place>> ELSE <<>>
           rest == [j \in 1 .. sets |-> X(j) \o Y(j)]
           rows == [j \in 1 .. sets |-> Z(j)]
<1>1. /\ s \in Statement /\ s.params \in Nat /\ sets \in Nat /\ i \in Nat
      /\ Offset(c, i) \in Nat
  <2>1. s \in Statement /\ i \in Nat
    BY ElementOfSeq, LenProperties
  <2>2. s.params \in Nat
    BY <2>1 DEF Statement
  <2> HIDE DEF s
  <2> QED
    BY <2>1, <2>2, CallNumbers
<1>2. <<>> \in Seq(Value) /\ <<>> \in Seq(R) /\ <<>> \in Rows
    BY EmptySeq DEF Rows
<1>3. Delivers(c, pos, <<>>, W)
  <2>1. place \in R /\ place.id = "idParameterPosition"
    BY <1>1, <1>2 DEF Msg, Replies, AnswerIds
  <2> HIDE DEF place
  <2> QED
    BY <2>1, DeliversPlace, DeliversNone
<1>4. ASSUME NEW j \in 1 .. sets
      PROVE  Delivers(c, X(j) \o Y(j), Z(j), W)
  <2>1. j \in Nat
    BY <1>1
  <2>2. Delivers(c, X(j), Z(j), W)
    <3>1. CASE s.rows
        BY <1>1, <2>1, <3>1, RowsetDelivers DEF RowsetRows
    <3>2. CASE ~s.rows
        BY <3>2, DeliversNone
    <3> QED
        BY <3>1, <3>2
  <2>3. Delivers(c, Y(j), <<>>, W)
    <3>1. CASE s.outs > 0
        BY <1>1, <2>1, <3>1, OutputsDeliver
    <3>2. CASE ~(s.outs > 0)
        BY <3>2, DeliversNone
    <3> QED
        BY <3>1, <3>2
  <2> DEFINE x == X(j)
             y == Y(j)
             z == Z(j)
  <2>4. Delivers(c, x, z, W) /\ Delivers(c, y, <<>>, W)
    BY <2>2, <2>3
  <2> HIDE DEF x, y, z
  <2>5. Delivers(c, x \o y, z \o <<>>, W)
    BY <2>4, DeliversConcat
  <2>6. z \o <<>> = z
    BY <2>4, ConcatEmptySeq DEF Delivers, Rows
  <2> QED
    BY <2>5, <2>6 DEF x, y, z
<1>5. /\ rest \in [1 .. sets -> Seq(R)] /\ rows \in [1 .. sets -> Rows]
      /\ \A j \in 1 .. sets : Delivers(c, rest[j], rows[j], W)
  <2> HIDE DEF X, Y, Z, sets, R
  <2>1. \A j \in 1 .. sets : rest[j] = X(j) \o Y(j) /\ rows[j] = Z(j)
    OBVIOUS
  <2>2. \A j \in 1 .. sets : X(j) \o Y(j) \in Seq(R) /\ Z(j) \in Rows
    BY <1>4 DEF Delivers, R
  <2> QED
    BY <1>4, <2>1, <2>2
<1>6. StatementAnswers(c, i) = pos \o FlattenSeq(rest)
    BY DEF StatementAnswers
<1>7. FlattenSeq(rows) = StatementRows(c, i)
  <2>1. CASE s.rows
    BY <2>1 DEF StatementRows
  <2>2. CASE ~s.rows
    <3>1. rows = [j \in 1 .. sets |-> <<>>] /\ StatementRows(c, i) = <<>>
        BY <2>2 DEF StatementRows
    <3> HIDE DEF rows, sets
    <3> QED
        BY <1>1, <3>1, FlattenNone
  <2> QED
    BY <2>1, <2>2
<1> HIDE DEF pos, rest, rows, sets, R
<1>8. Delivers(c, FlattenSeq(rest), FlattenSeq(rows), W)
    BY <1>1, <1>5, DeliversFlattened DEF R
<1> DEFINE a == FlattenSeq(rest)
           b == FlattenSeq(rows)
<1> HIDE DEF a, b
<1>9. Delivers(c, pos \o a, <<>> \o b, W)
    BY <1>3, <1>8, DeliversConcat DEF a, b
<1>10. <<>> \o b = b
    BY <1>8, ConcatEmptySeq DEF Delivers, Rows, b
<1> QED
    BY <1>6, <1>7, <1>9, <1>10 DEF a, b

LEMMA AnswersDeliver ==
    ASSUME NEW c \in Nat, NEW W, call[c].stmts \in Seq(Statement),
           call[c].vParam \in Seq(Nat)
    PROVE  Delivers(c, Answers(c), RowsOf(c), W)
<1> DEFINE R == Replies(c)
           N == Len(call[c].stmts)
           all == [i \in 1 .. N |-> StatementAnswers(c, i)]
           rows == [i \in 1 .. N |-> StatementRows(c, i)]
           head == Msg("idSqlBatchHeader", c, Width(c), 0, <<>>)
           first == IF call[c].kind = "idExecuteBatch" THEN <<head>> ELSE <<>>
<1>1. N \in Nat /\ Width(c) \in Nat
    BY CallNumbers, LenProperties
<1>2. <<>> \in Seq(Value)
    BY EmptySeq
<1>3. Delivers(c, first, <<>>, W)
  <2>1. head \in R /\ head.id = "idSqlBatchHeader"
    BY <1>1, <1>2 DEF Msg, Replies, AnswerIds
  <2> HIDE DEF head
  <2> QED
    BY <2>1, DeliversPlace, DeliversNone
<1>4. /\ all \in [1 .. N -> Seq(R)] /\ rows \in [1 .. N -> Rows]
      /\ \A i \in 1 .. N : Delivers(c, all[i], rows[i], W)
  <2>1. \A i \in 1 .. N : all[i] = StatementAnswers(c, i) /\ rows[i] = StatementRows(c, i)
    OBVIOUS
  <2>2. \A i \in 1 .. N : Delivers(c, StatementAnswers(c, i), StatementRows(c, i), W)
    BY StatementDelivers
  <2>3. \A i \in 1 .. N : StatementAnswers(c, i) \in Seq(R) /\ StatementRows(c, i) \in Rows
    BY <2>2 DEF Delivers
  <2> QED
    BY <2>1, <2>2, <2>3
<1>5. Answers(c) = first \o FlattenSeq(all) /\ RowsOf(c) = FlattenSeq(rows)
    BY DEF Answers, RowsOf
<1> HIDE DEF first, all, rows, N
<1>6. Delivers(c, FlattenSeq(all), FlattenSeq(rows), W)
    BY <1>1, <1>4, DeliversFlattened
<1> DEFINE a == FlattenSeq(all)
           b == FlattenSeq(rows)
<1> HIDE DEF a, b
<1>7. Delivers(c, first \o a, <<>> \o b, W)
    BY <1>3, <1>6, DeliversConcat DEF a, b
<1>8. <<>> \o b = b
    BY <1>6, ConcatEmptySeq DEF Delivers, Rows, b
<1> QED
    BY <1>5, <1>7, <1>8 DEF a, b

----------------------------------------------------------------------------
(* The invariant: the answers under way, from what has been received so    *)
(* far, are in turn, and a call gets its result after its rowsets.         *)

(* What each call is to receive, and what has been received so far.        *)
Wanted == [c \in 1 .. Len(call) |->
              IF call[c].kind \in Executing THEN RowsOf(c) ELSE <<>>]
GotNow == [c \in Nat |-> IF c \in 1 .. Len(call) THEN got[c] ELSE <<>>]
RowNow == [index |-> indexRowset, v |-> vData, b |-> blob, fin |-> Finished,
           got |-> GotNow]

(* The calls that the server has not answered: not made yet, on their way, *)
(* being sent.                                                             *)
Unserved == (Nat \ 1 .. Len(call)) \union {m.c : m \in Asked(up)}
            \union {cur[t] : t \in Sending}

(* A request is for one call.                                              *)
Distinct == \A i, j \in 1 .. Len(up) :
    up[i].id \in Executing \union Simple /\ up[j].id \in Executing \union Simple
    /\ up[i].c = up[j].c => i = j

(* The entries of a call, while it is under way on an open session.        *)
UnderWay == {m.c : m \in Asked(up)} \union Ids(down)
            \union {cur[t] : t \in {u \in Thread : pc[u] = "request"}}
Entered == conn = "up" => \A c \in UnderWay \ Finished :
    call[c].kind \in Executing => c \in mapRowset
Answering == \A m \in Range(down) : m.id \in AnswerIds => call[m.c].kind \in Executing

RowTypes == /\ got \in Seq(Rows) /\ Len(got) = Len(call)
            /\ indexRowset \in Nat /\ vData \in Seq(Value) /\ blob \in Seq(Value)

(* The answers under way are in turn, each call gets its result after its  *)
(* rowsets, and those that the server has still to answer have none yet.   *)
RowsLead == conn = "up" =>
    \E e \in RowState :
        /\ Path(RowStep(Wanted), down, RowNow, e)
        /\ \A c \in Unserved : c \notin e.fin /\ e.got[c] = <<>>
RowsDone == \A c \in Finished : got[c] = Wanted[c]

Rowing == /\ Known /\ Distinct /\ Entered /\ Answering
          /\ RowTypes /\ RowsLead /\ RowsDone

LEMMA RowNowType ==
    ASSUME Good, RowTypes
    PROVE  RowNow \in RowState
<1>1. call \in Seq(Calls) /\ Len(call) \in Nat /\ DOMAIN call = 1 .. Len(call)
    BY LenProperties DEF Good, Types
<1>2. Finished \in SUBSET Nat
    BY <1>1 DEF Finished
<1>3. GotNow \in [Nat -> Rows]
  <2>1. \A c \in 1 .. Len(call) : got[c] \in Rows
    BY ElementOfSeq DEF RowTypes
  <2>2. <<>> \in Rows
    BY EmptySeq DEF Rows
  <2> QED
    BY <2>1, <2>2 DEF GotNow
<1> QED
    BY <1>2, <1>3 DEF RowNow, RowState, RowTypes

(* What a callback of call c receives.                                     *)
LEMMA GotHanded ==
    ASSUME Good, RowTypes, NEW c \in 1 .. Len(call), NEW r \in Seq(Value),
           got' = [got EXCEPT ![c] = Append(@, r)], UNCHANGED call
    PROVE  /\ got' \in Seq(Rows) /\ Len(got') = Len(call')
           /\ GotNow' = Handed(RowNow, c, r)
<1>1. Len(call) \in Nat /\ got \in [1 .. Len(call) -> Rows] /\ c \in Nat
    BY LenProperties DEF Good, Types, RowTypes
<1>2. Append(got[c], r) \in Rows
    BY <1>1, AppendProperties DEF Rows
<1>3. got' \in [1 .. Len(call) -> Rows]
    BY <1>1, <1>2
<1>4. got' \in Seq(Rows) /\ Len(got') = Len(call)
    BY <1>1, <1>3, FunctionIsSeq
<1>5. GotNow' = [GotNow EXCEPT ![c] = Append(@, r)]
  <2> DEFINE f == [GotNow EXCEPT ![c] = Append(@, r)]
  <2>1. f = [d \in Nat |-> IF d = c THEN Append(GotNow[c], r) ELSE GotNow[d]]
    BY <1>1 DEF GotNow
  <2>2. \A d \in Nat : GotNow[d] = IF d \in 1 .. Len(call) THEN got[d] ELSE <<>>
    BY DEF GotNow
  <2>3. \A d \in Nat : GotNow'[d] = IF d \in 1 .. Len(call) THEN got'[d] ELSE <<>>
    BY DEF GotNow
  <2>4. ASSUME NEW d \in Nat
        PROVE  GotNow'[d] = f[d]
    <3>1. CASE d = c
        BY <1>1, <2>1, <2>2, <2>3, <3>1
    <3>2. CASE d # c
        BY <1>1, <2>1, <2>2, <2>3, <3>2
    <3> QED
        BY <3>1, <3>2
  <2>5. GotNow' = [d \in Nat |-> IF d \in 1 .. Len(call) THEN got'[d] ELSE <<>>]
    BY DEF GotNow
  <2>6. DOMAIN f = Nat /\ f = [d \in Nat |-> f[d]]
    BY <2>1
  <2> HIDE DEF f
  <2>7. GotNow' = f
    BY <2>3, <2>4, <2>5, <2>6
  <2> QED
    BY <2>7 DEF f
<1>6. RowNow.got = GotNow
    BY DEF RowNow
<1> QED
    BY <1>4, <1>5, <1>6 DEF Handed

(* What a call is to receive does not change.                              *)
LEMMA RowsOfKept ==
    ASSUME NEW c, call'[c] = call[c]
    PROVE  RowsOf(c)' = RowsOf(c)
<1> DEFINE N == Len(call[c].stmts)
<1>1. Sets(c)' = Sets(c)
    BY DEF Sets, Width
<1>2. ASSUME NEW i
      PROVE  StatementRows(c, i)' = StatementRows(c, i)
  <2> DEFINE s == call[c].stmts
             k == IF s[i].params = 0 THEN 1 ELSE Sets(c)
             a == FlattenSeq([j \in 1 .. k |-> RowsetRows(c, i, j)])
  <2>1. StatementRows(c, i) = IF s[i].rows THEN a ELSE <<>>
    BY DEF StatementRows
  <2>2. s' = s /\ k' = k
    BY <1>1
  <2>3. StatementRows(c, i)' = IF s'[i].rows
            THEN FlattenSeq([j \in 1 .. k' |-> RowsetRows(c, i, j)]) ELSE <<>>
    BY DEF StatementRows
  <2> HIDE DEF s, k
  <2> QED
    BY <2>1, <2>2, <2>3
<1>3. RowsOf(c) = FlattenSeq([i \in 1 .. N |-> StatementRows(c, i)])
    BY DEF RowsOf
<1>4. RowsOf(c)' = FlattenSeq([i \in 1 .. N |-> StatementRows(c, i)'])
    BY DEF RowsOf
<1> HIDE DEF N
<1>5. [i \in 1 .. N |-> StatementRows(c, i)'] = [i \in 1 .. N |-> StatementRows(c, i)]
    BY <1>2
<1> QED
    BY <1>3, <1>4, <1>5

LEMMA WantedKept ==
    ASSUME UNCHANGED call
    PROVE  Wanted' = Wanted
<1>1. \A c \in 1 .. Len(call) : RowsOf(c)' = RowsOf(c)
    BY RowsOfKept
<1>2. Wanted' = [c \in 1 .. Len(call) |->
                    IF call[c].kind \in Executing THEN RowsOf(c)' ELSE <<>>]
    BY DEF Wanted
<1> QED
    BY <1>1, <1>2 DEF Wanted

LEMMA WantedGrows ==
    ASSUME NEW x, NEW o, Grown(x, o), NEW c \in 1 .. Len(call)
    PROVE  Wanted'[c] = Wanted[c]
<1>1. call'[c] = call[c] /\ c \in 1 .. Len(call')
    BY DEF Grown
<1>2. RowsOf(c)' = RowsOf(c)
    BY <1>1, RowsOfKept
<1>3. Wanted'[c] = IF call'[c].kind \in Executing THEN RowsOf(c)' ELSE <<>>
    BY <1>1 DEF Wanted
<1>4. Wanted[c] = IF call[c].kind \in Executing THEN RowsOf(c) ELSE <<>>
    BY DEF Wanted
<1> QED
    BY <1>1, <1>2, <1>3, <1>4

----------------------------------------------------------------------------
(* What the handler does with an answer is what Rowed says.                *)

LEMMA RowNowNext ==
    ASSUME NEW e \in RowState, indexRowset' = e.index, vData' = e.v, blob' = e.b,
           Finished' = e.fin, GotNow' = e.got, got' \in Seq(Rows), Len(got') = Len(call')
    PROVE  RowTypes' /\ RowNow' = e
<1>1. e.index \in Nat /\ e.v \in Seq(Value) /\ e.b \in Seq(Value)
    BY DEF RowState
<1>2. RowTypes'
    BY <1>1 DEF RowTypes
<1>3. RowNow' = [index |-> e.index, v |-> e.v, b |-> e.b, fin |-> e.fin, got |-> e.got]
    BY DEF RowNow
<1>4. e = [index |-> e.index, v |-> e.v, b |-> e.b, fin |-> e.fin, got |-> e.got]
    BY DEF RowState
<1> QED
    BY <1>2, <1>3, <1>4

(* The next answer is in turn, and so are those after it.                  *)
LEMMA NextAnswer ==
    ASSUME Rowing, conn = "up", down # <<>>
    PROVE  /\ Head(down) \in AllReplies /\ Head(down) \in Range(down)
           /\ Head(down).c \in 1 .. Len(call) /\ Head(down).c \notin Finished
           /\ InTurn(RowNow, Head(down), Wanted) /\ RowNow \in RowState
           /\ Rowed(RowNow, Head(down)) \in RowState
           /\ \E e \in RowState :
                 /\ Path(RowStep(Wanted), Tail(down), Rowed(RowNow, Head(down)), e)
                 /\ \A c \in Unserved : c \notin e.fin /\ e.got[c] = <<>>
<1> DEFINE m == Head(down)
<1>1. Good /\ RowTypes /\ down \in Seq(AllReplies)
    BY DEF Rowing, Known, Good, Types
<1>2. m \in AllReplies /\ m \in Range(down)
    BY <1>1, RangeHeadTail
<1>3. m.c \in 1 .. Len(call)
  <2>1. m.c \in Called
    BY <1>2 DEF Called, Ids
  <2> QED
    BY <1>1, <2>1 DEF Good, Pointers, CalledKnown
<1>4. PICK e \in RowState :
          /\ Path(RowStep(Wanted), down, RowNow, e)
          /\ \A c \in Unserved : c \notin e.fin /\ e.got[c] = <<>>
    BY DEF Rowing, RowsLead
<1> HIDE DEF m
<1>5. PICK d : /\ <<RowNow, m, d>> \in RowStep(Wanted)
               /\ Path(RowStep(Wanted), Tail(down), d, e)
  <2> DEFINE R == RowStep(Wanted)
             b == RowNow
  <2>1. Path(R, down, b, e)
    BY <1>4
  <2> HIDE DEF R, b
  <2>2. \E d : <<b, m, d>> \in R /\ Path(R, Tail(down), d, e)
    BY <1>1, <2>1, PathTail DEF m
  <2> QED
    BY <2>2 DEF R, b
<1>6. RowNow \in RowState /\ InTurn(RowNow, m, Wanted) /\ d = Rowed(RowNow, m)
  <2> DEFINE b == RowNow
             W == Wanted
  <2>1. <<b, m, d>> \in RowStep(W)
    BY <1>5
  <2> HIDE DEF b, W
  <2>2. b \in RowState /\ InTurn(b, m, W) /\ d = Rowed(b, m)
    BY <2>1, RowSteps
  <2> QED
    BY <2>2 DEF b, W
<1>7. Rowed(RowNow, m) \in RowState
    BY <1>2, <1>6, RowedType
<1>8. m.c \notin Finished
    BY <1>6 DEF InTurn, RowNow
<1> QED
    BY <1>2, <1>3, <1>4, <1>5, <1>6, <1>7, <1>8 DEF m

(* What each answer does is what Rowed says.                               *)
LEMMA TakeRows ==
    ASSUME Rowing, Take
    PROVE  /\ RowTypes' /\ RowNow' = Rowed(RowNow, Head(down))
           /\ UNCHANGED mapRowset /\ Finished' = Finished
<1> DEFINE m == Head(down)
           e == Rowed(RowNow, m)
<1>1. /\ conn = "up" /\ down # <<>> /\ UNCHANGED <<call, outcome>> /\ m.id \notin Ending
    BY TakeEffect DEF core
<1>2. /\ m \in AllReplies /\ m.c \in 1 .. Len(call) /\ m.c \notin Finished
      /\ InTurn(RowNow, m, Wanted) /\ RowNow \in RowState /\ e \in RowState
      /\ m \in Range(down)
    BY <1>1, NextAnswer
<1>3. m.vals \in Seq(Value) /\ m.c \in Nat
    BY <1>2 DEF AllReplies
<1>4. m.c \in mapRowset
  <2>1. m.id \in AnswerIds
    BY <1>1, <1>2 DEF AllReplies
  <2>2. call[m.c].kind \in Executing /\ m.c \in UnderWay
    BY <1>2, <2>1 DEF Rowing, Answering, UnderWay, Ids
  <2> QED
    BY <1>1, <1>2, <2>2 DEF Rowing, Entered
<1>5. Good /\ RowTypes
    BY DEF Rowing, Known
<1>6. Finished' = Finished
    BY <1>1 DEF Finished
<1>7. /\ RowNow.index = indexRowset /\ RowNow.v = vData /\ RowNow.b = blob
      /\ RowNow.fin = Finished /\ RowNow.got = GotNow
    BY DEF RowNow
<1>8. UNCHANGED mapRowset
    BY DEF Take, OnBatchHeader, OnRowsetHeader, OnTransferring, OnBLOB, OnEndRows,
           OnCallReturn, OnOutputParameter, handlerVars
<1>9. ASSUME UNCHANGED got
      PROVE  GotNow' = GotNow /\ got' \in Seq(Rows) /\ Len(got') = Len(call')
    BY <1>1, <1>5, <1>9 DEF GotNow, RowTypes
<1>10. CASE OnBatchHeader
  <2>1. /\ m.id \in {"idParameterPosition", "idSqlBatchHeader"}
        /\ UNCHANGED <<indexRowset, vData, blob, got>>
    BY <1>10 DEF OnBatchHeader, Arrives
  <2>2. e = RowNow
    BY <1>2, <2>1, RowedFields
  <2> HIDE DEF e
  <2> QED
    BY <1>2, <1>6, <1>7, <1>8, <1>9, <2>1, <2>2, RowNowNext DEF e
<1>11. CASE OnRowsetHeader
  <2>1. /\ m.id \in {"idRowsetHeader", "idBeginRows"} /\ indexRowset' = m.c
        /\ vData' = <<>> /\ blob' = <<>>
        /\ got' = IF m.id = "idRowsetHeader" /\ m.n = 0 /\ m.c \in mapRowset
                  THEN [got EXCEPT ![m.c] = Append(@, <<>>)] ELSE got
    BY <1>11 DEF OnRowsetHeader, Arrives
  <2>2. CASE m.id = "idRowsetHeader" /\ m.n = 0
    <3>1. /\ e.index = m.c /\ e.v = <<>> /\ e.b = <<>> /\ e.fin = Finished
          /\ e.got = Handed(RowNow, m.c, <<>>)
        BY <1>2, <1>7, <2>2, RowedFields
    <3> HIDE DEF e, m
    <3>2. got' = [got EXCEPT ![m.c] = Append(@, <<>>)] /\ <<>> \in Seq(Value)
        BY <1>4, <2>1, <2>2, EmptySeq
    <3>3. /\ got' \in Seq(Rows) /\ Len(got') = Len(call')
          /\ GotNow' = Handed(RowNow, m.c, <<>>)
        BY <1>1, <1>2, <1>5, <3>2, GotHanded
    <3>4. RowTypes' /\ RowNow' = e
        BY <1>2, <1>6, <2>1, <3>1, <3>3, RowNowNext
    <3> QED
        BY <1>6, <1>8, <3>4 DEF e, m
  <2>3. CASE ~(m.id = "idRowsetHeader" /\ m.n = 0)
    <3>1. /\ e.index = m.c /\ e.v = <<>> /\ e.b = <<>> /\ e.fin = Finished
          /\ e.got = GotNow
        BY <1>2, <1>7, <2>1, <2>3, RowedFields
    <3> HIDE DEF e
    <3>2. UNCHANGED got
        BY <2>1, <2>3
    <3>3. RowTypes' /\ RowNow' = e
        BY <1>2, <1>6, <1>9, <2>1, <3>1, <3>2, RowNowNext
    <3> QED
        BY <1>6, <1>8, <3>3 DEF e
  <2> QED
    BY <2>2, <2>3
<1>12. CASE OnTransferring
  <2>1. /\ m.id = "idTransferring" /\ vData' = vData \o m.vals
        /\ UNCHANGED <<indexRowset, blob, got>>
    BY <1>12 DEF OnTransferring, Arrives
  <2>2. /\ e.index = indexRowset /\ e.v = vData \o m.vals /\ e.b = blob
        /\ e.fin = Finished /\ e.got = GotNow
    BY <1>2, <1>7, <2>1, RowedFields
  <2> HIDE DEF e
  <2>3. RowTypes' /\ RowNow' = e
    BY <1>2, <1>6, <1>9, <2>1, <2>2, RowNowNext
  <2> QED
    BY <1>6, <1>8, <2>3 DEF e
<1>13. CASE OnBLOB
  <2>1. /\ m.id \in {"idStartBLOB", "idChunk", "idEndBLOB"}
        /\ vData' = IF m.id = "idEndBLOB" THEN vData \o blob ELSE vData
        /\ blob' = CASE m.id = "idStartBLOB" -> m.vals
                     [] m.id = "idEndBLOB" -> <<>>
                     [] OTHER -> blob
        /\ UNCHANGED <<indexRowset, got>>
    BY <1>13 DEF OnBLOB, Arrives
  <2>2. /\ e.index = indexRowset /\ e.fin = Finished /\ e.got = GotNow
        /\ e.v = IF m.id = "idEndBLOB" THEN vData \o blob ELSE vData
        /\ e.b = CASE m.id = "idStartBLOB" -> m.vals
                   [] m.id = "idEndBLOB" -> <<>>
                   [] OTHER -> blob
    <3>1. CASE m.id = "idStartBLOB"
        BY <1>2, <1>7, <3>1, RowedFields
    <3>2. CASE m.id = "idChunk"
        BY <1>2, <1>7, <3>2, RowedFields
    <3>3. CASE m.id = "idEndBLOB"
        BY <1>2, <1>7, <3>3, RowedFields
    <3> QED
        BY <2>1, <3>1, <3>2, <3>3
  <2> HIDE DEF e
  <2>3. RowTypes' /\ RowNow' = e
    BY <1>2, <1>6, <1>9, <2>1, <2>2, RowNowNext
  <2> QED
    BY <1>6, <1>8, <2>3 DEF e
<1>14. CASE OnEndRows
  <2> DEFINE r == vData \o m.vals
  <2>1. /\ m.id = "idEndRows" /\ vData' = <<>> /\ UNCHANGED <<indexRowset, blob>>
        /\ got' = IF r # <<>> /\ indexRowset \in mapRowset
                  THEN [got EXCEPT ![indexRowset] = Append(@, r)] ELSE got
    BY <1>14 DEF OnEndRows, Arrives
  <2>2. indexRowset = m.c /\ r # <<>>
    BY <1>2, <1>7, <2>1 DEF InTurn, Indexed
  <2>3. /\ e.index = indexRowset /\ e.v = <<>> /\ e.b = blob /\ e.fin = Finished
        /\ e.got = Handed(RowNow, m.c, r)
    BY <1>2, <1>7, <2>1, RowedFields
  <2>4. r \in Seq(Value)
    BY <1>3, <1>5, ConcatProperties DEF RowTypes
  <2> HIDE DEF e, r, m
  <2>5. got' = [got EXCEPT ![m.c] = Append(@, r)]
    BY <1>4, <2>1, <2>2
  <2>6. /\ got' \in Seq(Rows) /\ Len(got') = Len(call')
        /\ GotNow' = Handed(RowNow, m.c, r)
    BY <1>1, <1>2, <1>5, <2>4, <2>5, GotHanded
  <2>7. RowTypes' /\ RowNow' = e
    BY <1>2, <1>6, <2>1, <2>3, <2>6, RowNowNext
  <2> QED
    BY <1>6, <1>8, <2>7 DEF e, m
<1>15. CASE OnCallReturn
  <2>1. m.id = "idCallReturn" /\ UNCHANGED <<indexRowset, vData, blob, got>>
    BY <1>15 DEF OnCallReturn, Arrives, handlerVars
  <2>2. e = RowNow
    BY <1>2, <2>1, RowedFields
  <2> HIDE DEF e
  <2> QED
    BY <1>2, <1>6, <1>7, <1>8, <1>9, <2>1, <2>2, RowNowNext DEF e
<1>16. CASE OnOutputParameter
  <2>1. m.id = "idOutputParameter" /\ vData' = <<>> /\ UNCHANGED <<indexRowset, blob, got>>
    BY <1>16 DEF OnOutputParameter, Arrives
  <2>2. /\ e.index = indexRowset /\ e.v = <<>> /\ e.b = blob
        /\ e.fin = Finished /\ e.got = GotNow
    BY <1>2, <1>7, <2>1, RowedFields
  <2> HIDE DEF e
  <2>3. RowTypes' /\ RowNow' = e
    BY <1>2, <1>6, <1>9, <2>1, <2>2, RowNowNext
  <2> QED
    BY <1>6, <1>8, <2>3 DEF e
<1> QED
    BY <1>10, <1>11, <1>12, <1>13, <1>14, <1>15, <1>16 DEF Take

----------------------------------------------------------------------------
(* What the steps other than those leave as it is.                         *)

(* Requests for different calls.                                           *)
LEMMA DistinctTail ==
    ASSUME up \in Seq(Requests), up # <<>>, Distinct, up' = Tail(up)
    PROVE  Distinct' /\ \A m \in Asked(up)' :
               Head(up).id \in Executing \union Simple => m.c # Head(up).c
<1> DEFINE n == Len(up)
<1>1. /\ n \in Nat \ {0} /\ Len(up') = n - 1 /\ Head(up) = up[1]
      /\ \A i \in 1 .. n - 1 : up'[i] = up[i + 1]
    BY HeadTailProperties, EmptySeq
<1>2. \A i, j \in 1 .. n :
          up[i].id \in Executing \union Simple /\ up[j].id \in Executing \union Simple
          /\ up[i].c = up[j].c => i = j
    BY DEF Distinct
<1>3. up' \in Seq(Requests)
    BY RangeHeadTail
<1>4. Range(up') = {up'[i] : i \in 1 .. Len(up')}
  <2> DEFINE q == up'
  <2>1. q \in Seq(Requests)
    BY <1>3
  <2> HIDE DEF q
  <2>2. Range(q) = {q[i] : i \in 1 .. Len(q)}
    BY <2>1, RangeEquality
  <2> QED
    BY <2>2 DEF q
<1> HIDE DEF n
<1>5. \A i \in 1 .. n - 1 : i + 1 \in 1 .. n /\ i + 1 # 1
    BY <1>1
<1>6. Distinct'
  <2> SUFFICES ASSUME NEW i \in 1 .. n - 1, NEW j \in 1 .. n - 1,
                      up'[i].id \in Executing \union Simple,
                      up'[j].id \in Executing \union Simple, up'[i].c = up'[j].c
               PROVE  i = j
    BY <1>1 DEF Distinct
  <2>1. i + 1 = j + 1
    BY <1>1, <1>2, <1>5
  <2> QED
    BY <1>1, <2>1
<1>7. ASSUME NEW m \in Asked(up)', Head(up).id \in Executing \union Simple
      PROVE  m.c # Head(up).c
  <2>1. PICK i \in 1 .. n - 1 : m = up'[i]
    BY <1>1, <1>4 DEF Asked
  <2>2. m = up[i + 1] /\ i + 1 \in 1 .. n /\ 1 \in 1 .. n /\ i + 1 # 1
    BY <1>1, <1>5, <2>1
  <2>3. m.id \in Executing \union Simple
    BY DEF Asked
  <2> QED
    BY <1>1, <1>2, <1>7, <2>2, <2>3
<1> QED
    BY <1>6, <1>7

LEMMA DistinctAppend ==
    ASSUME up \in Seq(Requests), NEW m \in Requests, up' = Append(up, m), Distinct,
           m.id \in Executing \union Simple => \A x \in Asked(up) : x.c # m.c
    PROVE  Distinct'
<1> DEFINE n == Len(up)
<1>1. /\ n \in Nat /\ Len(up') = n + 1 /\ up'[n + 1] = m
      /\ \A i \in 1 .. n : up'[i] = up[i]
    BY Appended, LenProperties
<1>2. \A i, j \in 1 .. n :
          up[i].id \in Executing \union Simple /\ up[j].id \in Executing \union Simple
          /\ up[i].c = up[j].c => i = j
    BY DEF Distinct
<1>3. Range(up) = {up[i] : i \in 1 .. n}
    BY RangeEquality
<1> HIDE DEF n
<1>4. ASSUME NEW i \in 1 .. n, up[i].id \in Executing \union Simple,
             m.id \in Executing \union Simple
      PROVE  up[i].c # m.c
    BY <1>3, <1>4 DEF Asked
<1>5. \A i \in 1 .. n + 1 : i \in 1 .. n \/ i = n + 1
    BY <1>1
<1>6. ASSUME NEW i \in 1 .. n + 1, NEW j \in 1 .. n + 1,
             up'[i].id \in Executing \union Simple,
             up'[j].id \in Executing \union Simple, up'[i].c = up'[j].c
      PROVE  i = j
  <2>1. CASE i \in 1 .. n /\ j \in 1 .. n
    BY <1>1, <1>2, <1>6, <2>1
  <2>2. CASE i \in 1 .. n /\ j = n + 1
    BY <1>1, <1>4, <1>6, <2>2
  <2>3. CASE i = n + 1 /\ j \in 1 .. n
    BY <1>1, <1>4, <1>6, <2>3
  <2> QED
    BY <1>5, <2>1, <2>2, <2>3
<1> QED
    BY <1>1, <1>6 DEF Distinct

LEMMA DistinctNone ==
    ASSUME up' = <<>>
    PROVE  Distinct'
<1>1. Len(up') = 0 /\ 1 .. 0 = {}
    BY EmptySeq
<1> QED
    BY <1>1 DEF Distinct

LEMMA UnderWayKnown ==
    ASSUME Good
    PROVE  UnderWay \subseteq 1 .. Len(call) /\ Finished \subseteq 1 .. Len(call)
<1>1. DOMAIN call = 1 .. Len(call)
    BY LenProperties DEF Good, Types
<1> QED
    BY <1>1 DEF UnderWay, Finished, Good, Pointers, CalledKnown, Called, SenderOpen, Sending

(* Nothing that the handler receives changes.                              *)
LEMMA SameRows ==
    ASSUME Rowing, Unserved' \subseteq Unserved,
           UNCHANGED <<conn, call, outcome, got, indexRowset, vData, blob, down>>
    PROVE  Answering' /\ RowTypes' /\ RowsLead' /\ RowsDone'
<1>1. Wanted' = Wanted
    BY WantedKept
<1>2. Finished' = Finished /\ GotNow' = GotNow
    BY DEF Finished, GotNow
<1>3. RowNow' = RowNow
    BY <1>2 DEF RowNow
<1>4. Answering' /\ RowTypes' /\ RowsDone'
    BY <1>1, <1>2 DEF Rowing, Answering, RowTypes, RowsDone
<1>5. RowsLead'
    BY <1>1, <1>3 DEF Rowing, RowsLead
<1> QED
    BY <1>4, <1>5

(* The session is closed, and no more results come.                        *)
LEMMA ClosedRows ==
    ASSUME Rowing, conn' # "up", UNCHANGED <<call, got, indexRowset>>,
           Finished' \subseteq Finished, vData' \in Seq(Value), blob' \in Seq(Value),
           Range(down)' \subseteq Range(down)
    PROVE  Entered' /\ Answering' /\ RowTypes' /\ RowsLead' /\ RowsDone'
<1>1. Wanted' = Wanted
    BY WantedKept
<1> QED
    BY <1>1 DEF Rowing, Entered, Answering, RowTypes, RowsLead, RowsDone

(* A new call has received nothing.                                        *)
LEMMA GrownRows ==
    ASSUME Rowing, NEW x, NEW o, Grown(x, o), o # "result", got' = Append(got, <<>>),
           UNCHANGED <<conn, down, indexRowset, vData, blob>>,
           Unserved' \subseteq Unserved
    PROVE  Answering' /\ RowTypes' /\ RowsLead' /\ RowsDone' /\ Finished' = Finished
<1> DEFINE n == Len(call)
<1>1. /\ Good /\ got \in Seq(Rows) /\ Len(got) = n /\ n \in Nat /\ down \in Seq(AllReplies)
      /\ <<>> \in Rows
    BY LenProperties, EmptySeq DEF Rowing, Known, Good, Types, RowTypes, Rows
<1>2. /\ got' \in Seq(Rows) /\ Len(got') = n + 1 /\ got'[n + 1] = <<>>
      /\ \A c \in 1 .. n : got'[c] = got[c]
    BY <1>1, Appended
<1>3. /\ Len(call') = n + 1 /\ DOMAIN call = 1 .. n /\ DOMAIN call' = 1 .. n + 1
      /\ \A c \in 1 .. n : call'[c] = call[c] /\ outcome'[c] = outcome[c]
      /\ outcome'[n + 1] = o
    BY LenProperties DEF Grown, Rowing, Known, Good, Types
<1> HIDE DEF n
<1>4. \A c \in 1 .. n + 1 : c \in 1 .. n \/ c = n + 1
    BY <1>1
<1>5. \A c \in 1 .. n : c \in 1 .. n + 1
    BY <1>1
<1>6. Finished' = Finished
    BY <1>3, <1>4, <1>5 DEF Finished
<1>7. GotNow' = GotNow
  <2>1. \A c \in Nat : (IF c \in 1 .. n + 1 THEN got'[c] ELSE <<>>)
                       = (IF c \in 1 .. n THEN got[c] ELSE <<>>)
    BY <1>2, <1>4, <1>5
  <2> QED
    BY <1>3, <2>1 DEF GotNow, n
<1>8. RowNow' = RowNow
    BY <1>6, <1>7 DEF RowNow
<1>9. RowTypes'
    BY <1>2, <1>3 DEF Rowing, RowTypes
<1>10. \A m \in Range(down) : m.c \in 1 .. n
    BY <1>1 DEF Good, Pointers, CalledKnown, Called, Ids, n
<1>11. Answering'
    BY <1>3, <1>10 DEF Rowing, Answering
<1>12. \A c \in 1 .. n : Wanted'[c] = Wanted[c]
    BY WantedGrows DEF n
<1>13. RowsDone'
    BY <1>1, <1>2, <1>6, <1>12, UnderWayKnown DEF Rowing, RowsDone, n
<1>14. RowsLead'
  <2> SUFFICES ASSUME conn = "up"
               PROVE  \E e \in RowState :
                         /\ Path(RowStep(Wanted'), down, RowNow, e)
                         /\ \A c \in Unserved' : c \notin e.fin /\ e.got[c] = <<>>
    BY <1>8 DEF RowsLead
  <2>1. PICK e \in RowState :
            /\ Path(RowStep(Wanted), down, RowNow, e)
            /\ \A c \in Unserved : c \notin e.fin /\ e.got[c] = <<>>
    BY DEF Rowing, RowsLead
  <2> DEFINE V == Wanted
             W == Wanted'
             R == RowStep(V)
             S == RowStep(W)
             b == RowNow
  <2>2. \A c \in 1 .. n : W[c] = V[c]
    BY <1>12
  <2> HIDE DEF V, W
  <2>3. ASSUME NEW m \in Range(down), NEW y, NEW z, <<y, m, z>> \in R
        PROVE  <<y, m, z>> \in S
    <3>1. y \in RowState /\ m \in AllReplies /\ InTurn(y, m, V) /\ z = Rowed(y, m)
        BY <2>3, RowSteps
    <3>2. W[m.c] = V[m.c]
        BY <1>10, <2>2
    <3>3. InTurn(y, m, W)
        BY <3>1, <3>2 DEF InTurn
    <3> QED
        BY <3>1, <3>3, RowSteps
  <2>4. Path(R, down, b, e)
    BY <2>1 DEF V
  <2> HIDE DEF R, S, b
  <2>5. Path(S, down, b, e)
    BY <1>1, <2>3, <2>4, PathOther
  <2> QED
    BY <2>1, <2>5 DEF S, W, b
<1> QED
    BY <1>6, <1>9, <1>11, <1>13, <1>14

----------------------------------------------------------------------------
(* The threads' steps, and the parameter data that the server receives.    *)

(* Each action keeps what Rowing adds to Known.                            *)
LEMMA SimpleRows ==
    ASSUME Rowing, NEW k \in Simple, NEW stmts \in Seq(Statement), SendSimple(k, stmts)
    PROVE  Distinct' /\ Entered' /\ Answering' /\ RowTypes' /\ RowsLead' /\ RowsDone'
<1> DEFINE x == [kind |-> k, stmts |-> stmts, vParam |-> <<>>]
           c == Len(call')
           m == Msg(k, c, 0, 0, <<>>)
<1>1. /\ call' = Append(call, x) /\ executed' = Append(executed, <<>>)
      /\ got' = Append(got, <<>>)
      /\ \/ /\ conn = "up" /\ up' = Append(up, m) /\ outcome' = Append(outcome, "none")
         \/ conn # "up" /\ outcome' = Append(outcome, "failed") /\ UNCHANGED up
      /\ Sending = {}
      /\ UNCHANGED <<pc, cur, conn, down, indexRowset, vData, blob, mapRowset>>
    BY DEF SendSimple, NewCall, NoneSending, Sending, threadVars, handlerVars
<1>2. x \in Calls /\ x.kind = k
    BY EmptySeq DEF Calls
<1> HIDE DEF x
<1>3. PICK o \in {"none", "failed"} : Grown(x, o)
    BY <1>1, <1>2, CallGrows DEF Rowing, Known, Good, Outcomes
<1>4. c \in Nat /\ m \in Requests /\ m.id = k /\ m.c = c /\ up \in Seq(Requests)
    BY <1>3, SimpleMsg DEF Grown, Rowing, Known, Good, Types
<1>5. c \notin 1 .. Len(call) /\ call'[c] = x /\ 1 .. Len(call) \subseteq 1 .. Len(call')
    BY <1>3 DEF Grown
<1>6. Good
    BY DEF Rowing, Known
<1> HIDE DEF m, c
<1>7. Asked(up)' \subseteq Asked(up) \union {m}
  <2>1. Range(Append(up, m)) = Range(up) \union {m}
    BY <1>4, RangeAppend
  <2>2. Range(up)' \subseteq Range(up) \union {m}
    BY <1>1, <2>1
  <2> QED
    BY <2>2 DEF Asked
<1>8. Unserved' \subseteq Unserved
    BY <1>1, <1>4, <1>5, <1>7 DEF Unserved, Sending
<1>9. Answering' /\ RowTypes' /\ RowsLead' /\ RowsDone' /\ Finished' = Finished
    BY <1>1, <1>3, <1>8, GrownRows
<1>10. Distinct'
  <2>1. \A y \in Asked(up) : y.c # c
    BY <1>5, <1>6 DEF Good, Pointers, CalledKnown, Called
  <2>2. CASE up' = Append(up, m)
    BY <1>4, <2>1, <2>2, DistinctAppend DEF Rowing
  <2>3. CASE UNCHANGED up
    BY <2>3 DEF Rowing, Distinct
  <2> QED
    BY <1>1, <2>2, <2>3
<1>11. Entered'
  <2> SUFFICES ASSUME conn' = "up", NEW d \in UnderWay' \ Finished',
                      call'[d].kind \in Executing
               PROVE  d \in mapRowset'
    BY DEF Entered
  <2>1. UnderWay' \subseteq UnderWay \union {c}
    BY <1>1, <1>4, <1>7 DEF UnderWay, Ids, Sending
  <2>2. d # c
    BY <1>2, <1>5 DEF Executing, Simple
  <2>3. d \in UnderWay \ Finished /\ d \in 1 .. Len(call)
    BY <1>6, <1>9, <2>1, <2>2, UnderWayKnown
  <2>4. call'[d] = call[d]
    BY <1>3, <2>3 DEF Grown
  <2> QED
    BY <1>1, <2>3, <2>4 DEF Rowing, Entered
<1> QED
    BY <1>9, <1>10, <1>11

LEMMA StartRows ==
    ASSUME Rowing, NEW t \in Thread, Sending = {}, NEW k, NEW stmts, NEW v,
           Starts(t, k, stmts, v)
    PROVE  Distinct' /\ Entered' /\ Answering' /\ RowTypes' /\ RowsLead' /\ RowsDone'
<1> DEFINE x == [kind |-> k, stmts |-> stmts, vParam |-> v]
           c == Len(call')
<1>1. /\ Grown(x, "none") /\ pc' = [pc EXCEPT ![t] = "data"]
      /\ cur' = [cur EXCEPT ![t] = c] /\ UNCHANGED <<conn, up, down>>
    BY StartEffect DEF Rowing, Known
<1>2. got' = Append(got, <<>>) /\ UNCHANGED <<indexRowset, vData, blob, mapRowset>>
    BY DEF Starts, Start, NewCall, handlerVars
<1>3. Sending' = {t} /\ cur'[t] = c
    BY StartKeeps DEF Rowing, Known
<1>4. /\ c \in Nat /\ c \notin 1 .. Len(call) /\ 1 .. Len(call) \subseteq 1 .. Len(call')
    BY <1>1 DEF Grown
<1>5. Good /\ pc \in [Thread -> {"idle", "data", "request"}]
    BY DEF Rowing, Known, Good, Types
<1> HIDE DEF c, x
<1>6. Unserved' \subseteq Unserved
    BY <1>1, <1>3, <1>4 DEF Unserved, Asked
<1>7. Answering' /\ RowTypes' /\ RowsLead' /\ RowsDone' /\ Finished' = Finished
    BY <1>1, <1>2, <1>6, GrownRows
<1>8. Distinct'
    BY <1>1 DEF Rowing, Distinct
<1>9. Entered'
  <2> SUFFICES ASSUME conn' = "up", NEW d \in UnderWay' \ Finished',
                      call'[d].kind \in Executing
               PROVE  d \in mapRowset'
    BY DEF Entered
  <2>1. \A u \in Thread : pc'[u] # "request"
    BY <1>1, <1>5 DEF Sending
  <2>2. UnderWay' \subseteq UnderWay
    BY <1>1, <2>1 DEF UnderWay, Ids, Asked
  <2>3. d \in UnderWay \ Finished /\ d \in 1 .. Len(call)
    BY <1>5, <1>7, <2>2, UnderWayKnown
  <2>4. call'[d] = call[d]
    BY <1>1, <2>3 DEF Grown
  <2> QED
    BY <1>1, <1>2, <2>3, <2>4 DEF Rowing, Entered
<1> QED
    BY <1>7, <1>8, <1>9

(* A call that cannot be sent: the session is closed.                      *)
LEMMA FailedRows ==
    ASSUME Rowing, NEW t \in Thread, t \in Sending, conn' # "up",
           outcome' = [outcome EXCEPT ![cur[t]] = "failed"],
           vData' \in Seq(Value), blob' \in Seq(Value),
           UNCHANGED <<call, got, indexRowset, up, down>>
    PROVE  Distinct' /\ Entered' /\ Answering' /\ RowTypes' /\ RowsLead' /\ RowsDone'
<1>1. DOMAIN outcome = 1 .. Len(call) /\ DOMAIN call = 1 .. Len(call)
    BY LenProperties DEF Rowing, Known, Good, Types
<1>2. Finished' \subseteq Finished
    BY <1>1 DEF Finished
<1>3. Distinct'
    BY DEF Rowing, Distinct
<1> QED
    BY <1>2, <1>3, ClosedRows

LEMMA SendDataRows ==
    ASSUME Rowing, NEW t \in Thread, SendData(t)
    PROVE  Distinct' /\ Entered' /\ Answering' /\ RowTypes' /\ RowsLead' /\ RowsDone'
<1>1. Good
    BY DEF Rowing, Known
<1>2. /\ t \in Sending /\ pc[t] = "data" /\ todo[t] # <<>>
      /\ UNCHANGED <<conn, down, call>>
    BY <1>1, SendDataEffect
<1>3. UNCHANGED got
    BY DEF SendData
<1>4. CASE conn = "up"
  <2> DEFINE m == Head(todo[t])
  <2>1. up' = Append(up, m) /\ UNCHANGED <<pc, cur, outcome>>
    BY <1>1, <1>4, SendDataEffect
  <2>2. UNCHANGED <<mapRowset, indexRowset, vData, blob>>
    BY <1>4 DEF SendData, handlerVars
  <2>3. up \in Seq(Requests) /\ todo[t] \in Seq(DataMsgs)
    BY <1>1 DEF Good, Types
  <2>4. m \in DataMsgs
    BY <1>2, <2>3, RangeHeadTail
  <2>5. m \in Requests /\ m.id \notin Executing \union Simple
    BY <2>4 DEF DataMsgs, Requests, DataIds, Executing, Simple
  <2> HIDE DEF m
  <2>6. Range(up') = Range(up) \union {m}
    BY <2>1, <2>3, <2>5, RangeAppend
  <2>7. Asked(up)' = Asked(up)
    BY <2>5, <2>6 DEF Asked
  <2>8. Unserved' = Unserved /\ UnderWay' = UnderWay /\ Finished' = Finished
    BY <1>2, <2>1, <2>7 DEF Unserved, UnderWay, Sending, Ids, Finished
  <2>9. Answering' /\ RowTypes' /\ RowsLead' /\ RowsDone'
    BY <1>2, <1>3, <2>1, <2>2, <2>8, SameRows
  <2>10. Distinct'
    BY <2>1, <2>3, <2>5, DistinctAppend DEF Rowing
  <2>11. Entered'
    BY <1>2, <2>2, <2>8 DEF Rowing, Entered
  <2> QED
    BY <2>9, <2>10, <2>11
<1>5. CASE conn # "up"
  <2>1. /\ outcome' = [outcome EXCEPT ![cur[t]] = "failed"] /\ UNCHANGED up
        /\ vData' = <<>> /\ blob' = <<>> /\ UNCHANGED indexRowset
    BY <1>5 DEF SendData, Clean
  <2>2. <<>> \in Seq(Value)
    BY EmptySeq
  <2> QED
    BY <1>2, <1>3, <1>5, <2>1, <2>2, FailedRows
<1> QED
    BY <1>4, <1>5

LEMMA RegisterRows ==
    ASSUME Rowing, NEW t \in Thread, Register(t)
    PROVE  Distinct' /\ Entered' /\ Answering' /\ RowTypes' /\ RowsLead' /\ RowsDone'
<1>1. Good /\ pc \in [Thread -> {"idle", "data", "request"}]
    BY DEF Rowing, Known, Good, Types
<1>2. /\ t \in Sending /\ pc' = [pc EXCEPT ![t] = "request"]
      /\ UNCHANGED <<cur, conn, up, down, call, outcome>>
    BY <1>1, RegisterEffect
<1>3. mapRowset' = mapRowset \union {cur[t]} /\ UNCHANGED <<indexRowset, vData, blob, got>>
    BY DEF Register, historyVars
<1>4. Sending' = Sending
    BY <1>1, RegisterKeeps
<1>5. Unserved' = Unserved /\ Finished' = Finished
    BY <1>2, <1>4 DEF Unserved, Asked, Finished
<1>6. Answering' /\ RowTypes' /\ RowsLead' /\ RowsDone'
    BY <1>2, <1>3, <1>5, SameRows
<1>7. Distinct'
    BY <1>2 DEF Rowing, Distinct
<1>8. UnderWay' \subseteq UnderWay \union {cur[t]}
    BY <1>1, <1>2 DEF UnderWay, Ids, Asked
<1>9. Entered'
    BY <1>2, <1>3, <1>5, <1>8 DEF Rowing, Entered
<1> QED
    BY <1>6, <1>7, <1>9

LEMMA SendExecuteRows ==
    ASSUME Rowing, NEW t \in Thread, SendExecute(t)
    PROVE  Distinct' /\ Entered' /\ Answering' /\ RowTypes' /\ RowsLead' /\ RowsDone'
<1>1. Good /\ RowTypes
    BY DEF Rowing, Known
<1>2. /\ t \in Sending /\ pc[t] = "request" /\ Return(t)
      /\ UNCHANGED <<conn, down, call>>
    BY <1>1, SendExecuteEffect
<1>3. UNCHANGED <<got, indexRowset, vData, blob>>
    BY DEF SendExecute
<1>4. CASE conn = "up"
  <2> DEFINE c == cur[t]
             m == Msg(call[c].kind, c, 0, 0, <<>>)
  <2>1. up' = Append(up, m) /\ UNCHANGED outcome /\ Sending' = {}
    BY <1>1, <1>4, SendExecuteEffect, SendExecuteStepKeeps
  <2>2. UNCHANGED mapRowset
    BY <1>4 DEF SendExecute
  <2>3. /\ up \in Seq(Requests) /\ c \in Nat /\ call[c].kind \in Executing
        /\ c \notin Called
    BY <1>1, <1>2 DEF Good, Types, Pointers, SenderOpen, SenderFresh
  <2>4. m \in Requests /\ m.id \in Executing /\ m.c = c
    BY <2>3, SimpleMsg
  <2>5. c \in Unserved /\ c \in UnderWay
    BY <1>2 DEF Unserved, UnderWay
  <2> HIDE DEF m, c
  <2>6. Range(up') = Range(up) \union {m}
    BY <2>1, <2>3, <2>4, RangeAppend
  <2>7. Asked(up)' = Asked(up) \union {m}
    BY <2>4, <2>6 DEF Asked
  <2>8. {y.c : y \in Asked(up)'} \subseteq {y.c : y \in Asked(up)} \union {c}
    BY <2>4, <2>7
  <2>9. Unserved' \subseteq Unserved
    BY <1>2, <2>1, <2>5, <2>8 DEF Unserved
  <2>10. UnderWay' \subseteq UnderWay
    <3>1. \A u \in Thread : pc'[u] # "request"
        BY <2>1 DEF Sending
    <3> QED
        BY <1>2, <2>5, <2>8, <3>1 DEF UnderWay, Ids
  <2>11. Answering' /\ RowTypes' /\ RowsLead' /\ RowsDone'
    BY <1>2, <1>3, <2>1, <2>9, SameRows
  <2>12. Distinct'
    <3>1. \A y \in Asked(up) : y.c # m.c
        BY <2>3, <2>4 DEF Called
    <3> QED
        BY <2>1, <2>3, <2>4, <3>1, DistinctAppend DEF Rowing
  <2>13. Entered'
    <3>1. Finished' = Finished
        BY <1>2, <2>1 DEF Finished
    <3> QED
        BY <1>2, <2>2, <2>10, <3>1 DEF Rowing, Entered
  <2> QED
    BY <2>11, <2>12, <2>13
<1>5. CASE conn # "up"
  <2>1. outcome' = [outcome EXCEPT ![cur[t]] = "failed"] /\ UNCHANGED up
    BY <1>1, <1>5, SendExecuteEffect
  <2>2. vData' \in Seq(Value) /\ blob' \in Seq(Value)
    BY <1>1, <1>3 DEF RowTypes
  <2> QED
    BY <1>2, <1>3, <1>5, <2>1, <2>2, FailedRows
<1> QED
    BY <1>4, <1>5

LEMMA ReceiveRows ==
    ASSUME Rowing, Receive
    PROVE  Distinct' /\ Entered' /\ Answering' /\ RowTypes' /\ RowsLead' /\ RowsDone'
<1>1. /\ conn = "up" /\ up # <<>> /\ up' = Tail(up)
      /\ UNCHANGED <<pc, cur, conn, down, call, outcome>>
    BY ReceiveEffect DEF Rowing, Known, Good
<1>2. UNCHANGED <<got, indexRowset, vData, blob, mapRowset>>
    BY DEF Receive, handlerVars, historyVars
<1>3. up \in Seq(Requests)
    BY DEF Rowing, Known, Good, Types
<1>4. Range(up') \subseteq Range(up)
    BY <1>1, <1>3, RangeHeadTail
<1>5. Asked(up)' \subseteq Asked(up)
    BY <1>4 DEF Asked
<1>6. /\ Unserved' \subseteq Unserved /\ UnderWay' \subseteq UnderWay
      /\ Finished' = Finished
    BY <1>1, <1>5 DEF Unserved, UnderWay, Sending, Ids, Finished
<1>7. Answering' /\ RowTypes' /\ RowsLead' /\ RowsDone'
    BY <1>1, <1>2, <1>6, SameRows
<1>8. Distinct'
    BY <1>1, <1>3, DistinctTail DEF Rowing
<1>9. Entered'
    BY <1>1, <1>2, <1>6 DEF Rowing, Entered
<1> QED
    BY <1>7, <1>8, <1>9

----------------------------------------------------------------------------
(* The server answers a call.                                              *)

(* The answers p lead from b to a state that differs from e only in what   *)
(* concerns call c.                                                        *)
Settles(W, p, b, e, c) ==
    \E f \in RowState :
        /\ Path(RowStep(W), p, b, f)
        /\ \A d \in Nat : d # c /\ d \notin e.fin => d \notin f.fin
        /\ \A d \in Nat : d # c => f.got[d] = e.got[d]

(* The answers to a call, and its result.                                  *)
LEMMA AnsweredRows ==
    ASSUME NEW c \in Nat, NEW a, NEW w, NEW W, Delivers(c, a, w, W), w = W[c],
           NEW b, NEW e \in RowState, NEW q \in Seq(AllReplies),
           Path(RowStep(W), q, b, e), c \notin e.fin, e.got[c] = <<>>,
           NEW m \in Lasts(c), m.id = "result"
    PROVE  Settles(W, q \o Append(a, m), b, e, c)
<1>1. a \in Seq(Replies(c)) /\ w \in Rows
    BY DEF Delivers
<1>2. Replies(c) \subseteq AllReplies /\ m \in AllReplies /\ m.c = c
    BY DEF Replies, Lasts, AllReplies
<1>3. a \in Seq(AllReplies)
    BY <1>1, <1>2, SeqSubset
<1>4. PICK g \in RowState : /\ Path(RowStep(W), a, e, g) /\ g.fin = e.fin
                            /\ g.got = [e.got EXCEPT ![c] = @ \o w]
    BY DEF Delivers
<1>5. g.got[c] = w /\ \A d \in Nat : d # c => g.got[d] = e.got[d]
  <2>1. e.got \in [Nat -> Rows]
    BY DEF RowState
  <2>2. <<>> \o w = w
    BY <1>1, ConcatEmptySeq DEF Rows
  <2> QED
    BY <1>4, <2>1, <2>2
<1>6. InTurn(g, m, W)
    BY <1>2, <1>4, <1>5 DEF InTurn, Indexed
<1> DEFINE f == Rowed(g, m)
<1>7. <<g, m, f>> \in RowStep(W) /\ f \in RowState
    BY <1>2, <1>6, RowNext
<1>8. f.fin = g.fin \union {c} /\ f.got = g.got
    BY <1>2, RowedFields
<1> HIDE DEF f
<1>9. Append(a, m) \in Seq(AllReplies)
    BY <1>2, <1>3, AppendProperties
<1>10. Path(RowStep(W), Append(a, m), e, f)
    BY <1>2, <1>3, <1>4, <1>7, PathAppend
<1>11. Path(RowStep(W), q \o Append(a, m), b, f)
    BY <1>9, <1>10, PathConcat
<1> QED
    BY <1>4, <1>5, <1>7, <1>8, <1>11 DEF Settles

(* Some of the answers to a call, and an exception.                        *)
LEMMA BrokenRows ==
    ASSUME NEW c \in Nat, NEW a, NEW w, NEW W, Delivers(c, a, w, W), NEW n \in 0 .. Len(a),
           NEW b, NEW e \in RowState, NEW q \in Seq(AllReplies),
           Path(RowStep(W), q, b, e), c \notin e.fin,
           NEW m \in Lasts(c), m.id = "exception"
    PROVE  Settles(W, q \o Append(SubSeq(a, 1, n), m), b, e, c)
<1> DEFINE s == SubSeq(a, 1, n)
<1>1. a \in Seq(Replies(c))
    BY DEF Delivers
<1>2. Replies(c) \subseteq AllReplies /\ m \in AllReplies /\ m.c = c
    BY DEF Replies, Lasts, AllReplies
<1>3. s \in Seq(Replies(c))
  <2>1. Len(a) \in Nat /\ \A i \in 1 .. n : a[i] \in Replies(c)
    BY <1>1, LenProperties, ElementOfSeq
  <2> QED
    BY <2>1, SubSeqProperties
<1>4. PICK g \in RowState : Path(RowStep(W), a, e, g)
    BY DEF Delivers
<1>5. PICK f : Path(RowStep(W), s, e, f)
    BY <1>1, <1>4, PathPrefix
<1> HIDE DEF s
<1>6. /\ f \in RowState /\ f.fin = e.fin
      /\ \A d \in Nat : d # c => f.got[d] = e.got[d]
    BY <1>3, <1>5, RowsKeep
<1>7. s \in Seq(AllReplies) /\ Append(s, m) \in Seq(AllReplies)
    BY <1>2, <1>3, SeqSubset, AppendProperties
<1>8. InTurn(f, m, W)
    BY <1>2, <1>6 DEF InTurn, Indexed
<1>9. Rowed(f, m) = f
    BY <1>2, <1>6, RowedFields
<1>10. <<f, m, f>> \in RowStep(W)
    BY <1>2, <1>6, <1>8, <1>9, RowNext
<1>11. Path(RowStep(W), Append(s, m), e, f)
    BY <1>2, <1>5, <1>7, <1>10, PathAppend
<1>12. Path(RowStep(W), q \o Append(s, m), b, f)
    BY <1>7, <1>11, PathConcat
<1> QED
    BY <1>6, <1>12 DEF s, Settles

LEMMA ServeRows ==
    ASSUME Rowing, Serve
    PROVE  Distinct' /\ Entered' /\ Answering' /\ RowTypes' /\ RowsLead' /\ RowsDone'
<1> DEFINE h == Head(up)
           c == h.c
           a == IF h.id \in Executing THEN Answers(c) ELSE <<>>
           w == IF h.id \in Executing THEN RowsOf(c) ELSE <<>>
           res == Msg("result", c, 0, 0, <<>>)
           exc == Msg("exception", c, 0, 0, <<>>)
           W == Wanted
<1>1. Good /\ up \in Seq(Requests) /\ down \in Seq(AllReplies) /\ call \in Seq(Calls)
    BY DEF Rowing, Known, Good, Types
<1>2. /\ conn = "up" /\ up # <<>> /\ up' = Tail(up) /\ h.id \in Executing \union Simple
      /\ h \in Asked(up) /\ c \in 1 .. Len(call)
      /\ UNCHANGED <<pc, cur, conn, call, outcome>>
    BY <1>1, ServeEffect
<1>3. UNCHANGED <<got, indexRowset, vData, blob, mapRowset>>
    BY DEF Serve, handlerVars
<1>4. \/ down' = down \o Append(a, res)
      \/ \E n \in 0 .. Len(a) : down' = down \o Append(SubSeq(a, 1, n), exc)
    BY DEF Serve
<1>5. call[c].kind = h.id /\ c \in Nat
    BY <1>1, <1>2, ParamsType DEF Good, Pointers, KindsMatch
<1>6. call[c].stmts \in Seq(Statement) /\ call[c].vParam \in Seq(Nat)
  <2>1. call[c] \in Calls
    BY <1>1, <1>2, ElementOfSeq
  <2> QED
    BY <2>1 DEF Calls
<1>7. Delivers(c, a, w, W)
  <2> HIDE DEF W
  <2> QED
    BY <1>5, <1>6, AnswersDeliver, DeliversNone
<1>8. w = W[c]
    BY <1>2, <1>5 DEF Wanted
<1>9. /\ res \in Lasts(c) /\ exc \in Lasts(c) /\ res.id = "result" /\ exc.id = "exception"
  <2>1. <<>> \in Seq(Value)
    BY EmptySeq
  <2> QED
    BY <2>1 DEF Msg, Lasts, Ending
<1>10. PICK e \in RowState :
          /\ Path(RowStep(W), down, RowNow, e)
          /\ \A d \in Unserved : d \notin e.fin /\ e.got[d] = <<>>
    BY <1>2 DEF Rowing, RowsLead
<1>11. c \in Unserved /\ c \in Called
    BY <1>2 DEF Unserved, Called
<1>12. Unserved' \subseteq Unserved \ {c} /\ Unserved \subseteq Nat
  <2>1. Asked(up)' \subseteq Asked(up) /\ \A m \in Asked(up)' : m.c # c
    <3>1. Range(up') \subseteq Range(up)
        BY <1>1, <1>2, RangeHeadTail
    <3> QED
        BY <1>1, <1>2, <3>1, DistinctTail DEF Asked, Rowing
  <2>2. \A t \in Sending : cur[t] # c
    BY <1>1, <1>11 DEF Good, Pointers, SenderFresh
  <2>3. Unserved \subseteq Nat
    <3>1. Called \subseteq Nat /\ \A t \in Thread : cur[t] \in Nat
        BY <1>1, LenProperties DEF Good, Types, Pointers, CalledKnown
    <3> QED
        BY <3>1 DEF Unserved, Sending, Called
  <2> QED
    BY <1>2, <2>1, <2>2, <2>3 DEF Unserved, Sending
<1> DEFINE b == RowNow
           R == RowStep(W)
<1>13. a \in Seq(Replies(c))
    BY <1>7 DEF Delivers
<1>14. \A m \in Replies(c) : m.c = c
    BY DEF Replies
<1>15. \A m \in Lasts(c) : m.c = c /\ m.id \notin AnswerIds
    BY DEF Lasts, Ending, AnswerIds
<1>16. h.id \notin Executing => a = <<>>
    OBVIOUS
<1> HIDE DEF a, w, res, exc, W, b, c
<1>17. /\ Settles(W, down', b, e, c)
       /\ \E x \in Seq(Replies(c)), m \in Lasts(c) :
              down' = down \o Append(x, m) /\ (h.id \notin Executing => x = <<>>)
  <2>0. Path(RowStep(W), down, b, e)
    BY <1>10 DEF b
  <2>9. c \notin e.fin /\ e.got[c] = <<>>
    BY <1>10, <1>11
  <2>1. CASE down' = down \o Append(a, res)
    <3>1. Settles(W, down \o Append(a, res), b, e, c)
        BY <1>1, <1>5, <1>7, <1>8, <1>9, <2>0, <2>9, AnsweredRows
    <3> QED
        BY <1>9, <1>13, <1>16, <2>1, <3>1
  <2>2. ASSUME NEW n \in 0 .. Len(a), down' = down \o Append(SubSeq(a, 1, n), exc)
        PROVE  <1>17!1 /\ <1>17!2
    <3>1. Settles(W, down \o Append(SubSeq(a, 1, n), exc), b, e, c)
        BY <1>1, <1>5, <1>7, <1>9, <2>0, <2>9, BrokenRows
    <3>2. Len(a) \in Nat /\ \A i \in 1 .. n : a[i] \in Replies(c)
        BY <1>13, LenProperties, ElementOfSeq
    <3>3. SubSeq(a, 1, n) \in Seq(Replies(c))
        BY <3>2, SubSeqProperties
    <3>4. h.id \notin Executing => SubSeq(a, 1, n) = <<>>
      <4>1. ASSUME h.id \notin Executing
            PROVE  SubSeq(a, 1, n) = <<>>
        <5>1. Len(a) = 0 /\ n = 0
            BY <1>16, <4>1, <3>2, EmptySeq
        <5>2. Len(SubSeq(a, 1, n)) = 0
            BY <3>2, <5>1, SubSeqProperties
        <5> QED
            BY <3>3, <5>2, EmptySeq
      <4> QED
        BY <4>1
    <3> QED
        BY <1>9, <2>2, <3>1, <3>3, <3>4
  <2> QED
    BY <1>4, <2>1, <2>2
<1>18. Wanted' = Wanted /\ GotNow' = GotNow /\ Finished' = Finished
    BY <1>2, <1>3, WantedKept DEF GotNow, Finished
<1>19. RowsLead'
  <2>1. RowNow' = b
    BY <1>3, <1>18 DEF RowNow, b
  <2>2. PICK f \in RowState :
            /\ Path(RowStep(W), down', b, f)
            /\ \A d \in Nat : d # c /\ d \notin e.fin => d \notin f.fin
            /\ \A d \in Nat : d # c => f.got[d] = e.got[d]
    BY <1>17 DEF Settles
  <2>3. \A d \in Unserved' : d \notin f.fin /\ f.got[d] = <<>>
    BY <1>10, <1>12, <2>2
  <2> QED
    BY <1>18, <2>1, <2>2, <2>3 DEF RowsLead, W
<1>20. RowTypes' /\ RowsDone'
    BY <1>2, <1>3, <1>18 DEF Rowing, RowTypes, RowsDone
<1>21. Distinct'
    BY <1>1, <1>2, DistinctTail DEF Rowing
<1>22. PICK x \in Seq(Replies(c)), m \in Lasts(c) :
          down' = down \o Append(x, m) /\ (h.id \notin Executing => x = <<>>)
    BY <1>17
<1>23. Ids(down') = Ids(down) \union {c}
    BY <1>1, <1>5, <1>22, RepliesRange
<1>24. Answering'
  <2> DEFINE y == Append(x, m)
             S == Replies(c) \union Lasts(c)
  <2>1. x \in Seq(S) /\ m \in S /\ Range(x) \subseteq Replies(c)
    BY SeqSubset, RangeOfSeq
  <2>2. Range(y) = Range(x) \union {m} /\ y \in Seq(S)
    BY <2>1, RangeAppend, AppendProperties
  <2>3. S \subseteq AllReplies
    BY <1>5 DEF Replies, Lasts, AllReplies
  <2> HIDE DEF y, S
  <2>4. y \in Seq(AllReplies)
    BY <2>2, <2>3, SeqSubset
  <2>5. Range(down \o y) = Range(down) \union Range(y)
    BY <1>1, <2>4, RangeConcatenation
  <2>6. Range(down)' = Range(down) \union (Range(x) \union {m})
    BY <1>22, <2>2, <2>5 DEF y
  <2>7. ASSUME NEW z \in Range(x)
        PROVE  z.c = c /\ h.id \in Executing
    BY <1>14, <1>22, <2>1, <2>7, RangeEmpty
  <2>8. ASSUME NEW z \in Range(down)', z.id \in AnswerIds
        PROVE  call[z.c].kind \in Executing
    BY <1>5, <1>15, <2>6, <2>7, <2>8 DEF Rowing, Answering
  <2> QED
    BY <1>2, <2>8 DEF Answering
<1>25. Entered'
  <2>1. c \in UnderWay
    BY <1>2 DEF UnderWay, c
  <2>2. Asked(up)' \subseteq Asked(up)
    <3>1. Range(up') \subseteq Range(up)
        BY <1>1, <1>2, RangeHeadTail
    <3> QED
        BY <3>1 DEF Asked
  <2>3. UnderWay' \subseteq UnderWay
    BY <1>2, <1>23, <2>1, <2>2 DEF UnderWay, Ids
  <2> QED
    BY <1>2, <1>3, <1>18, <2>3 DEF Rowing, Entered
<1> QED
    BY <1>19, <1>20, <1>21, <1>24, <1>25

----------------------------------------------------------------------------
(* The worker thread takes an answer; the session comes back.              *)

(* The worker thread takes an answer, and does with it what Rowed says.    *)
LEMMA AnswerTaken ==
    ASSUME Rowing, conn = "up", down # <<>>, down' = Tail(down),
           UNCHANGED <<pc, cur, conn, up, call>>,
           RowTypes', RowNow' = Rowed(RowNow, Head(down)),
           mapRowset \ Finished' \subseteq mapRowset'
    PROVE  Distinct' /\ Entered' /\ Answering' /\ RowTypes' /\ RowsLead' /\ RowsDone'
<1> DEFINE m == Head(down)
           b == RowNow
           e == Rowed(b, m)
<1>1. Good /\ down \in Seq(AllReplies)
    BY DEF Rowing, Known, Good, Types
<1>2. /\ m \in AllReplies /\ m.c \in 1 .. Len(call) /\ m.c \notin Finished
      /\ InTurn(b, m, Wanted) /\ b \in RowState
      /\ \E f \in RowState :
            /\ Path(RowStep(Wanted), Tail(down), e, f)
            /\ \A c \in Unserved : c \notin f.fin /\ f.got[c] = <<>>
    BY NextAnswer
<1>3. Range(down') \subseteq Range(down)
    BY <1>1, RangeHeadTail
<1>4. Ids(down)' \subseteq Ids(down)
    BY <1>3 DEF Ids
<1>5. Unserved' = Unserved /\ UnderWay' \subseteq UnderWay
    BY <1>4 DEF Unserved, UnderWay, Sending, Asked
<1>6. Wanted' = Wanted
    BY WantedKept
<1>7. RowNow' = e
    OBVIOUS
<1>8. b.fin = Finished /\ b.got = GotNow /\ e.fin = Finished' /\ e.got = GotNow'
  <2>1. RowNow'.fin = Finished' /\ RowNow'.got = GotNow'
    BY DEF RowNow
  <2>2. b.fin = Finished /\ b.got = GotNow
    BY DEF RowNow
  <2> HIDE DEF b
  <2> QED
    BY <1>7, <2>1, <2>2
<1>9. /\ e.fin = IF m.id = "result" THEN Finished \union {m.c} ELSE Finished
      /\ m.id = "result" => e.got = b.got
      /\ \A d \in Nat : d # m.c => e.got[d] = b.got[d]
  <2>1. \A h \in RowState : LET f == Rowed(h, m) IN
            /\ f.fin = IF m.id = "result" THEN h.fin \union {m.c} ELSE h.fin
            /\ m.id = "result" => f.got = h.got
            /\ \A d \in Nat : d # m.c => f.got[d] = h.got[d]
    BY <1>2, RowedType, RowedFields
  <2> HIDE DEF b, m
  <2> QED
    BY <1>2, <1>8, <2>1
<1> HIDE DEF e
<1>10. RowsLead'
    BY <1>2, <1>5, <1>6, <1>7 DEF RowsLead
<1>11. Distinct'
    BY DEF Rowing, Distinct
<1>12. Answering'
    BY <1>3 DEF Rowing, Answering
<1>13. Entered'
    BY <1>5, <1>8, <1>9 DEF Rowing, Entered
<1>14. RowsDone'
  <2> SUFFICES ASSUME NEW c \in Finished'
               PROVE  got'[c] = Wanted[c]
    BY <1>6 DEF RowsDone
  <2>1. Len(call) \in Nat /\ Finished \subseteq 1 .. Len(call)
    BY <1>1, LenProperties, UnderWayKnown DEF Good, Types
  <2>2. \A d \in 1 .. Len(call) : d \in Nat /\ GotNow[d] = got[d] /\ GotNow'[d] = got'[d]
    BY <2>1 DEF GotNow
  <2>3. CASE c \in Finished
    BY <1>2, <1>8, <1>9, <2>1, <2>2, <2>3 DEF Rowing, RowsDone
  <2>4. CASE c \notin Finished
    <3>1. m.id = "result" /\ c = m.c
        BY <1>8, <1>9, <2>4
    <3>2. b.got[c] = Wanted[c]
        BY <1>2, <3>1 DEF InTurn
    <3> QED
        BY <1>2, <1>8, <1>9, <2>2, <3>1, <3>2
  <2> QED
    BY <2>3, <2>4
<1> QED
    BY <1>10, <1>11, <1>12, <1>13, <1>14

LEMMA TakeRowing ==
    ASSUME Rowing, Take
    PROVE  Distinct' /\ Entered' /\ Answering' /\ RowTypes' /\ RowsLead' /\ RowsDone'
<1>1. /\ conn = "up" /\ down # <<>> /\ down' = Tail(down)
      /\ UNCHANGED <<pc, cur, conn, up, call>>
    BY TakeEffect DEF core
<1>2. RowTypes' /\ RowNow' = Rowed(RowNow, Head(down)) /\ UNCHANGED mapRowset
    BY TakeRows
<1> QED
    BY <1>1, <1>2, AnswerTaken

LEMMA OnResultRows ==
    ASSUME Rowing, OnResult
    PROVE  Distinct' /\ Entered' /\ Answering' /\ RowTypes' /\ RowsLead' /\ RowsDone'
<1> DEFINE m == Head(down)
           c == m.c
           e == Rowed(RowNow, m)
<1>1. Good /\ RowTypes
    BY DEF Rowing, Known
<1>2. /\ conn = "up" /\ down # <<>> /\ down' = Tail(down)
      /\ UNCHANGED <<pc, cur, conn, up, call>>
    BY <1>1, OnResultEffect
<1>3. UNCHANGED <<indexRowset, vData, blob, got>>
    BY DEF OnResult
<1>4. \/ /\ m.id = "result" /\ outcome' = [outcome EXCEPT ![c] = "result"]
         /\ mapRowset \ {c} \subseteq mapRowset'
      \/ /\ m.id = "exception" /\ outcome' = [outcome EXCEPT ![c] = "exception"]
         /\ UNCHANGED mapRowset
    BY DEF OnResult, Process, ProcessSimple, Erase
<1>5. /\ m \in AllReplies /\ c \in 1 .. Len(call) /\ c \notin Finished
      /\ RowNow \in RowState /\ e \in RowState
    BY <1>2, NextAnswer
<1>6. DOMAIN outcome = 1 .. Len(call) /\ DOMAIN call = 1 .. Len(call)
    BY <1>1, LenProperties DEF Good, Types
<1>7. /\ RowNow.index = indexRowset /\ RowNow.v = vData /\ RowNow.b = blob
      /\ RowNow.fin = Finished /\ RowNow.got = GotNow
    BY DEF RowNow
<1>8. e.index = indexRowset /\ e.v = vData /\ e.b = blob /\ e.got = GotNow
      /\ e.fin = IF m.id = "result" THEN Finished \union {c} ELSE Finished
  <2>1. CASE m.id = "result"
    BY <1>5, <1>7, <2>1, RowedFields
  <2>2. CASE m.id = "exception"
    BY <1>5, <1>7, <2>2, RowedFields
  <2> QED
    BY <1>4, <2>1, <2>2
<1> HIDE DEF e, c
<1>9. Finished' = e.fin
  <2>1. CASE m.id = "result"
    BY <1>2, <1>4, <1>5, <1>6, <1>8, <2>1 DEF Finished
  <2>2. CASE m.id # "result"
    BY <1>2, <1>4, <1>5, <1>6, <1>8, <2>2 DEF Finished
  <2> QED
    BY <2>1, <2>2
<1>10. GotNow' = e.got /\ got' \in Seq(Rows) /\ Len(got') = Len(call')
    BY <1>1, <1>2, <1>3, <1>8 DEF GotNow, RowTypes
<1>11. RowTypes' /\ RowNow' = e
    BY <1>3, <1>5, <1>8, <1>9, <1>10, RowNowNext
<1>12. mapRowset \ Finished' \subseteq mapRowset'
    BY <1>4, <1>8, <1>9
<1> QED
    BY <1>2, <1>11, <1>12, AnswerTaken DEF e

LEMMA ReconnectRows ==
    ASSUME Rowing, Reconnect, PatientReconnect
    PROVE  Distinct' /\ Entered' /\ Answering' /\ RowTypes' /\ RowsLead' /\ RowsDone'
<1>1. Good /\ RowTypes
    BY DEF Rowing, Known
<1>2. /\ conn = "down" /\ NoneSending
      /\ UNCHANGED <<pc, cur, up, down, call, outcome, got, indexRowset, vData, blob,
                     mapRowset>>
    BY DEF Reconnect, handlerVars, threadVars, historyVars
<1>3. up' = <<>> /\ down' = <<>> /\ Sending' = {} /\ down = <<>>
    BY <1>2 DEF Rowing, Known, Emptied, NoneSending, Sending
<1>4. Wanted' = Wanted /\ Finished' = Finished /\ GotNow' = GotNow
    BY <1>2, WantedKept DEF Finished, GotNow
<1>5. RowNow' = RowNow
    BY <1>2, <1>4 DEF RowNow
<1>6. Asked(up)' = {} /\ Ids(down)' = {} /\ Range(down)' = {}
    BY <1>3, RangeEmpty DEF Asked, Ids
<1>7. Unserved' = Nat \ 1 .. Len(call)
    BY <1>2, <1>3, <1>6 DEF Unserved
<1>8. UnderWay' = {}
    BY <1>3, <1>6 DEF UnderWay, Sending
<1>9. RowNow \in RowState
    BY <1>1, RowNowType
<1>10. \A c \in Unserved' : c \notin RowNow.fin /\ RowNow.got[c] = <<>>
    BY <1>1, <1>7, UnderWayKnown DEF RowNow, GotNow
<1>11. RowsLead'
  <2> DEFINE R == RowStep(Wanted')
             b == RowNow
  <2>1. Path(R, <<>>, b, b)
    <3> HIDE DEF R, b
    <3> QED
        BY PathNone
  <2> QED
    BY <1>3, <1>5, <1>9, <1>10, <2>1 DEF RowsLead
<1>12. RowTypes' /\ RowsDone'
    BY <1>1, <1>2, <1>4 DEF Rowing, RowTypes, RowsDone
<1> QED
    BY <1>3, <1>6, <1>8, <1>11, <1>12, DistinctNone DEF Entered, Answering

(* Nothing waits, so that there is nothing left to be taken.               *)
LEMMA OnAllProcessedRows ==
    ASSUME Rowing, OnAllProcessed
    PROVE  Distinct' /\ Entered' /\ Answering' /\ RowTypes' /\ RowsLead' /\ RowsDone'
<1>1. Good /\ RowTypes
    BY DEF Rowing, Known
<1>2. /\ conn = "up" /\ down = <<>> /\ vData' = <<>> /\ blob' = <<>>
      /\ UNCHANGED <<pc, cur, conn, up, down, call, outcome, got, indexRowset, mapRowset>>
    BY DEF OnAllProcessed, threadVars, sessionVars, historyVars
<1>3. Wanted' = Wanted /\ Finished' = Finished /\ GotNow' = GotNow
    BY <1>2, WantedKept DEF Finished, GotNow
<1>4. Unserved' = Unserved /\ UnderWay' = UnderWay
    BY <1>2 DEF Unserved, UnderWay, Sending, Asked, Ids
<1>5. RowTypes'
    BY <1>1, <1>2, EmptySeq DEF RowTypes
<1>6. RowNow' \in RowState
  <2>1. RowNow \in RowState /\ <<>> \in Seq(Value)
    BY <1>1, RowNowType, EmptySeq
  <2> QED
    BY <1>2, <1>3, <2>1 DEF RowNow, RowState
<1>7. RowNow'.fin = RowNow.fin /\ RowNow'.got = RowNow.got
    BY <1>3 DEF RowNow
<1>8. RowsLead'
  <2>1. PICK e \in RowState :
            /\ Path(RowStep(Wanted), <<>>, RowNow, e)
            /\ \A c \in Unserved : c \notin e.fin /\ e.got[c] = <<>>
    BY <1>2 DEF Rowing, RowsLead
  <2> DEFINE R == RowStep(Wanted)
             b == RowNow
             d == RowNow'
  <2>2. Path(R, <<>>, b, e)
    BY <2>1
  <2>3. b = e /\ Path(R, <<>>, d, d)
    <3> HIDE DEF R, b, d
    <3> QED
        BY <2>2, PathEmpty, PathNone
  <2>4. \A c \in Unserved' : c \notin RowNow'.fin /\ RowNow'.got[c] = <<>>
    BY <1>4, <1>7, <2>1, <2>3
  <2>5. down' = <<>>
    BY <1>2
  <2> QED
    BY <1>3, <1>6, <2>3, <2>4, <2>5 DEF RowsLead
<1> QED
    BY <1>2, <1>3, <1>4, <1>5, <1>8 DEF Rowing, Distinct, Entered, Answering, RowsDone

----------------------------------------------------------------------------
(* The theorem.                                                            *)

(* Rowing holds at first, and each step keeps it.                          *)
LEMMA InitRowing == Init => Rowing
<1> SUFFICES ASSUME Init
             PROVE  Rowing
    OBVIOUS
<1>1. Known
    BY InitKnown
<1>2. /\ up = <<>> /\ down = <<>> /\ call = <<>> /\ got = <<>> /\ indexRowset = 0
      /\ vData = <<>> /\ blob = <<>> /\ Sending = {}
    BY DEF Init, Sending
<1>3. Len(<<>>) = 0 /\ 1 .. 0 = {}
    BY EmptySeq
<1>4. Finished = {} /\ UnderWay \subseteq {}
    BY <1>1, <1>2, <1>3, UnderWayKnown DEF Known
<1>5. Range(down) = {} /\ Asked(up) = {}
    BY <1>2, RangeEmpty DEF Asked
<1>6. Distinct /\ Entered /\ Answering /\ RowsDone
    BY <1>2, <1>3, <1>4, <1>5 DEF Distinct, Entered, Answering, RowsDone
<1>7. RowTypes
    BY <1>2, <1>3, EmptySeq DEF RowTypes
<1>8. RowNow \in RowState
    BY <1>1, <1>7, RowNowType DEF Known
<1>9. \A c \in Unserved : c \notin RowNow.fin /\ RowNow.got[c] = <<>>
    BY <1>2, <1>3, <1>4, <1>5 DEF Unserved, RowNow, GotNow
<1>10. RowsLead
  <2> DEFINE R == RowStep(Wanted)
             b == RowNow
  <2>1. Path(R, <<>>, b, b)
    <3> HIDE DEF R, b
    <3> QED
        BY PathNone
  <2> QED
    BY <1>2, <1>8, <1>9, <2>1 DEF RowsLead
<1> QED
    BY <1>1, <1>6, <1>7, <1>10 DEF Rowing

LEMMA RowingStep ==
    ASSUME Rowing, [Next]_vars, PatientReconnect
    PROVE  Rowing'
<1>1. Known /\ Known' /\ Good /\ RowTypes
    BY KnownStep DEF Rowing, Known
<1> DEFINE Goal == Distinct' /\ Entered' /\ Answering' /\ RowTypes' /\ RowsLead' /\ RowsDone'
<1>2. ASSUME NEW s \in Prepared, SendSimple("idPrepare", <<s>>)
      PROVE  Goal
  <2>1. <<s>> \in Seq(Statement) /\ "idPrepare" \in Simple
    BY ConstantsAssumption, OneIsSeq DEF Simple
  <2> QED
    BY <1>2, <2>1, SimpleRows
<1>3. ASSUME NEW k \in {"idOpen", "idBeginTrans"}, SendSimple(k, <<>>)
      PROVE  Goal
  <2>1. <<>> \in Seq(Statement) /\ k \in Simple
    BY EmptySeq DEF Simple
  <2> QED
    BY <1>3, <2>1, SimpleRows
<1>4. ASSUME NEW t \in Thread, Execute(t)
      PROVE  Goal
  <2>1. Sending = {}
    BY <1>1, <1>4, ExecuteStarts
  <2>2. PICK k, stmts, v : Starts(t, k, stmts, v)
    BY <1>1, <1>4, ExecuteStarts
  <2> QED
    BY <2>1, <2>2, StartRows
<1>5. ASSUME NEW t \in Thread, SendData(t)
      PROVE  Goal
    BY <1>5, SendDataRows
<1>6. ASSUME NEW t \in Thread, Register(t)
      PROVE  Goal
    BY <1>6, RegisterRows
<1>7. ASSUME NEW t \in Thread, SendExecute(t)
      PROVE  Goal
    BY <1>7, SendExecuteRows
<1>8. ASSUME Receive
      PROVE  Goal
    BY <1>8, ReceiveRows
<1>9. ASSUME Serve
      PROVE  Goal
    BY <1>9, ServeRows
<1>10. ASSUME Take
       PROVE  Goal
    BY <1>10, TakeRowing
<1>11. ASSUME OnResult
       PROVE  Goal
    BY <1>11, OnResultRows
<1>12. ASSUME OnAllProcessed
       PROVE  Goal
    BY <1>12, OnAllProcessedRows
<1>13. ASSUME Break
       PROVE  Goal
  <2>1. /\ conn' # "up" /\ up' = <<>> /\ down' = <<>>
        /\ UNCHANGED <<call, outcome, got, indexRowset, vData, blob>>
    BY <1>13 DEF Break, handlerVars
  <2>2. Finished' = Finished /\ Range(down)' \subseteq Range(down)
    BY <2>1, RangeEmpty DEF Finished
  <2>3. vData' \in Seq(Value) /\ blob' \in Seq(Value)
    BY <1>1, <2>1 DEF RowTypes
  <2> QED
    BY <2>1, <2>2, <2>3, ClosedRows, DistinctNone
<1>14. ASSUME CleanMaps
       PROVE  Goal
  <2>1. /\ conn' # "up" /\ vData' = <<>> /\ blob' = <<>>
        /\ UNCHANGED <<up, down, call, outcome, got, indexRowset>>
    BY <1>14 DEF CleanMaps, Clean, historyVars
  <2>2. Finished' = Finished /\ vData' \in Seq(Value) /\ blob' \in Seq(Value)
    BY <2>1, EmptySeq DEF Finished
  <2>3. Distinct'
    BY <2>1 DEF Rowing, Distinct
  <2> QED
    BY <2>1, <2>2, <2>3, ClosedRows
<1>15. ASSUME CleanCallbacks
       PROVE  Goal
  <2>1. /\ conn' # "up" /\ UNCHANGED <<up, down, call, got, indexRowset, vData, blob>>
        /\ outcome' = [c \in DOMAIN outcome |->
                         IF c \in Range(waiting) THEN "discarded" ELSE outcome[c]]
    BY <1>15 DEF CleanCallbacks, handlerVars
  <2>2. DOMAIN outcome = DOMAIN call
    BY <1>1, LenProperties DEF Good, Types
  <2>3. Finished' \subseteq Finished
    BY <2>1, <2>2 DEF Finished
  <2>4. vData' \in Seq(Value) /\ blob' \in Seq(Value)
    BY <1>1, <2>1 DEF RowTypes
  <2>5. Distinct'
    BY <2>1 DEF Rowing, Distinct
  <2> QED
    BY <2>1, <2>3, <2>4, <2>5, ClosedRows
<1>16. ASSUME Reconnect
       PROVE  Goal
    BY <1>16, ReconnectRows
<1>17. ASSUME UNCHANGED vars
       PROVE  Goal
  <2>1. UNCHANGED <<pc, cur, conn, up, down, call, outcome, got, indexRowset, vData,
                    blob, mapRowset>>
    BY <1>17 DEF vars, handlerVars, threadVars, sessionVars, historyVars
  <2>2. Unserved' = Unserved /\ UnderWay' = UnderWay /\ Finished' = Finished
    BY <2>1 DEF Unserved, UnderWay, Sending, Asked, Ids, Finished
  <2>3. Answering' /\ RowTypes' /\ RowsLead' /\ RowsDone'
    BY <2>1, <2>2, SameRows
  <2> QED
    BY <2>1, <2>2, <2>3 DEF Rowing, Distinct, Entered
<1>18. Goal
  <2> HIDE DEF Goal
  <2> QED
    BY <1>2, <1>3, <1>4, <1>5, <1>6, <1>7, <1>8, <1>9, <1>10, <1>11, <1>12, <1>13,
       <1>14, <1>15, <1>16, <1>17 DEF Next, Take
<1> QED
    BY <1>1, <1>18 DEF Rowing

(* For any statements, arrays, batch sizes and threads, when a session is  *)
(* not reconnected in the middle of a call: a call that has its result has *)
(* received all its rowsets, in order, each header before its rows, with   *)
(* the large values that came in parts, and nothing of another call.       *)
THEOREM RowsCompleteHolds ==
    ASSUME PatientReconnect
    PROVE  Spec => []RowsComplete
<1>1. Init => Rowing
    BY InitRowing
<1>2. Rowing /\ [Next]_vars => Rowing'
    BY RowingStep
<1>3. Rowing => RowsComplete
  <2>1. ASSUME Rowing, NEW c \in Finished, call[c].kind \in Executing
        PROVE  got[c] = RowsOf(c)
    <3>1. c \in 1 .. Len(call)
        BY <2>1, UnderWayKnown DEF Rowing, Known
    <3> QED
        BY <2>1, <3>1 DEF Rowing, RowsDone, Wanted
  <2> QED
    BY <2>1 DEF RowsComplete, RowsOf, StatementRows, RowsetRows
<1> QED
    BY <1>1, <1>2, <1>3, PTL DEF Spec
=============================================================================
