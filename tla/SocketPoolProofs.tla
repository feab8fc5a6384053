-------------------------- MODULE SocketPoolProofs --------------------------
(***************************************************************************)
(* What holds of socket pools for any number of pool objects, threads,     *)
(* sockets and core pools.                                                 *)
(*                                                                         *)
(* Pools are started and shut down one at a time (Serial) and while all    *)
(* others run (OneIdle); that the iterators of PostProcess stay valid also *)
(* needs that a pool is not started again before an earlier start has      *)
(* looked at its sockets (CalmStart).                                      *)
(***************************************************************************)
EXTENDS SocketPool, FiniteSetTheorems, SequenceTheorems, TLAPS

(* A pool object with an id is in m_vPool and asked for the core pool that *)
(* has the id ...                                                          *)
IdsOwned ==
    \A p \in Pools : nPoolId[p] # 0 =>
        /\ p \in Range(vPool) /\ owner[nPoolId[p]] = p
        /\ phase[nPoolId[p]] \in {"creating", "running", "stopping"}

(* ... and the other way round.  Core pools that begin or end do it for a  *)
(* thread that waits.                                                      *)
CoresOwned ==
    \A i \in Id :
        /\ phase[i] \in {"creating", "running", "stopping"} =>
            owner[i] \in Range(vPool) /\ nPoolId[owner[i]] = i
        /\ phase[i] \in {"starting", "creating"} =>
            \E t \in Threads : pc[t] = "creating" /\ my[t].id = i
        /\ phase[i] = "stopping" =>
            \E t \in Threads : pc[t] = "destroying" /\ my[t].id = i

(* Pool object p is the only one in m_vPool without an id.                 *)
OnlyIdle(p) ==
    /\ p \in Range(vPool) /\ nPoolId[p] = 0
    /\ \A q \in Range(vPool) : q # p => nPoolId[q] # 0

(* What the thread knows that starts, shuts down or destroys a pool.       *)
Knows(t) ==
    /\ pc[t] = "create" => OnlyIdle(my[t].pool)
    /\ pc[t] = "creating" =>
        /\ my[t].id \in Id /\ owner[my[t].id] = my[t].pool
        /\ \/ phase[my[t].id] = "starting" /\ OnlyIdle(my[t].pool)
           \/ phase[my[t].id] = "creating"
    /\ pc[t] = "setid" =>
        my[t].id \in Id /\ nPoolId[my[t].pool] = my[t].id
    /\ pc[t] = "destroying" =>
        /\ my[t].id \in Id /\ owner[my[t].id] = my[t].pool
        /\ my[t].pool \in Range(vPool)
        /\ \/ phase[my[t].id] = "stopping"
           \/ phase[my[t].id] = "gone" /\ nPoolId[my[t].pool] = 0
    /\ pc[t] \in {"resetting", "erasing"} =>
        my[t].pool \in Range(vPool) /\ nPoolId[my[t].pool] = 0

OneManager == \A t, u \in Managing : t = u

AtWork == \A t \in Threads : pc[t] # "idle" => my[t].pool \in Pools

(* The core counts its pools.                                              *)
IdsCounted == \A i \in Id : phase[i] # "none" => i <= ids

TypeInv == TypeOK /\ AtWork /\ IdsCounted

OwnInv ==
    /\ TypeInv /\ OneManager
    /\ IdsOwned /\ CoresOwned /\ \A t \in Threads : Knows(t)

(* m_mapSocketHandler has the living sockets of the core pool, ...         *)
Living(i) == {s \in Socket : s.pool = i /\ state[s] \notin {"none", "killed"}}

MapsExact == \A p \in Pools : mapSocket[p] = Living(nPoolId[p])

(* ... all of them while the core pool runs.                               *)
StatesFit ==
    \A s \in Socket :
        /\ phase[s.pool] \in {"none", "starting"} => state[s] = "none"
        /\ phase[s.pool] = "creating" => state[s] # "killed"
        /\ phase[s.pool] = "running" => state[s] \notin {"none", "killed"}
        /\ phase[s.pool] = "stopping" => state[s] # "none"
        /\ phase[s.pool] = "gone" => state[s] = "killed"

SocketInv == OwnInv /\ MapsExact /\ StatesFit /\ NoBadPointer

(* A locked socket lives, in a core pool of the pool object of the thread  *)
(* that has locked it.                                                     *)
LocksFit ==
    /\ \A t \in Threads :
        pc[t] \in {"locking", "mapping", "using"} /\ my[t].id # 0 =>
            owner[my[t].id] = my[t].pool
    /\ \A s \in Socket : lockedBy[s] # NoThread =>
        /\ phase[s.pool] \in {"running", "stopping"}
        /\ state[s] \notin {"none", "killed"}
        /\ my[lockedBy[s]].id = s.pool

LockInv == SocketInv /\ LocksFit /\ LockedInHands

(* A loop that was begun saw all sockets of a core pool; since then they   *)
(* only got fewer, and none while it holds m_cs.                           *)
LoopsFit ==
    \A t \in Threads :
        /\ pc[t] = "looping" =>
            /\ csPool[my[t].pool] = t
            /\ my[t].todo \subseteq mapSocket[my[t].pool]
            /\ my[t].id = 0 => my[t].todo = {}
        /\ pc[t] = "connecting" => my[t].id # 0
        /\ pc[t] \in {"looping", "connecting"} /\ my[t].id # 0 =>
            /\ phase[my[t].id] \in {"running", "stopping", "gone"}
            /\ \E M \in SUBSET Socket :
                /\ my[t].size = Cardinality(M) /\ my[t].todo \subseteq M
                /\ nPoolId[my[t].pool] = my[t].id => mapSocket[my[t].pool] \subseteq M

(* A pool is not created while a thread has yet to connect its sockets.    *)
PostApart ==
    \A t, u \in Threads :
        pc[t] \in {"create", "creating"} /\ pc[u] = "post" => my[t].pool # my[u].pool

LoopInv == SocketInv /\ LoopsFit /\ PostApart
----------------------------------------------------------------------------
(* The types, in the parts that an action changes together.                *)
Steps == {"idle", "create", "creating", "setid", "post", "looping", "connecting",
          "destroying", "resetting", "erasing", "locking", "mapping", "using"}
ManagingSteps == {"create", "creating", "setid", "destroying", "resetting", "erasing"}
Locals(n) == [pool : Pools \union {NoPool}, id : 0 .. n,
              sock : Socket \union {NoSocket}, size : Nat,
              todo : SUBSET Socket, first : BOOLEAN, dying : BOOLEAN]

PoolType ==
    /\ vPool \in Seq(Pools) /\ IsInjective(vPool)
    /\ nPoolId \in [Pools -> 0 .. ids]
    /\ mapSocket \in [Pools -> SUBSET Socket]
ThreadType ==
    /\ csPool \in [Pools -> Threads \union {NoThread}]
    /\ pc \in [Threads -> Steps] /\ my \in [Threads -> Locals(ids)]
PhaseType ==
    /\ ids \in 0 .. MaxIds
    /\ phase \in [Id -> {"none", "starting", "creating", "running", "stopping",
                         "gone"}]
    /\ owner \in [Id -> Pools \union {NoPool}]
StateType ==
    /\ state \in [Socket -> {"none", "made", "opening", "connected",
                             "unswitched", "switched", "killed"}]
    /\ lockedBy \in [Socket -> Threads \union {NoThread}]
    /\ fails \in 0 .. MaxFails /\ badPointer \in BOOLEAN

TypedParts == PoolType /\ ThreadType /\ PhaseType /\ StateType

LEMMA TypeParts == (TypeOK <=> TypedParts) /\ (TypedParts' => TypeOK')
<1>1. TypeOK <=> TypedParts
    BY DEF TypeOK, TypedParts, PoolType, ThreadType, PhaseType, StateType, Steps,
           Locals
<1>2. TypedParts' => TypeOK'
    BY DEF TypeOK, TypedParts, PoolType, ThreadType, PhaseType, StateType, Steps,
           Locals
<1> QED
    BY <1>1, <1>2

LEMMA Constants ==
    /\ MaxIds \in Nat /\ MaxFails \in Nat /\ Size \in Nat
    /\ Id = 1 .. MaxIds /\ NoThread \notin Threads /\ NoPool \notin Pools
    /\ \A s \in Socket : s.pool \in Id
BY ConstantsAssumption DEF Id, Socket

LEMMA SocketsFinite == IsFiniteSet(Socket)
<1> DEFINE Pair == Id \X (1 .. Size)
           f == [x \in Pair |-> [pool |-> x[1], nr |-> x[2]]]
<1>1. IsFiniteSet(Id) /\ IsFiniteSet(1 .. Size)
    BY Constants, FS_Interval
<1>2. IsFiniteSet(Pair)
    BY <1>1, FS_Product
<1>3. ASSUME NEW s \in Socket
      PROVE  \E x \in Pair : f[x] = s
  <2>1. s.pool \in Id /\ s.nr \in 1 .. Size /\ s = [pool |-> s.pool, nr |-> s.nr]
    BY DEF Socket
  <2>2. <<s.pool, s.nr>> \in Pair
    BY <2>1
  <2> QED
    BY <2>1, <2>2
<1>4. f \in [Pair -> Socket]
    BY DEF Socket
<1>5. f \in Surjection(Pair, Socket)
    BY <1>3, <1>4 DEF Surjection
<1> QED
    BY <1>2, <1>5, FS_Surjection

(* A thread's step leaves the other threads alone.                         *)
Others(t) == \A u \in Threads : u # t => pc'[u] = pc[u] /\ my'[u] = my[u]

LEMMA LocalFields ==
    ASSUME NEW n \in Nat, NEW r \in Locals(n)
    PROVE  /\ r.pool \in Pools \union {NoPool} /\ r.id \in 0 .. n
           /\ r.sock \in Socket \union {NoSocket} /\ r.size \in Nat
           /\ r.todo \in SUBSET Socket /\ r.first \in BOOLEAN /\ r.dying \in BOOLEAN
BY DEF Locals

LEMMA NoLocalsType == \A n \in Nat : NoLocals \in Locals(n)
BY DEF NoLocals, Locals

LEMMA ReturnStep ==
    ASSUME ThreadType, NEW t \in Threads, Return(t)
    PROVE  pc'[t] = "idle" /\ my'[t] = NoLocals /\ Others(t)
BY DEF Return, Goto, ThreadType, Others

LEMMA ThreadFrame ==
    ASSUME ThreadType, ids' = ids, NEW t \in Threads, Others(t),
           pc' = [pc EXCEPT ![t] = pc'[t]], my' = [my EXCEPT ![t] = my'[t]],
           pc'[t] \in Steps, my'[t] \in Locals(ids),
           csPool' \in [Pools -> Threads \union {NoThread}]
    PROVE  ThreadType'
BY DEF ThreadType

LEMMA InitType == Init => TypeOK
<1> SUFFICES ASSUME Init
             PROVE  TypedParts
    BY TypeParts
<1>1. <<>> \in Seq(Pools)
    BY EmptySeq
<1>2. IsInjective(<<>>)
    BY DEF IsInjective
<1>3. 0 \in 0 .. 0 /\ 0 \in 0 .. MaxIds /\ 0 \in 0 .. MaxFails
    BY Constants
<1>4. PoolType
    BY <1>1, <1>2, <1>3 DEF Init, PoolType
<1>5. ThreadType
    BY NoLocalsType DEF Init, ThreadType, Steps
<1>6. PhaseType /\ StateType
    BY <1>3 DEF Init, PhaseType, StateType
<1> QED
    BY <1>4, <1>5, <1>6 DEF TypedParts
----------------------------------------------------------------------------
(* What a thread does to its own step and locals when it goes from one     *)
(* step to the next and keeps the rest.                                    *)
LEMMA GotoStep ==
    ASSUME ThreadType, NEW t \in Threads, NEW l \in Steps, Goto(t, l)
    PROVE  /\ pc'[t] = l /\ pc' \in [Threads -> Steps]
           /\ \A u \in Threads : u # t => pc'[u] = pc[u]
BY DEF Goto, ThreadType

LEMMA LocalsStep ==
    ASSUME ThreadType, NEW t \in Threads, NEW r \in Locals(ids),
           my' = [my EXCEPT ![t] = r], ids' = ids
    PROVE  /\ my'[t] = r /\ my' \in [Threads -> Locals(ids')]
           /\ \A u \in Threads : u # t => my'[u] = my[u]
BY DEF ThreadType

LEMMA ReturnType ==
    ASSUME ThreadType, PhaseType, ids' = ids, NEW t \in Threads, Return(t),
           csPool' \in [Pools -> Threads \union {NoThread}]
    PROVE  ThreadType'
<1>1. NoLocals \in Locals(ids) /\ "idle" \in Steps
    BY NoLocalsType DEF PhaseType, Steps
<1> QED
    BY <1>1 DEF ThreadType, Return, Goto

(* Appending a new pool object, and taking one out.                        *)
LEMMA AppendPool ==
    ASSUME PoolType, NEW p \in Pools, p \notin Range(vPool)
    PROVE  /\ Append(vPool, p) \in Seq(Pools) /\ IsInjective(Append(vPool, p))
           /\ Range(Append(vPool, p)) = Range(vPool) \union {p}
<1> DEFINE q == Append(vPool, p)
<1>1. vPool \in Seq(Pools) /\ Len(vPool) \in Nat /\ DOMAIN vPool = 1 .. Len(vPool)
    BY LenProperties DEF PoolType
<1>2. /\ q \in Seq(Pools) /\ Len(q) = Len(vPool) + 1
      /\ \A i \in 1 .. Len(vPool) : q[i] = vPool[i]
      /\ q[Len(vPool) + 1] = p
    BY <1>1, AppendProperties
<1> HIDE DEF q
<1>3. DOMAIN q = 1 .. Len(vPool) + 1
    BY <1>2, LenProperties
<1>4. \A i \in 1 .. Len(vPool) : vPool[i] \in Range(vPool)
    BY <1>1 DEF Range
<1>5. IsInjective(q)
  <2> SUFFICES ASSUME NEW i \in DOMAIN q, NEW j \in DOMAIN q, q[i] = q[j]
               PROVE  i = j
    BY DEF IsInjective
  <2>1. CASE i = Len(vPool) + 1 \/ j = Len(vPool) + 1
    BY <1>1, <1>2, <1>3, <1>4, <2>1
  <2>2. CASE i \in 1 .. Len(vPool) /\ j \in 1 .. Len(vPool)
    BY <1>1, <1>2, <2>2 DEF PoolType, IsInjective
  <2> QED
    BY <1>1, <1>3, <2>1, <2>2
<1>6. Range(q) = Range(vPool) \union {p}
  <2>1. Range(q) \subseteq Range(vPool) \union {p}
    BY SMTT(30), <1>1, <1>2, <1>3, <1>4 DEF Range
  <2>2. Range(vPool) \subseteq Range(q)
    BY <1>1, <1>2, <1>3 DEF Range
  <2>3. p \in Range(q)
    BY <1>1, <1>2, <1>3 DEF Range
  <2> QED
    BY <2>1, <2>2, <2>3
<1> QED
    BY <1>2, <1>5, <1>6 DEF q

(* Taking the i-th element out of a sequence.                              *)
LEMMA RemoveAtProperties ==
    ASSUME NEW S, NEW q \in Seq(S), NEW i \in 1 .. Len(q)
    PROVE  /\ RemoveAt(q, i) \in Seq(S)
           /\ Len(RemoveAt(q, i)) = Len(q) - 1
           /\ \A j \in 1 .. Len(q) - 1 :
                RemoveAt(q, i)[j] = IF j < i THEN q[j] ELSE q[j + 1]
<1> DEFINE a == SubSeq(q, 1, i - 1)
           b == SubSeq(q, i + 1, Len(q))
<1>0. Len(q) \in Nat /\ i \in Int /\ \A j \in 1 .. Len(q) : q[j] \in S
    BY LenProperties
<1>1. /\ a \in Seq(S) /\ Len(a) = i - 1
      /\ \A j \in 1 .. i - 1 : a[j] = q[j]
  <2>1. \A j \in 1 .. i - 1 : q[j] \in S
    BY <1>0
  <2>2. i - 1 \in Int /\ (IF 1 <= i - 1 THEN (i - 1) - 1 + 1 ELSE 0) = i - 1
    BY <1>0
  <2> QED
    BY <2>1, <2>2, SubSeqProperties
<1>2. /\ b \in Seq(S) /\ Len(b) = Len(q) - i
      /\ \A j \in 1 .. Len(q) - i : b[j] = q[i + j]
  <2>1. \A j \in i + 1 .. Len(q) : q[j] \in S
    BY <1>0
  <2>2. /\ i + 1 \in Int
        /\ (IF i + 1 <= Len(q) THEN Len(q) - (i + 1) + 1 ELSE 0) = Len(q) - i
    BY <1>0
  <2>3. /\ b \in Seq(S)
        /\ Len(b) = IF i + 1 <= Len(q) THEN Len(q) - (i + 1) + 1 ELSE 0
        /\ \A j \in 1 .. Len(q) - (i + 1) + 1 : b[j] = q[(i + 1) + j - 1]
    BY SMTT(30), <1>0, <2>1, <2>2, SubSeqProperties
  <2> QED
    BY <1>0, <2>2, <2>3
<1> HIDE DEF a, b
<1>3. /\ a \o b \in Seq(S) /\ Len(a \o b) = Len(q) - 1
      /\ \A j \in 1 .. Len(q) - 1 :
            (a \o b)[j] = IF j <= i - 1 THEN a[j] ELSE b[j - (i - 1)]
  <2>1. /\ a \o b \in Seq(S) /\ Len(a \o b) = Len(a) + Len(b)
        /\ \A j \in 1 .. Len(a) + Len(b) :
              (a \o b)[j] = IF j <= Len(a) THEN a[j] ELSE b[j - Len(a)]
    BY <1>1, <1>2, ConcatProperties
  <2>2. Len(a) + Len(b) = Len(q) - 1
    BY <1>0, <1>1, <1>2
  <2> QED
    BY <1>1, <2>1, <2>2
<1>4. RemoveAt(q, i) = a \o b
    BY DEF RemoveAt, a, b
<1>5. ASSUME NEW j \in 1 .. Len(q) - 1
      PROVE  (a \o b)[j] = IF j < i THEN q[j] ELSE q[j + 1]
  <2>1. CASE j < i
    BY <2>1, <1>0, <1>1, <1>3
  <2>2. CASE ~(j < i)
    <3>1. j - (i - 1) \in 1 .. Len(q) - i /\ i + (j - (i - 1)) = j + 1
      <4> DEFINE n == Len(q)
      <4> SUFFICES ASSUME n \in Nat, j \in 1 .. n - 1, ~(j < i), i \in 1 .. n
                   PROVE  j - (i - 1) \in 1 .. n - i /\ i + (j - (i - 1)) = j + 1
        BY <2>2, <1>0
      <4> HIDE DEF n
      <4> QED
        OBVIOUS
    <3>2. b[j - (i - 1)] = q[i + (j - (i - 1))]
      BY <3>1, <1>2
    <3>3. ~(j <= i - 1)
      BY <2>2, <1>0
    <3>4. (a \o b)[j] = b[j - (i - 1)]
      BY <3>3, <1>3
    <3> QED
      BY <2>2, <3>1, <3>2, <3>4
  <2> QED
    BY <2>1, <2>2
<1> QED
    BY <1>3, <1>4, <1>5

LEMMA ErasePool ==
    ASSUME PoolType, NEW n \in DOMAIN vPool,
           vPool' = RemoveAt(vPool, n)
    PROVE  /\ vPool' \in Seq(Pools) /\ IsInjective(vPool')
           /\ Range(vPool') = Range(vPool) \ {vPool[n]}
<1> DEFINE L == Len(vPool)
<1>1. /\ vPool \in Seq(Pools) /\ L \in Nat /\ DOMAIN vPool = 1 .. L /\ n \in 1 .. L
      /\ \A i \in 1 .. L : vPool[i] \in Pools
      /\ \A i, j \in 1 .. L : vPool[i] = vPool[j] => i = j
    BY LenProperties, ElementOfSeq DEF PoolType, IsInjective
<1>2. /\ vPool' \in Seq(Pools) /\ Len(vPool') = L - 1
      /\ \A m \in 1 .. L - 1 : vPool'[m] = IF m < n THEN vPool[m] ELSE vPool[m + 1]
    BY <1>1, RemoveAtProperties
<1> HIDE DEF L
<1>3. /\ DOMAIN vPool' = 1 .. L - 1
      /\ \A m \in 1 .. L - 1 : vPool'[m] = vPool[IF m < n THEN m ELSE m + 1]
    BY <1>2, LenProperties
<1>4. \A m \in 1 .. L - 1 : (IF m < n THEN m ELSE m + 1) \in 1 .. L
    BY <1>1
<1>5. IsInjective(vPool')
  <2> SUFFICES ASSUME NEW i \in 1 .. L - 1, NEW j \in 1 .. L - 1, vPool'[i] = vPool'[j]
               PROVE  i = j
    BY <1>3 DEF IsInjective
  <2>1. (IF i < n THEN i ELSE i + 1) = (IF j < n THEN j ELSE j + 1)
    BY <1>1, <1>3, <1>4
  <2> QED
    BY <1>1, <2>1
<1>7. Range(vPool') \subseteq Range(vPool) \ {vPool[n]}
  <2> SUFFICES ASSUME NEW i \in 1 .. L - 1
               PROVE  vPool'[i] \in Range(vPool) /\ vPool'[i] # vPool[n]
    BY <1>3 DEF Range
  <2> DEFINE j == IF i < n THEN i ELSE i + 1
  <2>1. j \in 1 .. L /\ j # n /\ vPool'[i] = vPool[j]
    BY <1>1, <1>3, <1>4
  <2> HIDE DEF j
  <2> QED
    BY <1>1, <2>1 DEF Range
<1>8. ASSUME NEW j \in 1 .. L, j # n
      PROVE  vPool[j] \in Range(vPool')
  <2>1. CASE j < n
    <3>1. j \in 1 .. L - 1 /\ vPool'[j] = vPool[j]
      BY <1>1, <1>3, <2>1
    <3> QED
      BY <1>3, <3>1 DEF Range
  <2>2. CASE j > n
    <3>1. j - 1 \in 1 .. L - 1 /\ vPool'[j - 1] = vPool[j]
      BY <1>1, <1>3, <2>2
    <3> QED
      BY <1>3, <3>1 DEF Range
  <2> QED
    BY <1>1, <1>8, <2>1, <2>2
<1>9. Range(vPool) \ {vPool[n]} \subseteq Range(vPool')
    BY <1>1, <1>8 DEF Range
<1> QED
    BY <1>2, <1>5, <1>7, <1>9
----------------------------------------------------------------------------
(* The steps that manage pools, one by one: what they do to the thread     *)
(* itself.                                                                 *)
StartEffect(t, p) ==
    /\ pc'[t] = (IF IsStarted(p) THEN "post" ELSE "create")
    /\ my'[t].pool = p

LEMMA StartStep ==
    ASSUME TypedParts, NEW t \in Threads, NEW p \in Pools, StartSocketPool(t, p)
    PROVE  ThreadType' /\ Others(t) /\ StartEffect(t, p)
<1> USE DEF TypedParts
<1>1. /\ Goto(t, IF IsStarted(p) THEN "post" ELSE "create")
      /\ my' = [my EXCEPT ![t].pool = p] /\ UNCHANGED <<csPool, ids>>
    BY DEF StartSocketPool, coreVars
<1> DEFINE r == [my[t] EXCEPT !.pool = p]
           l == IF IsStarted(p) THEN "post" ELSE "create"
<1>2. r \in Locals(ids) /\ r.pool = p
    BY DEF ThreadType, Locals
<1>3. my' = [my EXCEPT ![t] = r]
    BY <1>1
<1>4. l \in Steps /\ Goto(t, l)
    BY <1>1 DEF Steps
<1> HIDE DEF r, l
<1>5. /\ pc'[t] = l /\ my'[t] = r /\ Others(t)
      /\ pc' \in [Threads -> Steps] /\ my' \in [Threads -> Locals(ids')]
    BY ZenonT(40), <1>1, <1>2, <1>3, <1>4, GotoStep, LocalsStep DEF Others
<1> QED
    BY <1>1, <1>2, <1>5 DEF ThreadType, StartEffect, l

LEMMA CreateStep ==
    ASSUME TypedParts, NEW t \in Threads, CreateSocketPool(t)
    PROVE  /\ ThreadType' /\ Others(t) /\ ids' = ids + 1 /\ ids' \in Id
           /\ pc'[t] = "creating" /\ my'[t].pool = my[t].pool /\ my'[t].id = ids'
<1> USE DEF TypedParts
<1>1. /\ Goto(t, "creating") /\ ids < MaxIds /\ ids' = ids + 1
      /\ my' = [my EXCEPT ![t].id = ids'] /\ UNCHANGED csPool
    BY DEF CreateSocketPool
<1> DEFINE r == [my[t] EXCEPT !.id = ids']
<1>2. /\ ids' \in Id /\ ids' \in 0 .. ids' /\ 0 .. ids \subseteq 0 .. ids'
      /\ ids \in Nat /\ ids' \in Nat
    BY <1>1, Constants DEF PhaseType
<1>3. my[t] \in Locals(ids') /\ my \in [Threads -> Locals(ids')]
  <2>1. Locals(ids) \subseteq Locals(ids')
    BY <1>2 DEF Locals
  <2> QED
    BY <2>1 DEF ThreadType
<1>4. r \in Locals(ids') /\ r.id = ids' /\ r.pool = my[t].pool
    BY <1>2, <1>3 DEF Locals
<1>5. my' = [my EXCEPT ![t] = r]
    BY <1>1
<1> HIDE DEF r
<1>6. my' \in [Threads -> Locals(ids')] /\ my'[t] = r
    BY <1>3, <1>4, <1>5
<1>7. \A u \in Threads : u # t => my'[u] = my[u]
    BY <1>5 DEF ThreadType
<1>8. /\ pc'[t] = "creating" /\ pc' \in [Threads -> Steps]
      /\ \A u \in Threads : u # t => pc'[u] = pc[u]
    BY <1>1, GotoStep DEF Steps
<1> QED
    BY <1>1, <1>2, <1>4, <1>6, <1>7, <1>8 DEF ThreadType, Others

(* These leave the locals alone.                                           *)
LEMMA KeepStep ==
    ASSUME TypedParts, NEW t \in Threads,
           \/ CreateReturns(t) \/ SetPoolId(t) \/ DestroyReturns(t)
           \/ ShutdownReset(t) /\ my[t].dying
    PROVE  /\ ThreadType' /\ Others(t) /\ my' = my
           /\ CreateReturns(t) => pc'[t] = "setid"
           /\ SetPoolId(t) => pc'[t] = "post"
           /\ DestroyReturns(t) => pc'[t] = "resetting"
           /\ ShutdownReset(t) => pc'[t] = "erasing"
<1> USE DEF TypedParts
<1>1. PICK l \in {"setid", "post", "resetting", "erasing"} :
        /\ Goto(t, l) /\ UNCHANGED <<my, csPool, ids>>
        /\ CreateReturns(t) => l = "setid"
        /\ SetPoolId(t) => l = "post"
        /\ DestroyReturns(t) => l = "resetting"
        /\ ShutdownReset(t) => l = "erasing"
  <2>1. CASE CreateReturns(t)
    <3>1. ~SetPoolId(t) /\ ~DestroyReturns(t) /\ ~ShutdownReset(t)
      BY <2>1 DEF CreateReturns, SetPoolId, DestroyReturns, ShutdownReset
    <3>2. Goto(t, "setid") /\ UNCHANGED <<my, csPool, ids>>
      BY <2>1 DEF CreateReturns
    <3> QED
      BY <3>1, <3>2
  <2>2. CASE SetPoolId(t)
    <3>1. ~CreateReturns(t) /\ ~DestroyReturns(t) /\ ~ShutdownReset(t)
      BY <2>2 DEF CreateReturns, SetPoolId, DestroyReturns, ShutdownReset
    <3>2. Goto(t, "post") /\ UNCHANGED <<my, csPool, ids>>
      BY <2>2 DEF SetPoolId, coreVars
    <3> QED
      BY <3>1, <3>2
  <2>3. CASE DestroyReturns(t)
    <3>1. ~CreateReturns(t) /\ ~SetPoolId(t) /\ ~ShutdownReset(t)
      BY <2>3 DEF CreateReturns, SetPoolId, DestroyReturns, ShutdownReset
    <3>2. Goto(t, "resetting") /\ UNCHANGED <<my, csPool, ids>>
      BY <2>3 DEF DestroyReturns, coreVars
    <3> QED
      BY <3>1, <3>2
  <2>4. CASE ShutdownReset(t) /\ my[t].dying
    <3>1. ~CreateReturns(t) /\ ~SetPoolId(t) /\ ~DestroyReturns(t)
      BY <2>4 DEF CreateReturns, SetPoolId, DestroyReturns, ShutdownReset
    <3>2. Goto(t, "erasing") /\ UNCHANGED <<my, csPool, ids>>
      BY <2>4 DEF ShutdownReset, coreVars
    <3> QED
      BY <3>1, <3>2
  <2> QED
    BY <2>1, <2>2, <2>3, <2>4
<1>2. /\ pc'[t] = l /\ pc' \in [Threads -> Steps]
      /\ \A u \in Threads : u # t => pc'[u] = pc[u]
    BY <1>1, GotoStep DEF Steps
<1> QED
    BY <1>1, <1>2 DEF ThreadType, Others

LEMMA ShutdownStep ==
    ASSUME TypedParts, NEW t \in Threads, NEW p \in Pools,
           NEW destructor \in BOOLEAN, ShutdownPool(t, p, destructor)
    PROVE  /\ ThreadType' /\ Others(t)
           /\ my'[t].pool = p /\ my'[t].id = nPoolId[p]
           /\ IF nPoolId[p] # 0 /\ phase[nPoolId[p]] \in {"running", "stopping"}
              THEN /\ phase' = [phase EXCEPT ![nPoolId[p]] = "stopping"]
                   /\ pc'[t] = "destroying"
              ELSE ~IsStarted(p) /\ pc'[t] = "resetting" /\ phase' = phase
<1> USE DEF TypedParts
<1> DEFINE r == [my[t] EXCEPT !.pool = p, !.id = nPoolId[p], !.dying = destructor]
           stop == nPoolId[p] # 0 /\ phase[nPoolId[p]] \in {"running", "stopping"}
           l == IF stop THEN "destroying" ELSE "resetting"
<1>1. /\ my' = [my EXCEPT ![t].pool = p, ![t].id = nPoolId[p],
                          ![t].dying = destructor]
      /\ Goto(t, l) /\ UNCHANGED <<csPool, ids>>
    BY DEF ShutdownPool
<1>2. r \in Locals(ids) /\ r.pool = p /\ r.id = nPoolId[p]
  <2>1. nPoolId[p] \in 0 .. ids
    BY DEF PoolType
  <2> QED
    BY <2>1 DEF ThreadType, Locals
<1>3. my' = [my EXCEPT ![t] = r]
    BY <1>1 DEF ThreadType
<1>4. l \in Steps
    BY DEF Steps
<1>0. Goto(t, l) /\ ids' = ids
    BY <1>1
<1> HIDE DEF r, l
<1>5. /\ pc'[t] = l /\ my'[t] = r /\ Others(t)
      /\ pc' \in [Threads -> Steps] /\ my' \in [Threads -> Locals(ids')]
  <2>1. /\ pc'[t] = l /\ pc' \in [Threads -> Steps]
        /\ \A u \in Threads : u # t => pc'[u] = pc[u]
    BY <1>0, <1>4, GotoStep
  <2>2. /\ my'[t] = r /\ my' \in [Threads -> Locals(ids')]
        /\ \A u \in Threads : u # t => my'[u] = my[u]
    BY <1>0, <1>2, <1>3, LocalsStep
  <2> QED
    BY <2>1, <2>2 DEF Others
<1>6. ThreadType'
    BY <1>1, <1>5 DEF ThreadType
<1> QED
    BY <1>2, <1>5, <1>6 DEF ShutdownPool, l

(* The steps after which a call returns.                                   *)
LEMMA ReturnSteps ==
    ASSUME TypedParts, NEW t \in Threads,
           \/ ShutdownReset(t) /\ ~my[t].dying
           \/ Erase(t) \/ PostEnd(t) \/ LockTimesOut(t) \/ Unlock(t)
    PROVE  ThreadType' /\ Others(t) /\ pc'[t] = "idle" /\ my'[t] = NoLocals
<1> USE DEF TypedParts
<1>1. Return(t) /\ ids' = ids
    BY DEF ShutdownReset, Erase, PostEnd, LockTimesOut, Unlock, coreVars
<1>2. csPool' \in [Pools -> Threads \union {NoThread}]
  <2>1. csPool' = csPool \/ csPool' = [csPool EXCEPT ![my[t].pool] = NoThread]
    BY DEF ShutdownReset, Erase, PostEnd, LockTimesOut, Unlock
  <2> QED
    BY <2>1 DEF ThreadType
<1> QED
    BY <1>1, <1>2, ReturnType, ReturnStep

(* The steps of PostProcess.                                               *)
LEMMA PostProcessStep ==
    ASSUME TypedParts, AtWork, NEW t \in Threads, PostProcess(t)
    PROVE  /\ ThreadType' /\ Others(t) /\ pc[t] = "post" /\ pc'[t] = "looping"
           /\ my[t].pool \in Pools /\ my'[t].pool = my[t].pool
           /\ my'[t].id = nPoolId[my[t].pool]
           /\ my'[t].size = Cardinality(mapSocket[my[t].pool])
           /\ my'[t].todo = mapSocket[my[t].pool]
           /\ csPool[my[t].pool] = NoThread
           /\ csPool' = [csPool EXCEPT ![my[t].pool] = t]
<1> USE DEF TypedParts
<1> DEFINE p == my[t].pool
           n == Cardinality(mapSocket[p])
           r == [my[t] EXCEPT !.id = nPoolId[p], !.size = n, !.todo = mapSocket[p],
                              !.first = TRUE]
<1>1. /\ pc[t] = "post" /\ csPool[p] = NoThread /\ Goto(t, "looping")
      /\ my' = [my EXCEPT ![t] = [@ EXCEPT !.id = nPoolId[p], !.size = n,
                                           !.todo = mapSocket[p], !.first = TRUE]]
      /\ csPool' = [csPool EXCEPT ![p] = t] /\ ids' = ids
    BY DEF PostProcess, Free, coreVars
<1>2. p \in Pools
    BY <1>1 DEF AtWork
<1>3. nPoolId[p] \in 0 .. ids /\ mapSocket[p] \in SUBSET Socket
    BY <1>2 DEF PoolType
<1>4. n \in Nat
    BY <1>3, SocketsFinite, FS_Subset, FS_CardinalityType
<1>5. my' = [my EXCEPT ![t] = r]
    BY <1>1 DEF ThreadType
<1> HIDE DEF n
<1>6. /\ r \in Locals(ids) /\ r.pool = p /\ r.id = nPoolId[p] /\ r.size = n
      /\ r.todo = mapSocket[p]
    BY <1>2, <1>3, <1>4 DEF ThreadType, Locals
<1> HIDE DEF r
<1>7. /\ my'[t] = r /\ my' \in [Threads -> Locals(ids')]
      /\ \A u \in Threads : u # t => my'[u] = my[u]
    BY <1>1, <1>5, <1>6, LocalsStep
<1>8. /\ pc'[t] = "looping" /\ pc' \in [Threads -> Steps]
      /\ \A u \in Threads : u # t => pc'[u] = pc[u]
    BY <1>1, GotoStep DEF Steps
<1>9. csPool' \in [Pools -> Threads \union {NoThread}]
    BY <1>1 DEF ThreadType
<1>10. ThreadType'
    BY <1>7, <1>8, <1>9 DEF ThreadType
<1> QED
    BY <1>1, <1>2, <1>6, <1>7, <1>8, <1>10 DEF Others, n

(* A socket is taken from those that are left to do.                       *)
LEMMA PostTakes ==
    ASSUME TypedParts, AtWork, NEW t \in Threads,
           PostSkip(t) \/ PostFirst(t) \/ PostNext(t)
    PROVE  /\ ThreadType' /\ Others(t) /\ pc[t] = "looping" /\ my[t].todo # {}
           /\ my'[t].pool = my[t].pool /\ my'[t].id = my[t].id
           /\ my'[t].size = my[t].size /\ my'[t].todo \subseteq my[t].todo
           /\ \/ pc'[t] = "looping" /\ csPool' = csPool
              \/ /\ pc'[t] = "connecting"
                 /\ csPool' = [csPool EXCEPT ![my[t].pool] = NoThread]
           /\ \A s \in Socket : state'[s] \in
                {state[s]} \union (IF state[s] = "made" THEN {"opening"} ELSE {})
<1> USE DEF TypedParts
<1>0. my \in [Threads -> Locals(ids)] /\ my[t] \in Locals(ids)
    BY DEF ThreadType
<1>1. PICK s \in my[t].todo : \E r \in Locals(ids) :
        /\ my' = [my EXCEPT ![t] = r]
        /\ r.pool = my[t].pool /\ r.id = my[t].id /\ r.size = my[t].size
        /\ r.todo = my[t].todo \ {s}
        /\ state' = state \/ Connect(s)
  <2>1. CASE PostSkip(t)
    <3>1. PICK s \in my[t].todo :
            my' = [my EXCEPT ![t].todo = @ \ {s}, ![t].first = FALSE]
      BY <2>1 DEF PostSkip
    <3>2. state' = state
      BY <2>1 DEF PostSkip, coreVars
    <3> DEFINE r == [my[t] EXCEPT !.todo = my[t].todo \ {s}, !.first = FALSE]
    <3>3. my' = [my EXCEPT ![t] = r]
      BY <1>0, <3>1
    <3>4. /\ r \in Locals(ids) /\ r.pool = my[t].pool /\ r.id = my[t].id
          /\ r.size = my[t].size /\ r.todo = my[t].todo \ {s}
      BY <1>0 DEF Locals
    <3> QED
      BY <3>2, <3>3, <3>4
  <2>2. CASE PostFirst(t)
    <3>1. PICK s \in my[t].todo :
            /\ Connect(s)
            /\ my' = [my EXCEPT ![t].sock = s, ![t].todo = @ \ {s}]
      BY <2>2 DEF PostFirst
    <3> DEFINE r == [my[t] EXCEPT !.sock = s, !.todo = my[t].todo \ {s}]
    <3>2. my' = [my EXCEPT ![t] = r]
      BY <1>0, <3>1
    <3>3. s \in Socket
      BY <1>0 DEF Locals
    <3>4. /\ r \in Locals(ids) /\ r.pool = my[t].pool /\ r.id = my[t].id
          /\ r.size = my[t].size /\ r.todo = my[t].todo \ {s}
      BY <1>0, <3>3 DEF Locals
    <3> QED
      BY <3>1, <3>2, <3>4
  <2>3. CASE PostNext(t)
    <3>1. PICK s \in my[t].todo : Connect(s) /\ my' = [my EXCEPT ![t].todo = @ \ {s}]
      BY <2>3 DEF PostNext
    <3> DEFINE r == [my[t] EXCEPT !.todo = my[t].todo \ {s}]
    <3>2. my' = [my EXCEPT ![t] = r]
      BY <1>0, <3>1
    <3>3. /\ r \in Locals(ids) /\ r.pool = my[t].pool /\ r.id = my[t].id
          /\ r.size = my[t].size /\ r.todo = my[t].todo \ {s}
      BY <1>0 DEF Locals
    <3> QED
      BY <3>1, <3>2, <3>3
  <2> QED
    BY <2>1, <2>2, <2>3
<1>3. PICK r \in Locals(ids) :
        /\ my' = [my EXCEPT ![t] = r]
        /\ r.pool = my[t].pool /\ r.id = my[t].id /\ r.size = my[t].size
        /\ r.todo = my[t].todo \ {s}
    BY <1>1
<1>5. pc[t] = "looping" /\ ids' = ids
    BY DEF PostSkip, PostFirst, PostNext, coreVars
<1>6. /\ my'[t] = r /\ my' \in [Threads -> Locals(ids')]
      /\ \A u \in Threads : u # t => my'[u] = my[u]
    BY <1>3, <1>5, LocalsStep
<1>7. PICK l \in {"looping", "connecting"} :
        /\ pc' = [pc EXCEPT ![t] = l]
        /\ IF l = "looping" THEN csPool' = csPool
           ELSE csPool' = [csPool EXCEPT ![my[t].pool] = NoThread]
  <2>1. CASE PostSkip(t) \/ PostNext(t)
    <3>1. pc' = [pc EXCEPT ![t] = "looping"] /\ csPool' = csPool
      BY <1>5, <2>1 DEF PostSkip, PostNext, ThreadType
    <3> QED
      BY <3>1
  <2>2. CASE PostFirst(t)
    <3>1. /\ pc' = [pc EXCEPT ![t] = "connecting"]
          /\ csPool' = [csPool EXCEPT ![my[t].pool] = NoThread]
      BY <2>2 DEF PostFirst, Goto
    <3> QED
      BY <3>1
  <2> QED
    BY <2>1, <2>2
<1>8. /\ pc'[t] = l /\ pc' \in [Threads -> Steps]
      /\ \A u \in Threads : u # t => pc'[u] = pc[u]
    BY <1>7 DEF ThreadType, Steps
<1>9. csPool' \in [Pools -> Threads \union {NoThread}]
    BY <1>7 DEF ThreadType
<1>10. \A x \in Socket : state'[x] \in
            {state[x]} \union (IF state[x] = "made" THEN {"opening"} ELSE {})
    BY <1>1 DEF Connect, StateType
<1>11. ThreadType' /\ Others(t)
    BY <1>6, <1>8, <1>9 DEF ThreadType, Others
<1>12. my'[t].todo \subseteq my[t].todo /\ my[t].todo # {}
    BY <1>3, <1>6
<1> QED
    BY <1>3, <1>5, <1>6, <1>7, <1>8, <1>10, <1>11, <1>12

(* After the first connection the loop ends, or goes on with m_cs.         *)
LEMMA PostRelockStep ==
    ASSUME TypedParts, AtWork, NEW t \in Threads, PostRelock(t)
    PROVE  /\ ThreadType' /\ Others(t) /\ pc[t] = "connecting"
           /\ my[t].pool \in Pools /\ csPool[my[t].pool] = NoThread
           /\ \/ pc'[t] = "idle" /\ my'[t] = NoLocals /\ csPool' = csPool
              \/ /\ my[t].id = nPoolId[my[t].pool]
                 /\ my[t].size = Cardinality(mapSocket[my[t].pool])
                 /\ pc'[t] = "looping" /\ csPool' = [csPool EXCEPT ![my[t].pool] = t]
                 /\ my'[t].pool = my[t].pool /\ my'[t].id = my[t].id
                 /\ my'[t].size = my[t].size /\ my'[t].todo = my[t].todo
<1> USE DEF TypedParts
<1>0. my \in [Threads -> Locals(ids)] /\ my[t] \in Locals(ids)
    BY DEF ThreadType
<1>1. pc[t] = "connecting" /\ csPool[my[t].pool] = NoThread /\ ids' = ids
    BY DEF PostRelock, Waited, Free, coreVars
<1>2. my[t].pool \in Pools
    BY <1>1 DEF AtWork
<1>3. CASE Return(t) /\ UNCHANGED csPool
  <2>1. ThreadType'
    BY <1>1, <1>3, ReturnType DEF ThreadType
  <2> QED
    BY <1>1, <1>2, <1>3, <2>1, ReturnStep
<1>4. CASE /\ my[t].id = nPoolId[my[t].pool]
           /\ my[t].size = Cardinality(mapSocket[my[t].pool])
           /\ PostGoOn(t)
  <2> DEFINE b == state[my[t].sock] # "switched"
             r == [my[t] EXCEPT !.sock = NoSocket, !.first = b]
  <2>0. b \in BOOLEAN
    OBVIOUS
  <2> HIDE DEF b
  <2>1. my' = [my EXCEPT ![t] = r] /\ Goto(t, "looping")
        /\ csPool' = [csPool EXCEPT ![my[t].pool] = t]
    BY <1>0, <1>4 DEF PostGoOn, b
  <2>2. /\ r \in Locals(ids) /\ r.pool = my[t].pool /\ r.id = my[t].id
        /\ r.size = my[t].size /\ r.todo = my[t].todo
    BY <1>0, <2>0 DEF Locals
  <2> HIDE DEF r
  <2>3. /\ my'[t] = r /\ my' \in [Threads -> Locals(ids')]
        /\ \A u \in Threads : u # t => my'[u] = my[u]
    BY <1>1, <2>1, <2>2, LocalsStep
  <2>4. /\ pc'[t] = "looping" /\ pc' \in [Threads -> Steps]
        /\ \A u \in Threads : u # t => pc'[u] = pc[u]
    BY <2>1, GotoStep DEF Steps
  <2>5. csPool' \in [Pools -> Threads \union {NoThread}]
    BY <2>1 DEF ThreadType
  <2>6. ThreadType' /\ Others(t)
    BY <2>3, <2>4, <2>5 DEF ThreadType, Others
  <2> QED
    BY <1>1, <1>2, <1>4, <2>1, <2>2, <2>3, <2>4, <2>6
<1> QED
    BY <1>3, <1>4 DEF PostRelock

(* The steps of Lock.                                                      *)
LEMMA LockStep ==
    ASSUME TypedParts, NEW t \in Threads, NEW p \in Pools, Lock(t, p)
    PROVE  /\ ThreadType' /\ Others(t) /\ pc[t] = "idle" /\ pc'[t] = "locking"
           /\ my'[t].pool = p /\ my'[t].id = nPoolId[p]
<1> USE DEF TypedParts
<1> DEFINE r == [my[t] EXCEPT !.pool = p, !.id = nPoolId[p]]
<1>0. my \in [Threads -> Locals(ids)] /\ my[t] \in Locals(ids) /\ nPoolId[p] \in 0 .. ids
    BY DEF ThreadType, PoolType
<1>1. /\ pc[t] = "idle" /\ Goto(t, "locking") /\ UNCHANGED <<csPool, ids>>
      /\ my' = [my EXCEPT ![t].pool = p, ![t].id = nPoolId[p]]
    BY DEF Lock, coreVars
<1>2. my' = [my EXCEPT ![t] = r]
    BY <1>0, <1>1
<1>3. r \in Locals(ids) /\ r.pool = p /\ r.id = nPoolId[p]
    BY <1>0 DEF Locals
<1> HIDE DEF r
<1>4. /\ my'[t] = r /\ my' \in [Threads -> Locals(ids')]
      /\ \A u \in Threads : u # t => my'[u] = my[u]
    BY <1>1, <1>2, <1>3, LocalsStep
<1>5. /\ pc'[t] = "locking" /\ pc' \in [Threads -> Steps]
      /\ \A u \in Threads : u # t => pc'[u] = pc[u]
    BY <1>1, GotoStep DEF Steps
<1>6. ThreadType' /\ Others(t)
    BY <1>1, <1>4, <1>5 DEF ThreadType, Others
<1> QED
    BY <1>1, <1>3, <1>4, <1>5, <1>6

LEMMA LockASocketStep ==
    ASSUME TypedParts, NEW t \in Threads, LockASocket(t)
    PROVE  /\ ThreadType' /\ Others(t) /\ pc[t] = "locking" /\ pc'[t] = "mapping"
           /\ my[t].id # 0 /\ phase[my[t].id] = "running"
           /\ my'[t].pool = my[t].pool /\ my'[t].id = my[t].id
           /\ \E s \in Socket :
                /\ s.pool = my[t].id /\ state[s] = "switched"
                /\ lockedBy[s] = NoThread /\ my'[t].sock = s
                /\ lockedBy' = [lockedBy EXCEPT ![s] = t]
<1> USE DEF TypedParts
<1>0. my \in [Threads -> Locals(ids)] /\ my[t] \in Locals(ids)
    BY DEF ThreadType
<1>1. PICK s \in Socket :
        /\ s.pool = my[t].id /\ state[s] = "switched" /\ lockedBy[s] = NoThread
        /\ lockedBy' = [lockedBy EXCEPT ![s] = t]
        /\ my' = [my EXCEPT ![t].sock = s]
    BY DEF LockASocket
<1>2. /\ pc[t] = "locking" /\ Goto(t, "mapping") /\ UNCHANGED <<csPool, ids>>
      /\ my[t].id # 0 /\ phase[my[t].id] = "running"
    BY DEF LockASocket
<1> DEFINE r == [my[t] EXCEPT !.sock = s]
<1>3. my' = [my EXCEPT ![t] = r]
    BY <1>0, <1>1
<1>4. r \in Locals(ids) /\ r.pool = my[t].pool /\ r.id = my[t].id /\ r.sock = s
    BY <1>0 DEF Locals
<1> HIDE DEF r
<1>5. /\ my'[t] = r /\ my' \in [Threads -> Locals(ids')]
      /\ \A u \in Threads : u # t => my'[u] = my[u]
    BY <1>2, <1>3, <1>4, LocalsStep
<1>6. /\ pc'[t] = "mapping" /\ pc' \in [Threads -> Steps]
      /\ \A u \in Threads : u # t => pc'[u] = pc[u]
    BY <1>2, GotoStep DEF Steps
<1>7. ThreadType' /\ Others(t)
    BY <1>2, <1>5, <1>6 DEF ThreadType, Others
<1> QED
    BY <1>1, <1>2, <1>4, <1>5, <1>6, <1>7

LEMMA MapToHandlerStep ==
    ASSUME TypedParts, NEW t \in Threads, MapToHandler(t)
    PROVE  /\ ThreadType' /\ Others(t) /\ pc[t] = "mapping"
           /\ IF my[t].sock \in mapSocket[my[t].pool]
              THEN pc'[t] = "using" /\ my' = my
              ELSE pc'[t] = "idle" /\ my'[t] = NoLocals
<1> USE DEF TypedParts
<1>1. pc[t] = "mapping" /\ UNCHANGED <<csPool, ids>>
    BY DEF MapToHandler, coreVars
<1>2. CASE my[t].sock \in mapSocket[my[t].pool]
  <2>1. Goto(t, "using") /\ my' = my
    BY <1>2 DEF MapToHandler
  <2>2. /\ pc'[t] = "using" /\ pc' \in [Threads -> Steps]
        /\ \A u \in Threads : u # t => pc'[u] = pc[u]
    BY <2>1, GotoStep DEF Steps
  <2> QED
    BY <1>1, <1>2, <2>1, <2>2 DEF ThreadType, Others
<1>3. CASE my[t].sock \notin mapSocket[my[t].pool]
  <2>1. Return(t)
    BY <1>3 DEF MapToHandler
  <2>2. ThreadType'
    BY <1>1, <2>1, ReturnType DEF ThreadType
  <2> QED
    BY <1>1, <1>3, <2>1, <2>2, ReturnStep
<1> QED
    BY <1>2, <1>3
----------------------------------------------------------------------------
LEMMA ThreadTypes ==
    ASSUME TypedParts, AtWork, NEW t \in Threads, Begin(t) \/ GoOn(t) \/ Unlock(t)
    PROVE  ThreadType' /\ Others(t) /\ AtWork'
<1>1. SUFFICES /\ ThreadType' /\ Others(t)
               /\ pc'[t] # "idle" => my'[t].pool \in Pools
    BY <1>1 DEF AtWork, Others
<1>2. pc[t] # "idle" => my[t].pool \in Pools
    BY DEF AtWork
<1>3. ASSUME NEW p \in Pools,
             \/ Construct(t, p) \/ StartSocketPool(t, p) \/ Lock(t, p)
             \/ \E destructor \in BOOLEAN : ShutdownPool(t, p, destructor)
      PROVE  /\ ThreadType' /\ Others(t)
             /\ pc'[t] # "idle" => my'[t].pool \in Pools
  <2>1. CASE Construct(t, p)
    <3>1. UNCHANGED <<csPool, pc, my, ids>>
      BY <2>1 DEF Construct, threadVars, coreVars
    <3> QED
      BY <1>2, <3>1 DEF TypedParts, ThreadType, Others
  <2>2. CASE StartSocketPool(t, p)
    BY <2>2, StartStep DEF StartEffect
  <2>3. CASE Lock(t, p)
    BY <2>3, LockStep
  <2>4. CASE \E destructor \in BOOLEAN : ShutdownPool(t, p, destructor)
    BY <2>4, ShutdownStep
  <2> QED
    BY <1>3, <2>1, <2>2, <2>3, <2>4
<1>4. CASE CreateSocketPool(t)
  <2>1. pc[t] = "create"
    BY <1>4 DEF CreateSocketPool
  <2> QED
    BY <1>2, <1>4, <2>1, CreateStep
<1>5. CASE \/ CreateReturns(t) \/ SetPoolId(t) \/ DestroyReturns(t)
           \/ ShutdownReset(t) /\ my[t].dying
  <2>1. pc[t] # "idle"
    BY <1>5 DEF CreateReturns, SetPoolId, DestroyReturns, ShutdownReset
  <2> QED
    BY <1>2, <1>5, <2>1, KeepStep
<1>6. CASE \/ ShutdownReset(t) /\ ~my[t].dying
           \/ Erase(t) \/ PostEnd(t) \/ LockTimesOut(t) \/ Unlock(t)
    BY <1>6, ReturnSteps
<1>7. CASE PostProcess(t)
    BY <1>7, PostProcessStep
<1>8. CASE PostSkip(t) \/ PostFirst(t) \/ PostNext(t)
    BY <1>2, <1>8, PostTakes
<1>9. CASE PostRelock(t)
    BY <1>9, PostRelockStep
<1>10. CASE LockASocket(t)
    BY <1>2, <1>10, LockASocketStep
<1>11. CASE MapToHandler(t)
    BY <1>2, <1>11, MapToHandlerStep
<1> QED
    BY <1>3, <1>4, <1>5, <1>6, <1>7, <1>8, <1>9, <1>10, <1>11 DEF Begin, GoOn

LEMMA PoolTypes ==
    ASSUME TypedParts, AtWork, NEW t \in Threads, Begin(t) \/ GoOn(t) \/ Unlock(t)
    PROVE  PoolType'
<1> USE DEF TypedParts
<1>0. /\ vPool \in Seq(Pools) /\ IsInjective(vPool)
      /\ nPoolId \in [Pools -> 0 .. ids] /\ mapSocket \in [Pools -> SUBSET Socket]
      /\ ids \in Nat
    BY DEF PoolType, PhaseType
<1>1. CASE \E p \in Pools : Construct(t, p)
  <2>1. PICK p \in Pools : /\ p \notin Range(vPool) /\ vPool' = Append(vPool, p)
                           /\ UNCHANGED <<nPoolId, mapSocket, ids>>
    BY <1>1 DEF Construct, coreVars
  <2> QED
    BY <1>0, <2>1, AppendPool DEF PoolType
<1>2. CASE Erase(t)
  <2>1. PICK n \in DOMAIN vPool : vPool' = RemoveAt(vPool, n)
    BY <1>2 DEF Erase
  <2>2. UNCHANGED <<nPoolId, mapSocket, ids>>
    BY <1>2 DEF Erase, coreVars
  <2> QED
    BY <1>0, <2>1, <2>2, ErasePool DEF PoolType
<1>3. CASE SetPoolId(t) \/ ShutdownReset(t)
  <2>1. PICK i \in 0 .. ids : nPoolId' = [nPoolId EXCEPT ![my[t].pool] = i]
    <3>1. my[t].id \in 0 .. ids /\ 0 \in 0 .. ids
      BY <1>0, LocalFields DEF ThreadType
    <3> QED
      BY <1>3, <3>1 DEF SetPoolId, ShutdownReset
  <2>2. UNCHANGED <<vPool, mapSocket, ids>>
    BY <1>3 DEF SetPoolId, ShutdownReset, coreVars
  <2> QED
    BY <1>0, <2>1, <2>2 DEF PoolType
<1>4. CASE CreateSocketPool(t)
  <2>1. UNCHANGED <<vPool, nPoolId, mapSocket>> /\ ids' = ids + 1
    BY <1>4 DEF CreateSocketPool, poolVars
  <2>2. 0 .. ids \subseteq 0 .. ids'
    BY <1>0, <2>1
  <2> QED
    BY <1>0, <2>1, <2>2 DEF PoolType
<1>5. CASE UNCHANGED <<vPool, nPoolId, mapSocket, ids>>
    BY <1>0, <1>5 DEF PoolType
<1>6. \/ \E p \in Pools : Construct(t, p)
      \/ Erase(t) \/ SetPoolId(t) \/ ShutdownReset(t) \/ CreateSocketPool(t)
      \/ UNCHANGED <<vPool, nPoolId, mapSocket, ids>>
  <2>1. ASSUME NEW p \in Pools,
               \/ StartSocketPool(t, p) \/ Lock(t, p)
               \/ \E destructor \in BOOLEAN : ShutdownPool(t, p, destructor)
        PROVE  UNCHANGED <<vPool, nPoolId, mapSocket, ids>>
    BY <2>1 DEF StartSocketPool, Lock, ShutdownPool, poolVars, coreVars
  <2>2. CASE \/ CreateReturns(t) \/ DestroyReturns(t) \/ PostProcess(t) \/ PostSkip(t)
             \/ PostFirst(t) \/ PostNext(t) \/ PostRelock(t) \/ PostEnd(t)
    BY <2>2 DEF CreateReturns, DestroyReturns, PostProcess, PostSkip, PostFirst,
                PostNext, PostRelock, PostEnd, poolVars, coreVars
  <2>3. CASE LockASocket(t) \/ LockTimesOut(t) \/ MapToHandler(t) \/ Unlock(t)
    BY <2>3 DEF LockASocket, LockTimesOut, MapToHandler, Unlock, poolVars, coreVars
  <2> QED
    BY <2>1, <2>2, <2>3 DEF Begin, GoOn
<1> QED
    BY <1>1, <1>2, <1>3, <1>4, <1>5, <1>6

LEMMA CoreTypes ==
    ASSUME TypedParts, AtWork, IdsCounted, NEW t \in Threads, Begin(t) \/ GoOn(t) \/ Unlock(t)
    PROVE  PhaseType' /\ StateType' /\ IdsCounted'
<1> USE DEF TypedParts
<1>0. ids \in Nat /\ \A i \in Id : i \in Nat
    BY Constants DEF PhaseType
<1>1. CASE UNCHANGED <<coreVars, owner, badPointer>>
    BY <1>1 DEF PhaseType, StateType, IdsCounted, coreVars
<1>2. CASE CreateSocketPool(t)
  <2>1. /\ phase' = [phase EXCEPT ![ids'] = "starting"]
        /\ owner' = [owner EXCEPT ![ids'] = my[t].pool]
        /\ ids' = ids + 1 /\ ids < MaxIds
        /\ UNCHANGED <<fails, state, lockedBy, badPointer>>
    BY <1>2 DEF CreateSocketPool
  <2>2. my[t].pool \in Pools \union {NoPool}
    BY LocalFields DEF ThreadType, PhaseType
  <2>3. ids' \in 0 .. MaxIds
    BY <2>1, Constants DEF PhaseType
  <2>4. PhaseType'
    BY <2>1, <2>2, <2>3 DEF PhaseType
  <2>5. IdsCounted'
    BY <1>0, <2>1 DEF IdsCounted, PhaseType
  <2> QED
    BY <2>1, <2>4, <2>5 DEF StateType
<1>3. CASE CreateReturns(t)
  <2>1. /\ phase' = [phase EXCEPT ![my[t].id] = "running"]
        /\ UNCHANGED <<ids, owner, fails, state, lockedBy, badPointer>>
    BY <1>3 DEF CreateReturns
  <2>2. my[t].id \in 0 .. ids
    BY <1>0, LocalFields DEF ThreadType
  <2>3. IdsCounted'
    BY <1>0, <2>1, <2>2 DEF IdsCounted, PhaseType
  <2> QED
    BY <2>1, <2>3 DEF PhaseType, StateType
<1>4. CASE \E p \in Pools, destructor \in BOOLEAN : ShutdownPool(t, p, destructor)
  <2>1. /\ \/ phase' = phase
           \/ \E p \in Pools : phase' = [phase EXCEPT ![nPoolId[p]] = "stopping"]
        /\ UNCHANGED <<ids, owner, fails, state, lockedBy, badPointer>>
    BY <1>4 DEF ShutdownPool
  <2>2. \A p \in Pools : nPoolId[p] \in 0 .. ids
    BY DEF PoolType
  <2>3. IdsCounted'
    BY <1>0, <2>1, <2>2 DEF IdsCounted, PhaseType
  <2> QED
    BY <2>1, <2>3 DEF PhaseType, StateType
<1>5. CASE PostFirst(t) \/ PostNext(t)
  <2>1. \E s \in my[t].todo : Connect(s)
    BY <1>5 DEF PostFirst, PostNext
  <2>2. UNCHANGED <<ids, phase, owner, fails, lockedBy, badPointer>>
    BY <1>5 DEF PostFirst, PostNext
  <2> QED
    BY <2>1, <2>2 DEF PhaseType, StateType, IdsCounted, Connect
<1>6. CASE LockASocket(t)
  <2>1. /\ \E s \in Socket : lockedBy' = [lockedBy EXCEPT ![s] = t]
        /\ UNCHANGED <<ids, phase, owner, fails, state, badPointer>>
    BY <1>6 DEF LockASocket
  <2> QED
    BY <2>1 DEF PhaseType, StateType, IdsCounted
<1>7. CASE Unlock(t)
  <2>1. /\ lockedBy' \in [Socket -> Threads \union {NoThread}]
        /\ UNCHANGED <<ids, phase, owner, fails, state, badPointer>>
    BY <1>7 DEF Unlock, StateType
  <2> QED
    BY <2>1 DEF PhaseType, StateType, IdsCounted
<1>8. \/ UNCHANGED <<coreVars, owner, badPointer>>
      \/ CreateSocketPool(t) \/ CreateReturns(t)
      \/ \E p \in Pools, destructor \in BOOLEAN : ShutdownPool(t, p, destructor)
      \/ PostFirst(t) \/ PostNext(t) \/ LockASocket(t) \/ Unlock(t)
  <2>1. ASSUME NEW p \in Pools, Construct(t, p) \/ StartSocketPool(t, p) \/ Lock(t, p)
        PROVE  UNCHANGED <<coreVars, owner, badPointer>>
    BY <2>1 DEF Construct, StartSocketPool, Lock
  <2>2. CASE \/ SetPoolId(t) \/ DestroyReturns(t) \/ ShutdownReset(t) \/ Erase(t)
             \/ PostProcess(t) \/ PostSkip(t) \/ PostRelock(t) \/ PostEnd(t)
             \/ LockTimesOut(t) \/ MapToHandler(t)
    BY <2>2 DEF SetPoolId, DestroyReturns, ShutdownReset, Erase, PostProcess,
                PostSkip, PostRelock, PostEnd, LockTimesOut, MapToHandler
  <2> QED
    BY <2>1, <2>2 DEF Begin, GoOn
<1> QED
    BY <1>1, <1>2, <1>3, <1>4, <1>5, <1>6, <1>7, <1>8

(* The events of the core.                                                 *)
LEMMA SpeTypes ==
    ASSUME TypedParts, IdsCounted,
           \/ \E i \in Id : SpePool(i)
           \/ \E s \in Socket : SpeSocket(s) \/ Fail(s)
    PROVE  /\ TypedParts' /\ UNCHANGED <<csPool, pc, my, vPool, ids, owner>>
           /\ IdsCounted'
<1> USE DEF TypedParts
<1>1. UNCHANGED <<csPool, pc, my, vPool, ids, owner>>
    BY DEF SpePool, SpeSocket, SpeStarted, SpeShutdown, SpeUSocketCreated,
           SpeUSocketKilled, SpeConnected, Establish, Fail, threadVars, poolVars
<1>2. ThreadType'
    BY <1>1 DEF ThreadType
<1>3. ids \in Nat /\ 0 \in 0 .. ids /\ \A i \in Id : phase[i] # "none" => i \in 0 .. ids
    BY Constants DEF PhaseType, IdsCounted
<1>8. CASE \E i \in Id : SpeStarted(i)
  <2>1. PICK i \in Id : SpeStarted(i)
    BY <1>8
  <2>2. /\ phase[i] = "starting" /\ phase' = [phase EXCEPT ![i] = "creating"]
        /\ nPoolId' = [p \in Pools |-> IF p \in LastIdle THEN i ELSE nPoolId[p]]
        /\ UNCHANGED <<mapSocket, fails, state, lockedBy>>
    BY <2>1 DEF SpeStarted
  <2>3. badPointer' \in BOOLEAN
    BY <2>1 DEF SpeStarted
  <2>4. i \in 0 .. ids
    BY <1>3, <2>2
  <2>5. nPoolId' \in [Pools -> 0 .. ids]
    BY <2>2, <2>4 DEF PoolType
  <2>6. IdsCounted'
    BY <1>1, <2>2 DEF IdsCounted, PhaseType
  <2> QED
    BY <1>1, <1>2, <2>2, <2>3, <2>5, <2>6 DEF PoolType, PhaseType, StateType
<1>4. CASE \E i \in Id : SpeShutdown(i)
  <2>1. PICK i \in Id :
        /\ phase[i] = "stopping" /\ phase' = [phase EXCEPT ![i] = "gone"]
        /\ mapSocket' = [p \in Pools |-> IF p \in Seek(i) THEN {} ELSE mapSocket[p]]
        /\ nPoolId' = [p \in Pools |-> IF p \in Seek(i) THEN 0 ELSE nPoolId[p]]
        /\ UNCHANGED <<fails, state, lockedBy, badPointer>>
    BY <1>4 DEF SpeShutdown
  <2>2. nPoolId' \in [Pools -> 0 .. ids] /\ mapSocket' \in [Pools -> SUBSET Socket]
    BY <1>3, <2>1 DEF PoolType
  <2>3. IdsCounted'
    BY <1>1, <2>1 DEF IdsCounted, PhaseType
  <2> QED
    BY <1>1, <1>2, <2>1, <2>2, <2>3 DEF PoolType, PhaseType, StateType
<1>5. CASE \E s \in Socket : SpeUSocketCreated(s) \/ SpeUSocketKilled(s)
  <2>1. /\ mapSocket' \in [Pools -> SUBSET Socket]
        /\ \E s \in Socket : \/ state' = [state EXCEPT ![s] = "made"]
                             \/ state' = [state EXCEPT ![s] = "killed"]
        /\ \/ lockedBy' = lockedBy
           \/ \E s \in Socket : lockedBy' = [lockedBy EXCEPT ![s] = NoThread]
        /\ UNCHANGED <<nPoolId, fails, phase, badPointer>>
    BY <1>5 DEF SpeUSocketCreated, SpeUSocketKilled, PoolType
  <2> QED
    BY <1>1, <1>2, <2>1 DEF PoolType, PhaseType, StateType, IdsCounted
<1>6. CASE \E s \in Socket : SpeConnected(s)
  <2>1. PICK s \in Socket : SpeConnected(s)
    BY <1>6
  <2>2. /\ UNCHANGED <<nPoolId, mapSocket, fails, phase, lockedBy>>
        /\ \/ state' = [state EXCEPT ![s] = "unswitched"]
           \/ state' = [state EXCEPT ![s] = "switched"]
    BY <2>1 DEF SpeConnected, poolVars
  <2>3. badPointer' \in BOOLEAN
    BY <2>1 DEF SpeConnected
  <2> QED
    BY <1>1, <1>2, <2>2, <2>3 DEF PoolType, PhaseType, StateType, IdsCounted
<1>7. CASE \E s \in Socket : Establish(s) \/ Fail(s)
  <2>1. /\ UNCHANGED <<nPoolId, mapSocket, phase, lockedBy, badPointer>>
        /\ fails' = fails \/ (fails < MaxFails /\ fails' = fails + 1)
        /\ \E s \in Socket : \/ state' = [state EXCEPT ![s] = "connected"]
                             \/ state' = [state EXCEPT ![s] = "made"]
    BY <1>7 DEF Establish, Fail, poolVars
  <2>2. fails' \in 0 .. MaxFails
    BY <2>1, Constants DEF StateType
  <2> QED
    BY <1>1, <1>2, <2>1, <2>2 DEF PoolType, PhaseType, StateType, IdsCounted
<1> QED
    BY <1>4, <1>5, <1>6, <1>7, <1>8 DEF SpePool, SpeSocket

LEMMA NextTyped == TypeInv /\ [Next]_vars => TypeInv'
<1> SUFFICES ASSUME TypeInv, [Next]_vars
             PROVE  TypeInv'
    OBVIOUS
<1>0. TypedParts /\ AtWork /\ IdsCounted
    BY TypeParts DEF TypeInv
<1>1. CASE UNCHANGED vars
    BY <1>1 DEF TypeInv, TypeOK, AtWork, IdsCounted, vars, poolVars, threadVars,
                coreVars
<1>2. ASSUME NEW t \in Threads, Begin(t) \/ GoOn(t) \/ Unlock(t)
      PROVE  TypeInv'
  <2>1. ThreadType' /\ AtWork' /\ PoolType' /\ PhaseType' /\ StateType' /\ IdsCounted'
    BY <1>0, <1>2, ThreadTypes, PoolTypes, CoreTypes
  <2> QED
    BY <2>1, TypeParts DEF TypeInv, TypedParts
<1>3. CASE \/ \E i \in Id : SpePool(i)
           \/ \E s \in Socket : SpeSocket(s) \/ Fail(s)
  <2>1. TypedParts' /\ UNCHANGED <<pc, my>> /\ IdsCounted'
    BY <1>0, <1>3, SpeTypes
  <2> QED
    BY <1>0, <2>1, TypeParts DEF TypeInv, AtWork
<1> QED
    BY <1>1, <1>2, <1>3 DEF Next

LEMMA InitTyped == Init => TypeInv
BY InitType DEF Init, TypeInv, AtWork, IdsCounted

(* The state of socket pools keeps its types, however they are used.       *)
THEOREM TypeCorrect == Spec => []TypeOK
<1>1. Init => TypeInv
    BY InitTyped
<1>2. TypeInv /\ [Next]_vars => TypeInv'
    BY NextTyped
<1>3. TypeInv => TypeOK
    BY DEF TypeInv
<1> QED
    BY <1>1, <1>2, <1>3, PTL DEF Spec
----------------------------------------------------------------------------
(* A step that leaves the pools, and the threads that manage them, alone.  *)
SamePools == UNCHANGED <<vPool, nPoolId, ids, phase, owner>>

SameManagers ==
    \A t \in Threads :
        /\ pc'[t] \in ManagingSteps <=> pc[t] \in ManagingSteps
        /\ pc[t] \in ManagingSteps =>
            pc'[t] = pc[t] /\ my'[t].pool = my[t].pool /\ my'[t].id = my[t].id

Managers == OneManager /\ IdsOwned /\ CoresOwned /\ \A t \in Threads : Knows(t)

LEMMA OwnFrame ==
    ASSUME Managers, SamePools, SameManagers
    PROVE  Managers'
<1> USE DEF Managers
<1>1. OneManager'
    BY DEF OneManager, Managing, SameManagers, ManagingSteps
<1>2. IdsOwned'
    BY DEF IdsOwned, SamePools
<1>3. CoresOwned'
  <2> SUFFICES ASSUME NEW i \in Id
               PROVE  /\ phase[i] \in {"creating", "running", "stopping"} =>
                            owner[i] \in Range(vPool) /\ nPoolId[owner[i]] = i
                      /\ phase[i] \in {"starting", "creating"} =>
                            \E t \in Threads : pc'[t] = "creating" /\ my'[t].id = i
                      /\ phase[i] = "stopping" =>
                            \E t \in Threads : pc'[t] = "destroying" /\ my'[t].id = i
    BY DEF CoresOwned, SamePools
  <2>1. ASSUME NEW t \in Threads, pc[t] \in {"creating", "destroying"}
        PROVE  pc'[t] = pc[t] /\ my'[t].id = my[t].id
    BY <2>1 DEF SameManagers, ManagingSteps
  <2> QED
    BY <2>1 DEF CoresOwned
<1>4. ASSUME NEW t \in Threads
      PROVE  Knows(t)'
  <2>1. CASE pc[t] \in ManagingSteps
    <3>1. pc'[t] = pc[t] /\ my'[t].pool = my[t].pool /\ my'[t].id = my[t].id
      BY <2>1 DEF SameManagers
    <3> QED
      BY <3>1 DEF Knows, OnlyIdle, SamePools
  <2>2. CASE pc[t] \notin ManagingSteps
    <3>1. pc'[t] \notin ManagingSteps
      BY <2>2 DEF SameManagers
    <3> QED
      BY <3>1 DEF Knows, ManagingSteps
  <2> QED
    BY <2>1, <2>2
<1> QED
    BY <1>1, <1>2, <1>3, <1>4

(* Connecting and locking sockets is such a step.                          *)
Quiet(t) ==
    \/ PostProcess(t) \/ PostSkip(t) \/ PostFirst(t) \/ PostNext(t)
    \/ PostRelock(t) \/ PostEnd(t)
    \/ \E p \in Pools : Lock(t, p)
    \/ LockASocket(t) \/ LockTimesOut(t) \/ MapToHandler(t) \/ Unlock(t)

LEMMA QuietSteps ==
    ASSUME TypedParts, AtWork, NEW t \in Threads, Quiet(t)
    PROVE  /\ SamePools /\ SameManagers /\ UNCHANGED <<mapSocket, badPointer>>
           /\ Others(t) /\ pc'[t] # "post"
<1>1. SamePools /\ UNCHANGED <<mapSocket, badPointer>>
  <2>1. CASE \/ PostProcess(t) \/ PostSkip(t) \/ PostFirst(t) \/ PostNext(t)
             \/ PostRelock(t) \/ PostEnd(t)
    BY <2>1 DEF SamePools, PostProcess, PostSkip, PostFirst, PostNext, PostRelock,
                PostEnd, poolVars, coreVars
  <2>2. CASE \/ \E p \in Pools : Lock(t, p)
             \/ LockASocket(t) \/ LockTimesOut(t) \/ MapToHandler(t) \/ Unlock(t)
    BY <2>2 DEF SamePools, Lock, LockASocket, LockTimesOut, MapToHandler, Unlock,
                poolVars, coreVars
  <2> QED
    BY <2>1, <2>2 DEF Quiet
<1>2. /\ Others(t)
      /\ pc[t] \in {"idle", "post", "looping", "connecting", "locking", "mapping",
                    "using"}
      /\ pc'[t] \in {"idle", "looping", "connecting", "locking", "mapping", "using"}
  <2>1. CASE PostProcess(t)
    BY <2>1, PostProcessStep
  <2>2. CASE PostSkip(t) \/ PostFirst(t) \/ PostNext(t)
    BY <2>2, PostTakes
  <2>3. CASE PostRelock(t)
    BY <2>3, PostRelockStep
  <2>4. CASE PostEnd(t) \/ LockTimesOut(t) \/ Unlock(t)
    <3>1. pc[t] \in {"looping", "locking", "using"}
      BY <2>4 DEF PostEnd, LockTimesOut, Unlock
    <3> QED
      BY <2>4, <3>1, ReturnSteps
  <2>5. CASE \E p \in Pools : Lock(t, p)
    BY <2>5, LockStep
  <2>6. CASE LockASocket(t)
    BY <2>6, LockASocketStep
  <2>7. CASE MapToHandler(t)
    BY <2>7, MapToHandlerStep
  <2> QED
    BY <2>1, <2>2, <2>3, <2>4, <2>5, <2>6, <2>7 DEF Quiet
<1>3. pc[t] \notin ManagingSteps /\ pc'[t] \notin ManagingSteps /\ pc'[t] # "post"
    BY <1>2 DEF ManagingSteps
<1>4. SameManagers
    BY <1>2, <1>3 DEF SameManagers, Others
<1> QED
    BY <1>1, <1>2, <1>3, <1>4

(* The thread that manages is the only one.                                *)
LEMMA OnlyManager ==
    ASSUME OneManager, NEW t \in Threads, Others(t),
           pc[t] \in ManagingSteps \/ Managing = {}
    PROVE  /\ OneManager'
           /\ \A u \in Threads : u # t => pc[u] \notin ManagingSteps /\ Knows(u)'
<1>1. \A u \in Threads : u # t => pc[u] \notin ManagingSteps
    BY DEF OneManager, Managing, ManagingSteps
<1>2. \A u \in Threads : u # t => pc'[u] \notin ManagingSteps
    BY <1>1 DEF Others
<1>3. OneManager'
    BY <1>2 DEF OneManager, Managing, ManagingSteps
<1>4. \A u \in Threads : u # t => Knows(u)'
    BY <1>2 DEF Knows, ManagingSteps
<1> QED
    BY <1>1, <1>3, <1>4

(* Seek finds the pool object with an id, and speStarted the only one      *)
(* without.                                                                *)
LEMMA SeekFinds ==
    ASSUME PoolType, IdsOwned, NEW i \in Id
    PROVE  \A p \in Pools : p \in Seek(i) <=> nPoolId[p] = i
<1>0. /\ DOMAIN vPool = 1 .. Len(vPool) /\ Len(vPool) \in Nat
      /\ \A m \in DOMAIN vPool : vPool[m] \in Pools
      /\ i \in Nat /\ i # 0
    BY LenProperties, ElementOfSeq, Constants DEF PoolType
<1>1. ASSUME NEW p \in Pools, nPoolId[p] = i
      PROVE  p \in Seek(i)
  <2>1. PICK m \in DOMAIN vPool : vPool[m] = p
    BY <1>0, <1>1 DEF IdsOwned, Range
  <2>2. ASSUME NEW l \in 1 .. m - 1, nPoolId[vPool[l]] = i
        PROVE  FALSE
    <3>1. l \in DOMAIN vPool /\ l # m
      BY <1>0
    <3>2. vPool[l] = p
      BY <1>0, <1>1, <2>2, <3>1 DEF IdsOwned
    <3> QED
      BY <2>1, <3>1, <3>2 DEF PoolType, IsInjective
  <2> QED
    BY <1>1, <2>1, <2>2 DEF Seek
<1>2. ASSUME NEW p \in Pools, p \in Seek(i)
      PROVE  nPoolId[p] = i
    BY <1>2 DEF Seek
<1> QED
    BY <1>1, <1>2

LEMMA LastIdleFinds ==
    ASSUME PoolType, NEW p \in Pools, OnlyIdle(p)
    PROVE  LastIdle = {p}
<1>0. /\ DOMAIN vPool = 1 .. Len(vPool) /\ Len(vPool) \in Nat
      /\ \A m \in DOMAIN vPool : vPool[m] \in Pools /\ vPool[m] \in Range(vPool)
    BY LenProperties, ElementOfSeq DEF PoolType, Range
<1>1. PICK m \in DOMAIN vPool : vPool[m] = p
    BY DEF OnlyIdle, Range
<1>2. \A l \in DOMAIN vPool : l # m => vPool[l] # p /\ nPoolId[vPool[l]] # 0
    BY <1>0, <1>1 DEF PoolType, IsInjective, OnlyIdle
<1>3. \A l \in m + 1 .. Len(vPool) : l \in DOMAIN vPool /\ l # m
    BY <1>0
<1>4. p \in LastIdle
  <2>1. nPoolId[vPool[m]] = 0 /\ \A l \in m + 1 .. Len(vPool) : nPoolId[vPool[l]] # 0
    BY <1>1, <1>2, <1>3 DEF OnlyIdle
  <2> QED
    BY <1>1, <2>1 DEF LastIdle
<1>5. \A q \in LastIdle : q = p
    BY <1>1, <1>2 DEF LastIdle
<1> QED
    BY <1>4, <1>5
----------------------------------------------------------------------------
(* The steps that manage pools keep IdsOwned, CoresOwned and Knows.        *)
LEMMA NoCoreBegins ==
    ASSUME CoresOwned, Managing = {}, NEW i \in Id
    PROVE  phase[i] \notin {"starting", "creating", "stopping"}
<1>1. \A t \in Threads : pc[t] \notin {"creating", "destroying"}
    BY DEF Managing
<1> QED
    BY <1>1 DEF CoresOwned

LEMMA ConstructOwn ==
    ASSUME Serial, TypeInv, Managers, NEW t \in Threads, NEW p \in Pools,
           Construct(t, p)
    PROVE  Managers'
<1> USE TypeParts DEF TypeInv, TypedParts, Managers
<1>1. /\ Managing = {} /\ p \notin Range(vPool) /\ vPool' = Append(vPool, p)
      /\ UNCHANGED <<pc, my, nPoolId, phase, owner, ids>>
    BY DEF Construct, MayManage, threadVars, coreVars
<1>2. Range(vPool') = Range(vPool) \union {p}
    BY <1>1, AppendPool
<1>3. IdsOwned'
    BY <1>1, <1>2 DEF IdsOwned
<1>4. CoresOwned'
    BY <1>1, <1>2, NoCoreBegins DEF CoresOwned
<1>5. \A u \in Threads : pc[u] \notin ManagingSteps
    BY <1>1 DEF Managing, ManagingSteps
<1>6. OneManager' /\ \A u \in Threads : Knows(u)'
    BY <1>1, <1>5 DEF OneManager, Managing, Knows, ManagingSteps
<1> QED
    BY <1>3, <1>4, <1>6

LEMMA StartOwn ==
    ASSUME Serial, OneIdle, TypeInv, Managers, NEW t \in Threads, NEW p \in Pools,
           StartSocketPool(t, p)
    PROVE  Managers'
<1> USE TypeParts DEF TypeInv, TypedParts, Managers
<1>1. /\ Managing = {} /\ p \in Range(vPool)
      /\ \A q \in Range(vPool) \ {p} : nPoolId[q] # 0
      /\ UNCHANGED <<vPool, nPoolId, phase, owner, ids>>
    BY DEF StartSocketPool, MayManage, poolVars, coreVars
<1>2. Others(t) /\ StartEffect(t, p)
    BY StartStep
<1>3. OneManager' /\ \A u \in Threads : u # t => Knows(u)'
    BY <1>1, <1>2, OnlyManager
<1>4. ~IsStarted(p) => nPoolId[p] = 0
  <2> SUFFICES ASSUME ~IsStarted(p), nPoolId[p] # 0
               PROVE  FALSE
    OBVIOUS
  <2>1. nPoolId[p] \in Id
    BY Constants DEF PoolType, PhaseType
  <2>2. phase[nPoolId[p]] = "stopping"
    BY DEF IdsOwned, IsStarted
  <2> QED
    BY <1>1, <2>1, <2>2, NoCoreBegins
<1>5. Knows(t)'
    BY <1>1, <1>2, <1>4 DEF Knows, StartEffect, OnlyIdle
<1>6. IdsOwned'
    BY <1>1 DEF IdsOwned
<1>7. CoresOwned'
    BY <1>1, NoCoreBegins DEF CoresOwned
<1> QED
    BY <1>3, <1>5, <1>6, <1>7

(* While a thread is not waiting for the core, no core pool begins or ends. *)
LEMMA CoreOf ==
    ASSUME OneManager, CoresOwned, NEW t \in Threads, pc[t] \in ManagingSteps,
           NEW i \in Id, phase[i] \in {"starting", "creating", "stopping"}
    PROVE  /\ my[t].id = i
           /\ phase[i] \in {"starting", "creating"} => pc[t] = "creating"
           /\ phase[i] = "stopping" => pc[t] = "destroying"
<1>1. \A u \in Threads : pc[u] \in {"creating", "destroying"} => u = t
    BY DEF OneManager, Managing, ManagingSteps
<1> QED
    BY <1>1 DEF CoresOwned

LEMMA CreateOwn ==
    ASSUME TypeInv, Managers, NEW t \in Threads, CreateSocketPool(t)
    PROVE  Managers'
<1> USE TypeParts DEF TypeInv, TypedParts, Managers
<1>1. /\ pc[t] = "create" /\ UNCHANGED <<vPool, nPoolId>> /\ ids' = ids + 1
      /\ phase' = [phase EXCEPT ![ids'] = "starting"]
      /\ owner' = [owner EXCEPT ![ids'] = my[t].pool]
    BY DEF CreateSocketPool, poolVars
<1>2. /\ Others(t) /\ ids' \in Id
      /\ pc'[t] = "creating" /\ my'[t].pool = my[t].pool /\ my'[t].id = ids'
    BY CreateStep
<1>3. OneManager' /\ \A u \in Threads : u # t => Knows(u)'
    BY <1>1, <1>2, OnlyManager DEF ManagingSteps
<1>4. /\ phase'[ids'] = "starting" /\ owner'[ids'] = my[t].pool
      /\ \A i \in Id : i # ids' => phase'[i] = phase[i] /\ owner'[i] = owner[i]
    BY <1>1, <1>2 DEF PhaseType
<1>5. \A p \in Pools : nPoolId[p] # 0 => nPoolId[p] \in Id /\ nPoolId[p] # ids'
    BY <1>1, Constants DEF PoolType, PhaseType
<1>6. IdsOwned'
    BY <1>1, <1>4, <1>5 DEF IdsOwned
<1>7. \A i \in Id : phase[i] \notin {"starting", "creating", "stopping"}
    BY <1>1, CoreOf DEF ManagingSteps
<1>8. CoresOwned'
    BY <1>1, <1>2, <1>4, <1>7 DEF CoresOwned
<1>9. Knows(t)'
    BY <1>1, <1>2, <1>4 DEF Knows, OnlyIdle
<1> QED
    BY <1>3, <1>6, <1>8, <1>9

LEMMA CreateReturnsOwn ==
    ASSUME TypeInv, Managers, NEW t \in Threads, CreateReturns(t)
    PROVE  Managers'
<1> USE TypeParts DEF TypeInv, TypedParts, Managers
<1> DEFINE i == my[t].id
<1>1. /\ pc[t] = "creating" /\ phase[i] = "creating"
      /\ phase' = [phase EXCEPT ![i] = "running"]
      /\ UNCHANGED <<vPool, nPoolId, ids, owner>>
    BY DEF CreateReturns, poolVars
<1>2. Others(t) /\ pc'[t] = "setid" /\ my' = my
    BY KeepStep
<1>3. OneManager' /\ \A u \in Threads : u # t => Knows(u)'
    BY <1>1, <1>2, OnlyManager DEF ManagingSteps
<1>4. i \in Id /\ owner[i] = my[t].pool
    BY <1>1 DEF Knows
<1>5. nPoolId[my[t].pool] = i
    BY <1>1, <1>4 DEF CoresOwned
<1>6. phase'[i] = "running" /\ \A j \in Id : j # i => phase'[j] = phase[j]
    BY <1>1, <1>4 DEF PhaseType
<1>7. \A j \in Id : j # i => phase[j] \notin {"starting", "creating", "stopping"}
    BY <1>1, CoreOf DEF ManagingSteps
<1> HIDE DEF i
<1>8. \A p \in Pools : nPoolId[p] # 0 => nPoolId[p] \in Id
    BY Constants DEF PoolType, PhaseType
<1>9. IdsOwned'
    BY <1>1, <1>6, <1>8 DEF IdsOwned
<1>10. CoresOwned'
    BY <1>1, <1>4, <1>6, <1>7 DEF CoresOwned
<1>11. Knows(t)'
    BY <1>1, <1>2, <1>4, <1>5 DEF Knows, i
<1> QED
    BY <1>3, <1>9, <1>10, <1>11

LEMMA SetPoolIdOwn ==
    ASSUME TypeInv, Managers, NEW t \in Threads, SetPoolId(t)
    PROVE  Managers' /\ nPoolId' = nPoolId
<1> USE TypeParts DEF TypeInv, TypedParts, Managers
<1>1. /\ pc[t] = "setid" /\ nPoolId' = [nPoolId EXCEPT ![my[t].pool] = my[t].id]
      /\ UNCHANGED <<vPool, phase, owner, ids>>
    BY DEF SetPoolId, coreVars
<1>2. Others(t) /\ pc'[t] = "post" /\ my' = my
    BY KeepStep
<1>3. OneManager' /\ \A u \in Threads : u # t => Knows(u)'
    BY <1>1, <1>2, OnlyManager DEF ManagingSteps
<1>4. nPoolId' = nPoolId
  <2>1. nPoolId[my[t].pool] = my[t].id
    BY <1>1 DEF Knows
  <2> QED
    BY <1>1, <2>1 DEF PoolType
<1>5. \A i \in Id : phase[i] \notin {"starting", "creating", "stopping"}
    BY <1>1, CoreOf DEF ManagingSteps
<1>6. IdsOwned' /\ CoresOwned'
    BY <1>1, <1>4, <1>5 DEF IdsOwned, CoresOwned
<1>7. Knows(t)'
    BY <1>2 DEF Knows
<1> QED
    BY <1>3, <1>4, <1>6, <1>7

LEMMA ShutdownOwn ==
    ASSUME Serial, TypeInv, Managers, NEW t \in Threads, NEW p \in Pools,
           NEW destructor \in BOOLEAN, ShutdownPool(t, p, destructor)
    PROVE  Managers'
<1> USE TypeParts DEF TypeInv, TypedParts, Managers
<1> DEFINE i == nPoolId[p]
<1>1. /\ Managing = {} /\ p \in Range(vPool)
      /\ UNCHANGED <<vPool, nPoolId, owner, ids>>
    BY DEF ShutdownPool, MayManage, poolVars
<1>2. /\ Others(t) /\ my'[t].pool = p /\ my'[t].id = i
      /\ IF i # 0 /\ phase[i] \in {"running", "stopping"}
         THEN phase' = [phase EXCEPT ![i] = "stopping"] /\ pc'[t] = "destroying"
         ELSE ~IsStarted(p) /\ pc'[t] = "resetting" /\ phase' = phase
    BY ShutdownStep
<1>3. OneManager' /\ \A u \in Threads : u # t => Knows(u)'
    BY <1>1, <1>2, OnlyManager
<1>4. \A j \in Id : phase[j] \notin {"starting", "creating", "stopping"}
    BY <1>1, NoCoreBegins
<1>5. i # 0 => i \in Id /\ owner[i] = p
    BY Constants DEF PoolType, PhaseType, IdsOwned
<1>6. CASE i # 0 /\ phase[i] \in {"running", "stopping"}
  <2>1. i \in Id /\ owner[i] = p
    BY <1>5, <1>6
  <2>2. phase'[i] = "stopping" /\ \A j \in Id : j # i => phase'[j] = phase[j]
    BY <1>2, <1>6, <2>1 DEF PhaseType
  <2>3. \A q \in Pools : nPoolId[q] # 0 => nPoolId[q] \in Id
    BY Constants DEF PoolType, PhaseType
  <2>4. nPoolId[p] = i
    OBVIOUS
  <2> HIDE DEF i
  <2>5. IdsOwned'
    BY <1>1, <2>2, <2>3 DEF IdsOwned
  <2>6. CoresOwned'
    BY <1>1, <1>2, <1>4, <1>6, <2>1, <2>2, <2>4 DEF CoresOwned
  <2>7. Knows(t)'
    BY <1>1, <1>2, <1>6, <2>1, <2>2 DEF Knows
  <2> QED
    BY <1>3, <2>5, <2>6, <2>7
<1>7. CASE ~(i # 0 /\ phase[i] \in {"running", "stopping"})
  <2>1. ~IsStarted(p) /\ pc'[t] = "resetting" /\ phase' = phase
    BY <1>2, <1>7
  <2>2. nPoolId[p] = 0
    BY <1>7, <2>1 DEF IdsOwned, IsStarted
  <2>3. Knows(t)'
    BY <1>1, <1>2, <2>1, <2>2 DEF Knows
  <2>4. IdsOwned' /\ CoresOwned'
    BY <1>1, <1>4, <2>1 DEF IdsOwned, CoresOwned
  <2> QED
    BY <1>3, <2>3, <2>4
<1> QED
    BY <1>6, <1>7

LEMMA DestroyOwn ==
    ASSUME TypeInv, Managers, NEW t \in Threads,
           DestroyReturns(t) \/ ShutdownReset(t) \/ Erase(t)
    PROVE  Managers' /\ nPoolId' = nPoolId
<1> USE TypeParts DEF TypeInv, TypedParts, Managers
<1>1. /\ pc[t] \in {"destroying", "resetting", "erasing"}
      /\ UNCHANGED <<phase, owner, ids>>
    BY DEF DestroyReturns, ShutdownReset, Erase, coreVars
<1>2. /\ Others(t)
      /\ \/ pc'[t] = "idle"
         \/ DestroyReturns(t) /\ pc'[t] = "resetting" /\ my' = my
         \/ ShutdownReset(t) /\ pc'[t] = "erasing" /\ my' = my
    BY KeepStep, ReturnSteps
<1>3. OneManager' /\ \A u \in Threads : u # t => Knows(u)'
    BY <1>1, <1>2, OnlyManager DEF ManagingSteps
<1>4. my[t].pool \in Range(vPool) /\ nPoolId[my[t].pool] = 0
  <2>1. CASE DestroyReturns(t)
    BY <2>1 DEF DestroyReturns, Knows
  <2>2. CASE ShutdownReset(t) \/ Erase(t)
    BY <2>2 DEF ShutdownReset, Erase, Knows
  <2> QED
    BY <2>1, <2>2
<1>5. nPoolId' = nPoolId
  <2>1. nPoolId' = nPoolId \/ nPoolId' = [nPoolId EXCEPT ![my[t].pool] = 0]
    BY DEF DestroyReturns, ShutdownReset, Erase, poolVars
  <2> QED
    BY <1>4, <2>1 DEF PoolType
<1>6. vPool' = vPool \/ Range(vPool') = Range(vPool) \ {my[t].pool}
  <2>1. CASE Erase(t)
    <3>1. PICK n \in DOMAIN vPool :
            vPool[n] = my[t].pool /\ vPool' = RemoveAt(vPool, n)
      BY <2>1 DEF Erase
    <3> QED
      BY <3>1, ErasePool
  <2>2. CASE DestroyReturns(t) \/ ShutdownReset(t)
    BY <2>2 DEF DestroyReturns, ShutdownReset, poolVars
  <2> QED
    BY <2>1, <2>2
<1>7. ~Erase(t) => vPool' = vPool
    BY DEF DestroyReturns, ShutdownReset, poolVars
<1>8. IdsOwned'
    BY <1>1, <1>4, <1>5, <1>6 DEF IdsOwned
<1>9. \A i \in Id : /\ phase[i] \notin {"starting", "creating", "stopping"}
                    /\ i # 0
  <2>1. \A i \in Id : phase[i] \notin {"starting", "creating"}
    BY <1>1, CoreOf DEF ManagingSteps
  <2>2. ASSUME NEW i \in Id, phase[i] = "stopping"
        PROVE  FALSE
    <3>1. pc[t] = "destroying" /\ my[t].id = i
      BY <1>1, <2>2, CoreOf DEF ManagingSteps
    <3>2. DestroyReturns(t)
      BY <3>1 DEF ShutdownReset, Erase
    <3> QED
      BY <2>2, <3>1, <3>2 DEF DestroyReturns
  <2> QED
    BY <2>1, <2>2, Constants
<1>10. CoresOwned'
    BY <1>1, <1>4, <1>5, <1>6, <1>9 DEF CoresOwned
<1>11. Knows(t)'
  <2>1. CASE pc'[t] = "idle"
    BY <2>1 DEF Knows
  <2>2. CASE pc'[t] \in {"resetting", "erasing"} /\ my' = my /\ vPool' = vPool
    BY <1>4, <1>5, <2>2 DEF Knows
  <2>3. DestroyReturns(t) => pc[t] = "destroying"
    BY DEF DestroyReturns
  <2>4. ShutdownReset(t) => pc[t] = "resetting"
    BY DEF ShutdownReset
  <2>5. Erase(t) => pc[t] = "erasing"
    BY DEF Erase
  <2> QED
    BY <1>2, <1>7, <2>1, <2>2, <2>3, <2>4, <2>5
<1> QED
    BY <1>3, <1>5, <1>8, <1>10, <1>11

(* speStarted meets the pool object that waits for it.                     *)
LEMMA StartedOwn ==
    ASSUME TypeInv, Managers, NEW i \in Id, SpeStarted(i)
    PROVE  /\ Managers' /\ badPointer' = badPointer
           /\ owner[i] \in Pools
           /\ nPoolId' = [nPoolId EXCEPT ![owner[i]] = i]
           /\ nPoolId[owner[i]] = 0
           /\ \E t \in Threads : pc[t] = "creating" /\ my[t].pool = owner[i]
<1> USE TypeParts DEF TypeInv, TypedParts, Managers
<1>1. /\ phase[i] = "starting" /\ phase' = [phase EXCEPT ![i] = "creating"]
      /\ nPoolId' = [p \in Pools |-> IF p \in LastIdle THEN i ELSE nPoolId[p]]
      /\ UNCHANGED <<vPool, pc, my, ids, owner>>
    BY DEF SpeStarted, threadVars
<1>2. PICK t \in Threads : pc[t] = "creating" /\ my[t].id = i
    BY <1>1 DEF CoresOwned
<1> DEFINE p == my[t].pool
<1>3. owner[i] = p /\ OnlyIdle(p) /\ p \in Pools
    BY <1>1, <1>2 DEF Knows, AtWork
<1>4. LastIdle = {p}
    BY <1>3, LastIdleFinds
<1>5. badPointer' = badPointer
  <2>1. badPointer' = (badPointer \/ LastIdle = {})
    BY DEF SpeStarted
  <2>2. LastIdle # {}
    BY <1>4
  <2>3. badPointer \in BOOLEAN
    BY DEF StateType
  <2> QED
    BY <2>1, <2>2, <2>3
<1>6. /\ nPoolId' = [nPoolId EXCEPT ![p] = i]
      /\ nPoolId'[p] = i /\ \A q \in Pools : q # p => nPoolId'[q] = nPoolId[q]
    BY <1>1, <1>3, <1>4 DEF PoolType
<1>7. phase'[i] = "creating" /\ \A j \in Id : j # i => phase'[j] = phase[j]
    BY <1>1 DEF PhaseType
<1>8. \A q \in Pools : nPoolId[q] # 0 => nPoolId[q] \in Id
    BY Constants DEF PoolType, PhaseType
<1>9. nPoolId[p] = 0 /\ p \in Range(vPool) /\ i # 0 /\ \A j \in Id : j # 0
    BY <1>3, Constants DEF OnlyIdle
<1>13. nPoolId[owner[i]] = 0 /\ owner[i] \in Pools
       /\ nPoolId' = [nPoolId EXCEPT ![owner[i]] = i]
       /\ \E u \in Threads : pc[u] = "creating" /\ my[u].pool = owner[i]
    BY <1>2, <1>3, <1>6, <1>9
<1> HIDE DEF p
<1>10. IdsOwned'
    BY <1>1, <1>3, <1>6, <1>7, <1>8, <1>9 DEF IdsOwned
<1>11. CoresOwned'
  <2> SUFFICES ASSUME NEW j \in Id
               PROVE  /\ phase'[j] \in {"creating", "running", "stopping"} =>
                            owner[j] \in Range(vPool) /\ nPoolId'[owner[j]] = j
                      /\ phase'[j] \in {"starting", "creating"} =>
                            \E u \in Threads : pc[u] = "creating" /\ my[u].id = j
                      /\ phase'[j] = "stopping" =>
                            \E u \in Threads : pc[u] = "destroying" /\ my[u].id = j
    BY <1>1 DEF CoresOwned
  <2>1. CASE j = i
    BY <1>2, <1>3, <1>6, <1>7, <1>9, <2>1
  <2>2. CASE j # i
    <3>1. owner[j] \in Range(vPool) => owner[j] \in Pools
      BY RangeOfSeq DEF PoolType
    <3> QED
      BY <1>6, <1>7, <1>9, <2>2, <3>1 DEF CoresOwned
  <2> QED
    BY <2>1, <2>2
<1>12. OneManager' /\ \A u \in Threads : Knows(u)'
  <2>1. OneManager'
    BY <1>1 DEF OneManager, Managing
  <2>2. \A u \in Threads : u # t => pc[u] \notin ManagingSteps
    BY <1>2 DEF OneManager, Managing, ManagingSteps
  <2>3. \A u \in Threads : u # t => Knows(u)'
    BY <1>1, <2>2 DEF Knows, ManagingSteps
  <2>4. Knows(t)'
    BY <1>1, <1>2, <1>3, <1>7 DEF Knows, p
  <2> QED
    BY <2>1, <2>3, <2>4
<1> QED
    BY <1>5, <1>10, <1>11, <1>12, <1>13

LEMMA ShutdownEventOwn ==
    ASSUME TypeInv, Managers, NEW i \in Id, SpeShutdown(i)
    PROVE  Managers' /\ \A p \in Pools :
                nPoolId'[p] = IF nPoolId[p] = i THEN 0 ELSE nPoolId[p]
<1> USE TypeParts DEF TypeInv, TypedParts, Managers
<1>1. /\ phase[i] = "stopping" /\ phase' = [phase EXCEPT ![i] = "gone"]
      /\ nPoolId' = [p \in Pools |-> IF p \in Seek(i) THEN 0 ELSE nPoolId[p]]
      /\ UNCHANGED <<vPool, pc, my, ids, owner>>
    BY DEF SpeShutdown, threadVars
<1>2. PICK t \in Threads : pc[t] = "destroying" /\ my[t].id = i
    BY <1>1 DEF CoresOwned
<1>3. \A p \in Pools : nPoolId'[p] = IF nPoolId[p] = i THEN 0 ELSE nPoolId[p]
    BY <1>1, SeekFinds
<1>4. phase'[i] = "gone" /\ \A j \in Id : j # i => phase'[j] = phase[j]
    BY <1>1 DEF PhaseType
<1>5. \A q \in Pools : nPoolId[q] # 0 => nPoolId[q] \in Id
    BY Constants DEF PoolType, PhaseType
<1>6. IdsOwned'
    BY <1>1, <1>3, <1>4, <1>5 DEF IdsOwned
<1>7. CoresOwned'
  <2> SUFFICES ASSUME NEW j \in Id
               PROVE  /\ phase'[j] \in {"creating", "running", "stopping"} =>
                            owner[j] \in Range(vPool) /\ nPoolId'[owner[j]] = j
                      /\ phase'[j] \in {"starting", "creating"} =>
                            \E u \in Threads : pc[u] = "creating" /\ my[u].id = j
                      /\ phase'[j] = "stopping" =>
                            \E u \in Threads : pc[u] = "destroying" /\ my[u].id = j
    BY <1>1 DEF CoresOwned
  <2>1. CASE j = i
    BY <1>4, <2>1
  <2>2. CASE j # i
    <3>1. owner[j] \in Range(vPool) => owner[j] \in Pools
      BY RangeOfSeq DEF PoolType
    <3> QED
      BY <1>3, <1>4, <2>2, <3>1 DEF CoresOwned
  <2> QED
    BY <2>1, <2>2
<1>8. OneManager' /\ \A u \in Threads : Knows(u)'
  <2>1. OneManager'
    BY <1>1 DEF OneManager, Managing
  <2>2. \A u \in Threads : u # t => pc[u] \notin ManagingSteps
    BY <1>2 DEF OneManager, Managing, ManagingSteps
  <2>3. \A u \in Threads : u # t => Knows(u)'
    BY <1>1, <2>2 DEF Knows, ManagingSteps
  <2>4. owner[i] = my[t].pool /\ my[t].pool \in Range(vPool) /\ my[t].pool \in Pools
    BY <1>2 DEF Knows, AtWork
  <2>5. nPoolId'[my[t].pool] = 0
    BY <1>1, <1>3, <2>4 DEF CoresOwned
  <2>6. Knows(t)'
    BY <1>1, <1>2, <1>4, <2>4, <2>5 DEF Knows
  <2> QED
    BY <2>1, <2>3, <2>6
<1> QED
    BY <1>3, <1>6, <1>7, <1>8

LEMMA SocketEvents ==
    ASSUME NEW s \in Socket, SpeSocket(s) \/ Fail(s)
    PROVE  SamePools /\ UNCHANGED <<pc, my, csPool>> /\ SameManagers
<1>1. SamePools /\ UNCHANGED <<pc, my, csPool>>
    BY DEF SpeSocket, SpeUSocketCreated, SpeUSocketKilled, SpeConnected, Establish,
           Fail, SamePools, threadVars, poolVars
<1> QED
    BY <1>1 DEF SameManagers

LEMMA NextOwn ==
    ASSUME Serial, OneIdle
    PROVE  OwnInv /\ [Next]_vars => OwnInv'
<1> SUFFICES ASSUME OwnInv, [Next]_vars
             PROVE  OwnInv'
    OBVIOUS
<1>0. TypeInv /\ Managers /\ TypedParts /\ AtWork
    BY TypeParts DEF OwnInv, TypeInv, Managers
<1>1. TypeInv'
    BY <1>0, NextTyped
<1>2. SUFFICES Managers'
    BY <1>1, <1>2 DEF OwnInv, Managers
<1>3. CASE UNCHANGED vars
  <2>1. SamePools /\ SameManagers
    BY <1>3 DEF vars, poolVars, threadVars, coreVars, SamePools, SameManagers
  <2> QED
    BY <1>0, <2>1, OwnFrame
<1>4. ASSUME NEW t \in Threads, Begin(t) \/ GoOn(t) \/ Unlock(t)
      PROVE  Managers'
  <2>1. CASE Quiet(t)
    BY <1>0, <2>1, QuietSteps, OwnFrame
  <2>2. CASE \E p \in Pools : \/ Construct(t, p) \/ StartSocketPool(t, p)
                              \/ \E destructor \in BOOLEAN :
                                    ShutdownPool(t, p, destructor)
    BY <1>0, <2>2, ConstructOwn, StartOwn, ShutdownOwn
  <2>3. CASE CreateSocketPool(t) \/ CreateReturns(t) \/ SetPoolId(t)
    BY <1>0, <2>3, CreateOwn, CreateReturnsOwn, SetPoolIdOwn
  <2>4. CASE DestroyReturns(t) \/ ShutdownReset(t) \/ Erase(t)
    BY <1>0, <2>4, DestroyOwn
  <2> QED
    BY <1>4, <2>1, <2>2, <2>3, <2>4 DEF Begin, GoOn, Quiet
<1>5. ASSUME NEW i \in Id, SpePool(i)
      PROVE  Managers'
    BY <1>0, <1>5, StartedOwn, ShutdownEventOwn DEF SpePool
<1>6. ASSUME NEW s \in Socket, SpeSocket(s) \/ Fail(s)
      PROVE  Managers'
    BY <1>0, <1>6, SocketEvents, OwnFrame
<1> QED
    BY <1>3, <1>4, <1>5, <1>6 DEF Next

LEMMA InitOwn == Init => OwnInv
<1> SUFFICES ASSUME Init
             PROVE  OwnInv
    OBVIOUS
<1>1. TypeInv
    BY InitTyped
<1>2. OneManager /\ IdsOwned /\ CoresOwned
    BY DEF Init, OneManager, Managing, IdsOwned, CoresOwned
<1>3. \A t \in Threads : Knows(t)
    BY DEF Init, Knows
<1> QED
    BY <1>1, <1>2, <1>3 DEF OwnInv

LEMMA PoolsOwned ==
    ASSUME Serial, OneIdle
    PROVE  Spec => []OwnInv
<1>1. Init => OwnInv
    BY InitOwn
<1>2. OwnInv /\ [Next]_vars => OwnInv'
    BY NextOwn
<1> QED
    BY <1>1, <1>2, PTL DEF Spec

----------------------------------------------------------------------------
(* The sockets.  A thread never changes a map or an id on its own; it only *)
(* opens living sockets and moves core pools on.                           *)
Alive == {"made", "opening", "connected", "unswitched", "switched"}

Sockets == MapsExact /\ StatesFit /\ NoBadPointer

StateMoves(s) == state'[s] = state[s] \/ {state[s], state'[s]} \subseteq Alive

PhaseMoves(i) ==
    \/ phase'[i] = phase[i]
    \/ phase[i] = "none" /\ phase'[i] = "starting"
    \/ /\ phase[i] = "creating" /\ phase'[i] = "running"
       /\ \A s \in Socket : s.pool = i => state[s] # "none"
    \/ phase[i] \in {"running", "stopping"} /\ phase'[i] = "stopping"

LEMMA ThreadKeeps ==
    ASSUME TypeInv, Managers, NEW t \in Threads, Begin(t) \/ GoOn(t) \/ Unlock(t)
    PROVE  /\ UNCHANGED <<mapSocket, nPoolId, badPointer>>
           /\ \A s \in Socket : StateMoves(s)
           /\ \A i \in Id : PhaseMoves(i)
           /\ \A i \in 1 .. ids : owner'[i] = owner[i]
<1> USE TypeParts DEF TypeInv, TypedParts
<1> DEFINE Calm == /\ state' = state /\ phase' = phase /\ owner' = owner
                   /\ UNCHANGED <<mapSocket, nPoolId, badPointer>>
<1>0. Calm => /\ UNCHANGED <<mapSocket, nPoolId, badPointer>>
              /\ \A s \in Socket : StateMoves(s)
              /\ \A i \in Id : PhaseMoves(i)
              /\ \A i \in 1 .. ids : owner'[i] = owner[i]
    BY DEF StateMoves, PhaseMoves
<1>1. CASE PostSkip(t) \/ PostFirst(t) \/ PostNext(t)
  <2>1. SamePools /\ UNCHANGED <<mapSocket, badPointer>>
    BY <1>1, QuietSteps DEF Quiet
  <2>2. \A s \in Socket : StateMoves(s)
    BY <1>1, PostTakes DEF StateMoves, Alive
  <2> QED
    BY <2>1, <2>2 DEF SamePools, PhaseMoves
<1>2. CASE \/ PostProcess(t) \/ PostRelock(t) \/ PostEnd(t)
           \/ \E p \in Pools : Lock(t, p)
           \/ LockASocket(t) \/ LockTimesOut(t) \/ MapToHandler(t) \/ Unlock(t)
  <2>1. SamePools /\ UNCHANGED <<mapSocket, badPointer>>
    BY <1>2, QuietSteps DEF Quiet
  <2>2. state' = state
    BY <1>2 DEF PostProcess, PostRelock, PostEnd, Lock, LockASocket, LockTimesOut,
                MapToHandler, Unlock, coreVars
  <2> QED
    BY <1>0, <2>1, <2>2 DEF SamePools
<1>3. CASE \E p \in Pools : Construct(t, p) \/ StartSocketPool(t, p)
  <2>1. Calm
    BY <1>3 DEF Construct, StartSocketPool, poolVars, coreVars
  <2> QED
    BY <1>0, <2>1
<1>4. CASE \E p \in Pools, destructor \in BOOLEAN : ShutdownPool(t, p, destructor)
  <2>1. PICK p \in Pools, destructor \in BOOLEAN : ShutdownPool(t, p, destructor)
    BY <1>4
  <2>2. UNCHANGED <<mapSocket, nPoolId, badPointer, state, owner>>
    BY <2>1 DEF ShutdownPool, poolVars
  <2>3. \/ phase' = phase
        \/ /\ phase[nPoolId[p]] \in {"running", "stopping"}
           /\ phase' = [phase EXCEPT ![nPoolId[p]] = "stopping"]
    BY <2>1 DEF ShutdownPool
  <2>4. \A i \in Id : PhaseMoves(i)
    BY <2>3 DEF PhaseMoves, PhaseType
  <2> QED
    BY <2>2, <2>4 DEF StateMoves
<1>5. CASE CreateSocketPool(t)
  <2>1. /\ UNCHANGED <<mapSocket, nPoolId, badPointer, state>>
        /\ phase' = [phase EXCEPT ![ids'] = "starting"]
        /\ owner' = [owner EXCEPT ![ids'] = my[t].pool]
    BY <1>5 DEF CreateSocketPool, poolVars
  <2>2. ids' \in Id /\ ids' = ids + 1
    BY <1>5, CreateStep
  <2>3. phase[ids'] = "none"
    BY <2>2 DEF IdsCounted, PhaseType
  <2>4. \A i \in Id : PhaseMoves(i)
    BY <2>1, <2>2, <2>3 DEF PhaseMoves, PhaseType
  <2>5. \A i \in 1 .. ids : owner'[i] = owner[i]
    BY <2>1, <2>2, <2>3 DEF PhaseType
  <2> QED
    BY <2>1, <2>4, <2>5 DEF StateMoves
<1>6. CASE CreateReturns(t)
  <2>1. /\ UNCHANGED <<mapSocket, nPoolId, badPointer, state, owner>>
        /\ phase[my[t].id] = "creating"
        /\ \A s \in Socket : s.pool = my[t].id => state[s] # "none"
        /\ phase' = [phase EXCEPT ![my[t].id] = "running"]
    BY <1>6 DEF CreateReturns, poolVars
  <2>2. \A i \in Id : PhaseMoves(i)
    BY <2>1 DEF PhaseMoves, PhaseType
  <2> QED
    BY <2>1, <2>2 DEF StateMoves
<1>7. CASE SetPoolId(t)
  <2>1. UNCHANGED <<mapSocket, badPointer, state, phase, owner>>
    BY <1>7 DEF SetPoolId, coreVars
  <2> QED
    BY <1>0, <1>7, <2>1, SetPoolIdOwn
<1>8. CASE DestroyReturns(t) \/ ShutdownReset(t) \/ Erase(t)
  <2>1. UNCHANGED <<mapSocket, badPointer, state, phase, owner>>
    BY <1>8 DEF DestroyReturns, ShutdownReset, Erase, coreVars, poolVars
  <2> QED
    BY <1>0, <1>8, <2>1, DestroyOwn
<1> QED
    BY <1>1, <1>2, <1>3, <1>4, <1>5, <1>6, <1>7, <1>8 DEF Begin, GoOn

LEMMA SocketFrame ==
    ASSUME TypeInv, Sockets, UNCHANGED <<mapSocket, nPoolId, badPointer>>,
           \A s \in Socket : StateMoves(s), \A i \in Id : PhaseMoves(i)
    PROVE  Sockets'
<1>1. \A i : Living(i)' = Living(i)
    BY DEF Living, StateMoves, Alive
<1>2. MapsExact'
    BY <1>1 DEF Sockets, MapsExact
<1>3. StatesFit'
  <2> SUFFICES ASSUME NEW s \in Socket
               PROVE  /\ phase'[s.pool] \in {"none", "starting"} => state'[s] = "none"
                      /\ phase'[s.pool] = "creating" => state'[s] # "killed"
                      /\ phase'[s.pool] = "running" => state'[s] \notin {"none", "killed"}
                      /\ phase'[s.pool] = "stopping" => state'[s] # "none"
                      /\ phase'[s.pool] = "gone" => state'[s] = "killed"
    BY DEF StatesFit
  <2>1. s.pool \in Id /\ PhaseMoves(s.pool) /\ StateMoves(s)
    BY Constants
  <2>2. CASE state'[s] = state[s]
    BY <2>1, <2>2 DEF Sockets, StatesFit, PhaseMoves
  <2>3. CASE {state[s], state'[s]} \subseteq Alive
    BY <2>1, <2>3 DEF Sockets, StatesFit, PhaseMoves, Alive
  <2> QED
    BY <2>1, <2>2, <2>3 DEF StateMoves
<1> QED
    BY <1>2, <1>3 DEF Sockets, NoBadPointer

LEMMA NoneLiving == Living(0) = {}
BY Constants DEF Living

LEMMA StartedSockets ==
    ASSUME TypeInv, Managers, Sockets, NEW i \in Id, SpeStarted(i)
    PROVE  Sockets'
<1> USE TypeParts DEF TypeInv, TypedParts
<1>1. /\ phase[i] = "starting" /\ phase' = [phase EXCEPT ![i] = "creating"]
      /\ state' = state /\ mapSocket' = mapSocket
    BY DEF SpeStarted
<1>2. /\ badPointer' = badPointer /\ owner[i] \in Pools
      /\ nPoolId' = [nPoolId EXCEPT ![owner[i]] = i] /\ nPoolId[owner[i]] = 0
    BY StartedOwn
<1>3. \A j : Living(j)' = Living(j)
    BY <1>1 DEF Living
<1>4. Living(i) = {}
    BY <1>1 DEF Living, Sockets, StatesFit
<1>5. MapsExact'
  <2> SUFFICES ASSUME NEW p \in Pools
               PROVE  mapSocket[p] = Living(nPoolId'[p])
    BY <1>1, <1>3 DEF MapsExact
  <2>1. CASE p = owner[i]
    BY <1>2, <1>4, <2>1, NoneLiving DEF Sockets, MapsExact, PoolType
  <2>2. CASE p # owner[i]
    BY <1>2, <2>2 DEF Sockets, MapsExact, PoolType
  <2> QED
    BY <2>1, <2>2
<1>6. StatesFit'
  <2>1. \A j \in Id : phase'[j] = IF j = i THEN "creating" ELSE phase[j]
    BY <1>1 DEF PhaseType
  <2> QED
    BY <1>1, <2>1, Constants DEF Sockets, StatesFit
<1> QED
    BY <1>2, <1>5, <1>6 DEF Sockets, NoBadPointer

LEMMA CreatedSockets ==
    ASSUME TypeInv, Managers, Sockets, NEW s \in Socket, SpeUSocketCreated(s)
    PROVE  Sockets'
<1> USE TypeParts DEF TypeInv, TypedParts, Managers
<1>1. /\ phase[s.pool] = "creating" /\ state' = [state EXCEPT ![s] = "made"]
      /\ mapSocket' = [p \in Pools |->
            mapSocket[p] \union (IF p \in Seek(s.pool) THEN {s} ELSE {})]
      /\ UNCHANGED <<nPoolId, phase, badPointer>>
    BY DEF SpeUSocketCreated
<1>2. \A u \in Socket : state'[u] = IF u = s THEN "made" ELSE state[u]
    BY <1>1 DEF StateType
<1>3. \A i : Living(i)' = Living(i) \union (IF i = s.pool THEN {s} ELSE {})
    BY <1>2 DEF Living
<1>4. \A p \in Pools : p \in Seek(s.pool) <=> nPoolId[p] = s.pool
    BY Constants, SeekFinds
<1>5. MapsExact'
  <2> SUFFICES ASSUME NEW p \in Pools
               PROVE  mapSocket'[p] = Living(nPoolId[p])'
    BY <1>1 DEF MapsExact
  <2>1. mapSocket[p] = Living(nPoolId[p])
    BY DEF Sockets, MapsExact
  <2> QED
    BY <1>1, <1>3, <1>4, <2>1
<1>6. StatesFit'
    BY <1>1, <1>2 DEF Sockets, StatesFit
<1> QED
    BY <1>1, <1>5, <1>6 DEF Sockets, NoBadPointer

LEMMA KilledSockets ==
    ASSUME TypeInv, Managers, Sockets, NEW s \in Socket, SpeUSocketKilled(s)
    PROVE  Sockets'
<1> USE TypeParts DEF TypeInv, TypedParts, Managers
<1>1. /\ phase[s.pool] = "stopping" /\ state' = [state EXCEPT ![s] = "killed"]
      /\ mapSocket' = [p \in Pools |->
            mapSocket[p] \ (IF p \in Seek(s.pool) THEN {s} ELSE {})]
      /\ UNCHANGED <<nPoolId, phase, badPointer>>
    BY DEF SpeUSocketKilled
<1>2. \A u \in Socket : state'[u] = IF u = s THEN "killed" ELSE state[u]
    BY <1>1 DEF StateType
<1>3. \A i : Living(i)' = Living(i) \ (IF i = s.pool THEN {s} ELSE {})
    BY <1>2 DEF Living
<1>4. \A p \in Pools : p \in Seek(s.pool) <=> nPoolId[p] = s.pool
    BY Constants, SeekFinds
<1>5. MapsExact'
  <2> SUFFICES ASSUME NEW p \in Pools
               PROVE  mapSocket'[p] = Living(nPoolId[p])'
    BY <1>1 DEF MapsExact
  <2>1. mapSocket[p] = Living(nPoolId[p])
    BY DEF Sockets, MapsExact
  <2> QED
    BY <1>1, <1>3, <1>4, <2>1
<1>6. StatesFit'
    BY <1>1, <1>2 DEF Sockets, StatesFit
<1> QED
    BY <1>1, <1>5, <1>6 DEF Sockets, NoBadPointer

LEMMA ShutdownSockets ==
    ASSUME TypeInv, Managers, Sockets, NEW i \in Id, SpeShutdown(i)
    PROVE  Sockets'
<1> USE TypeParts DEF TypeInv, TypedParts, Managers
<1>1. /\ \A s \in Socket : s.pool = i => state[s] = "killed"
      /\ mapSocket' = [p \in Pools |-> IF p \in Seek(i) THEN {} ELSE mapSocket[p]]
      /\ phase' = [phase EXCEPT ![i] = "gone"]
      /\ UNCHANGED <<state, badPointer>>
    BY DEF SpeShutdown
<1>2. \A p \in Pools : /\ nPoolId'[p] = IF nPoolId[p] = i THEN 0 ELSE nPoolId[p]
                       /\ p \in Seek(i) <=> nPoolId[p] = i
    BY ShutdownEventOwn, SeekFinds
<1>3. \A j : Living(j)' = Living(j)
    BY <1>1 DEF Living
<1>4. MapsExact'
    BY <1>1, <1>2, <1>3, NoneLiving DEF Sockets, MapsExact
<1>5. StatesFit'
  <2>1. \A j \in Id : phase'[j] = IF j = i THEN "gone" ELSE phase[j]
    BY <1>1 DEF PhaseType
  <2> QED
    BY <1>1, <2>1, Constants DEF Sockets, StatesFit
<1> QED
    BY <1>1, <1>4, <1>5 DEF Sockets, NoBadPointer

(* speConnected finds the socket in the map.                               *)
LEMMA ConnectedSockets ==
    ASSUME TypeInv, Managers, Sockets, NEW s \in Socket,
           SpeConnected(s) \/ Establish(s) \/ Fail(s)
    PROVE  /\ Sockets' /\ UNCHANGED <<mapSocket, nPoolId, phase, lockedBy>>
           /\ \A u \in Socket : StateMoves(u)
<1> USE TypeParts DEF TypeInv, TypedParts, Managers
<1>1. UNCHANGED <<mapSocket, nPoolId, phase, lockedBy>>
    BY DEF SpeConnected, Establish, Fail, poolVars
<1>2. \A u \in Socket : StateMoves(u)
  <2>1. PICK x \in Alive : state' = [state EXCEPT ![s] = x] /\ state[s] \in Alive
    BY DEF SpeConnected, Establish, Fail, Alive
  <2> QED
    BY <2>1 DEF StateMoves, StateType
<1>3. badPointer' = badPointer
  <2>1. CASE SpeConnected(s)
    <3>1. /\ state[s] = "connected"
          /\ badPointer' = (badPointer \/ \E sp \in Seek(s.pool) : s \notin mapSocket[sp])
      BY <2>1 DEF SpeConnected
    <3>2. ASSUME NEW sp \in Seek(s.pool)
          PROVE  s \in mapSocket[sp]
      <4>1. sp \in Pools
        BY ElementOfSeq DEF Seek, PoolType
      <4>2. nPoolId[sp] = s.pool
        BY <4>1, Constants, SeekFinds
      <4> QED
        BY <3>1, <4>1, <4>2 DEF Sockets, MapsExact, Living
    <3>3. badPointer \in BOOLEAN
      BY DEF StateType
    <3> QED
      BY <3>1, <3>2, <3>3
  <2>2. CASE Establish(s) \/ Fail(s)
    BY <2>2 DEF Establish, Fail
  <2> QED
    BY <2>1, <2>2
<1> QED
    BY <1>1, <1>2, <1>3, SocketFrame DEF PhaseMoves

LEMMA NextSockets ==
    ASSUME Serial, OneIdle
    PROVE  SocketInv /\ [Next]_vars => SocketInv'
<1> SUFFICES ASSUME SocketInv, [Next]_vars
             PROVE  SocketInv'
    OBVIOUS
<1>0. TypeInv /\ Managers /\ OwnInv /\ Sockets
    BY DEF SocketInv, OwnInv, Managers, Sockets
<1>1. OwnInv'
    BY <1>0, NextOwn
<1>2. SUFFICES Sockets'
    BY <1>1, <1>2 DEF SocketInv, Sockets
<1>3. CASE UNCHANGED vars
  <2>1. UNCHANGED <<mapSocket, nPoolId, badPointer, state, phase>>
    BY <1>3 DEF vars, poolVars, coreVars
  <2> QED
    BY <1>0, <2>1, SocketFrame DEF StateMoves, PhaseMoves
<1>4. ASSUME NEW t \in Threads, Begin(t) \/ GoOn(t) \/ Unlock(t)
      PROVE  Sockets'
    BY <1>0, <1>4, ThreadKeeps, SocketFrame
<1>5. ASSUME NEW i \in Id, SpePool(i)
      PROVE  Sockets'
    BY <1>0, <1>5, StartedSockets, ShutdownSockets DEF SpePool
<1>6. ASSUME NEW s \in Socket, SpeSocket(s) \/ Fail(s)
      PROVE  Sockets'
    BY <1>0, <1>6, CreatedSockets, KilledSockets, ConnectedSockets DEF SpeSocket
<1> QED
    BY <1>3, <1>4, <1>5, <1>6 DEF Next

LEMMA InitSockets == Init => SocketInv
<1> SUFFICES ASSUME Init
             PROVE  SocketInv
    OBVIOUS
<1>1. OwnInv
    BY InitOwn
<1>2. \A p \in Pools : mapSocket[p] = {} /\ nPoolId[p] = 0
    BY DEF Init
<1>3. MapsExact
    BY <1>2, NoneLiving DEF MapsExact
<1>4. StatesFit /\ NoBadPointer
    BY Constants DEF Init, StatesFit, NoBadPointer
<1> QED
    BY <1>1, <1>3, <1>4 DEF SocketInv

LEMMA SocketsFit ==
    ASSUME Serial, OneIdle
    PROVE  Spec => []SocketInv
<1>1. Init => SocketInv
    BY InitSockets
<1>2. SocketInv /\ [Next]_vars => SocketInv'
    BY NextSockets
<1> QED
    BY <1>1, <1>2, PTL DEF Spec

----------------------------------------------------------------------------
(* Locked sockets.  A thread that has locked one only looks it up and      *)
(* unlocks it.                                                             *)
Locking == {"locking", "mapping", "using"}

LEMMA LockerSteps ==
    ASSUME TypedParts, AtWork, NEW t \in Threads, Begin(t) \/ GoOn(t) \/ Unlock(t)
    PROVE  \/ \E p \in Pools : Lock(t, p)
           \/ LockASocket(t) \/ MapToHandler(t) \/ Unlock(t)
           \/ /\ pc[t] \notin {"mapping", "using"} /\ pc'[t] \notin Locking
              /\ lockedBy' = lockedBy
<1>1. CASE \E p \in Pools : Construct(t, p)
  <2>1. pc[t] = "idle" /\ pc' = pc /\ lockedBy' = lockedBy
    BY <1>1 DEF Construct, MayManage, threadVars, coreVars
  <2> QED
    BY <2>1 DEF Locking
<1>2. CASE \E p \in Pools : StartSocketPool(t, p)
  <2>1. pc[t] = "idle" /\ lockedBy' = lockedBy
    BY <1>2 DEF StartSocketPool, MayManage, coreVars
  <2>2. pc'[t] \in {"post", "create"}
    BY <1>2, StartStep DEF StartEffect
  <2> QED
    BY <2>1, <2>2 DEF Locking
<1>3. CASE \E p \in Pools : \E destructor \in BOOLEAN : ShutdownPool(t, p, destructor)
  <2>1. PICK p \in Pools : \E destructor \in BOOLEAN : ShutdownPool(t, p, destructor)
    BY <1>3
  <2>2. PICK destructor \in BOOLEAN : ShutdownPool(t, p, destructor)
    BY <2>1
  <2>3. pc[t] = "idle" /\ lockedBy' = lockedBy
    BY <2>2 DEF ShutdownPool, MayManage
  <2>4. pc'[t] \in {"destroying", "resetting"}
    BY <2>2, ShutdownStep
  <2> QED
    BY <2>3, <2>4 DEF Locking
<1>4. CASE CreateSocketPool(t) \/ CreateReturns(t) \/ SetPoolId(t) \/ DestroyReturns(t)
  <2>1. pc[t] \notin {"mapping", "using"} /\ lockedBy' = lockedBy
    BY <1>4 DEF CreateSocketPool, CreateReturns, SetPoolId, DestroyReturns, coreVars
  <2>2. pc'[t] \in {"creating", "setid", "post", "resetting"}
    BY <1>4, CreateStep, KeepStep
  <2> QED
    BY <2>1, <2>2 DEF Locking
<1>5. CASE ShutdownReset(t) \/ Erase(t) \/ PostEnd(t)
  <2>1. pc[t] \notin {"mapping", "using"} /\ lockedBy' = lockedBy
    BY <1>5 DEF ShutdownReset, Erase, PostEnd, coreVars
  <2>2. pc'[t] \in {"erasing", "idle"}
    BY <1>5, KeepStep, ReturnSteps
  <2> QED
    BY <2>1, <2>2 DEF Locking
<1>6. CASE LockTimesOut(t)
  <2>1. pc[t] = "locking" /\ lockedBy' = lockedBy
    BY <1>6 DEF LockTimesOut, coreVars
  <2>2. pc'[t] = "idle"
    BY <1>6, ReturnSteps
  <2> QED
    BY <2>1, <2>2 DEF Locking
<1>7. CASE PostProcess(t) \/ PostRelock(t)
  <2>1. lockedBy' = lockedBy
    BY <1>7 DEF PostProcess, PostRelock, coreVars
  <2>2. pc[t] \in {"post", "connecting"} /\ pc'[t] \in {"looping", "idle"}
    BY <1>7, PostProcessStep, PostRelockStep
  <2> QED
    BY <2>1, <2>2 DEF Locking
<1>8. CASE PostSkip(t) \/ PostFirst(t) \/ PostNext(t)
  <2>1. lockedBy' = lockedBy
    BY <1>8 DEF PostSkip, PostFirst, PostNext, coreVars
  <2>2. pc[t] = "looping" /\ pc'[t] \in {"looping", "connecting"}
    BY <1>8, PostTakes
  <2> QED
    BY <2>1, <2>2 DEF Locking
<1> QED
    BY <1>1, <1>2, <1>3, <1>4, <1>5, <1>6, <1>7, <1>8 DEF Begin, GoOn

(* The parts of LockInv about a thread and about a socket.                 *)
LocksOwn(t) ==
    pc[t] \in Locking /\ my[t].id # 0 => owner[my[t].id] = my[t].pool

LockedFits(s) ==
    lockedBy[s] # NoThread =>
        /\ phase[s.pool] \in {"running", "stopping"}
        /\ state[s] \notin {"none", "killed"}
        /\ my[lockedBy[s]].id = s.pool
        /\ pc[lockedBy[s]] \in {"mapping", "using"} /\ my[lockedBy[s]].sock = s

Locks == (\A t \in Threads : LocksOwn(t)) /\ (\A s \in Socket : LockedFits(s))

LEMMA LocksParts == LocksFit /\ LockedInHands <=> Locks
BY DEF LocksFit, LockedInHands, Locks, LocksOwn, LockedFits, Locking

(* The handler of a locked socket is found, in a pool with its id.         *)
LEMMA LockedFound ==
    ASSUME TypeInv, Managers, Sockets, Locks, NEW s \in Socket, lockedBy[s] # NoThread
    PROVE  /\ lockedBy[s] \in Threads
           /\ my[lockedBy[s]].pool \in Pools
           /\ nPoolId[my[lockedBy[s]].pool] = s.pool
           /\ s \in mapSocket[my[lockedBy[s]].pool]
<1> USE TypeParts DEF TypeInv, TypedParts, Managers
<1> DEFINE l == lockedBy[s]
<1>1. l \in Threads
    BY DEF StateType
<1>2. /\ phase[s.pool] \in {"running", "stopping"} /\ state[s] \notin {"none", "killed"}
      /\ my[l].id = s.pool /\ pc[l] \in {"mapping", "using"}
    BY DEF Locks, LockedFits
<1>3. s.pool \in Id /\ s.pool # 0
    BY Constants
<1>4. owner[s.pool] = my[l].pool /\ my[l].pool \in Pools
    BY <1>1, <1>2, <1>3 DEF Locks, LocksOwn, Locking, AtWork
<1>5. nPoolId[my[l].pool] = s.pool
    BY <1>2, <1>3, <1>4 DEF CoresOwned
<1>6. s \in mapSocket[my[l].pool]
    BY <1>2, <1>4, <1>5 DEF Sockets, MapsExact, Living
<1> QED
    BY <1>1, <1>4, <1>5, <1>6

LEMMA ThreadLocks ==
    ASSUME TypeInv, Managers, Sockets, Locks, NEW t \in Threads,
           Begin(t) \/ GoOn(t) \/ Unlock(t)
    PROVE  Locks'
<1> USE TypeParts DEF TypeInv, TypedParts, Managers
<1>1. Others(t)
    BY ThreadTypes
<1>2. /\ UNCHANGED <<mapSocket, nPoolId>>
      /\ \A s \in Socket : StateMoves(s)
      /\ \A i \in Id : PhaseMoves(i)
      /\ \A i \in 1 .. ids : owner'[i] = owner[i]
    BY ThreadKeeps
<1>3. ASSUME NEW u \in Threads, u # t
      PROVE  LocksOwn(u)'
  <2>1. my[u].id \in 0 .. ids /\ ids \in Nat
    BY LocalFields DEF ThreadType, PhaseType
  <2>2. pc'[u] = pc[u] /\ my'[u] = my[u] /\ LocksOwn(u)
    BY <1>1, <1>3 DEF Others, Locks
  <2> QED
    BY <1>2, <2>1, <2>2 DEF LocksOwn
<1>4. ASSUME NEW s \in Socket, lockedBy[s] # NoThread, lockedBy'[s] = lockedBy[s],
             lockedBy[s] # t \/ (pc'[t] \in {"mapping", "using"} /\ my'[t] = my[t])
      PROVE  LockedFits(s)'
  <2>1. LockedFits(s) /\ lockedBy[s] \in Threads /\ s.pool \in Id
    BY <1>4, Constants DEF Locks, StateType
  <2>2. my'[lockedBy[s]] = my[lockedBy[s]] /\ pc'[lockedBy[s]] \in {"mapping", "using"}
    BY <1>1, <1>4, <2>1 DEF Others, LockedFits
  <2>3. phase'[s.pool] \in {"running", "stopping"}
    BY <1>2, <1>4, <2>1 DEF LockedFits, PhaseMoves
  <2>4. state'[s] \notin {"none", "killed"}
    BY <1>2, <1>4, <2>1 DEF LockedFits, StateMoves, Alive
  <2> QED
    BY <1>4, <2>1, <2>2, <2>3, <2>4 DEF LockedFits
<1>5. ASSUME NEW s \in Socket, lockedBy'[s] = NoThread
      PROVE  LockedFits(s)'
    BY <1>5 DEF LockedFits
<1>6. CASE \E p \in Pools : Lock(t, p)
  <2>1. PICK p \in Pools : Lock(t, p)
    BY <1>6
  <2>2. /\ pc[t] = "idle" /\ my'[t].pool = p /\ my'[t].id = nPoolId[p]
        /\ owner' = owner /\ lockedBy' = lockedBy
    BY <2>1, LockStep DEF Lock, coreVars
  <2>3. LocksOwn(t)'
    BY <2>2 DEF LocksOwn, IdsOwned
  <2>4. \A s \in Socket : lockedBy[s] # t
    BY <2>2, ConstantsAssumption DEF Locks, LockedFits
  <2> QED
    BY <1>3, <1>4, <1>5, <2>2, <2>3, <2>4 DEF Locks
<1>7. CASE LockASocket(t)
  <2>1. /\ pc[t] = "locking" /\ pc'[t] = "mapping" /\ phase[my[t].id] = "running"
        /\ my'[t].pool = my[t].pool /\ my'[t].id = my[t].id
        /\ owner' = owner /\ phase' = phase /\ state' = state
    BY <1>7, LockASocketStep DEF LockASocket
  <2>2. PICK s \in Socket :
            /\ s.pool = my[t].id /\ state[s] = "switched"
            /\ lockedBy[s] = NoThread /\ my'[t].sock = s
            /\ lockedBy' = [lockedBy EXCEPT ![s] = t]
    BY <1>7, LockASocketStep
  <2>3. LocksOwn(t)'
    BY <2>1 DEF LocksOwn, Locks, Locking
  <2>4. LockedFits(s)'
    BY <2>1, <2>2 DEF LockedFits, StateType
  <2>5. ASSUME NEW x \in Socket, x # s
        PROVE  LockedFits(x)'
    <3>1. lockedBy'[x] = lockedBy[x]
      BY <2>2, <2>5 DEF StateType
    <3>2. lockedBy[x] # t
      BY <2>1, ConstantsAssumption DEF Locks, LockedFits
    <3> QED
      BY <1>4, <1>5, <3>1, <3>2
  <2> QED
    BY <1>3, <2>3, <2>4, <2>5 DEF Locks
<1>8. CASE MapToHandler(t)
  <2>1. /\ pc[t] = "mapping" /\ owner' = owner /\ lockedBy' = lockedBy
        /\ IF my[t].sock \in mapSocket[my[t].pool]
           THEN pc'[t] = "using" /\ my' = my
           ELSE pc'[t] = "idle" /\ my'[t] = NoLocals
    BY <1>8, MapToHandlerStep DEF MapToHandler, coreVars
  <2>2. LocksOwn(t)'
    BY <2>1 DEF LocksOwn, Locks, Locking
  <2>3. ASSUME NEW s \in Socket, lockedBy[s] = t
        PROVE  pc'[t] = "using" /\ my' = my
    <3>1. lockedBy[s] # NoThread /\ my[t].sock = s
      BY <2>3, ConstantsAssumption DEF Locks, LockedFits
    <3> QED
      BY <2>1, <2>3, <3>1, LockedFound
  <2> QED
    BY <1>3, <1>4, <1>5, <2>1, <2>2, <2>3 DEF Locks
<1>9. CASE Unlock(t)
  <2>1. /\ pc'[t] = "idle"
        /\ lockedBy' = [s \in Socket |->
            IF s = my[t].sock /\ lockedBy[s] = t /\ s.pool = nPoolId[my[t].pool]
            THEN NoThread ELSE lockedBy[s]]
    BY <1>9, ReturnSteps DEF Unlock
  <2>2. LocksOwn(t)'
    BY <2>1 DEF LocksOwn, Locking
  <2>3. ASSUME NEW s \in Socket
        PROVE  LockedFits(s)'
    <3>1. CASE lockedBy[s] = t
      <4>1. lockedBy[s] # NoThread /\ my[t].sock = s
        BY <3>1, ConstantsAssumption DEF Locks, LockedFits
      <4>2. nPoolId[my[t].pool] = s.pool
        BY <3>1, <4>1, LockedFound
      <4> QED
        BY <1>5, <2>1, <3>1, <4>1, <4>2
    <3>2. CASE lockedBy[s] # t
      BY <1>4, <1>5, <2>1, <3>2
    <3> QED
      BY <3>1, <3>2
  <2> QED
    BY <1>3, <2>2, <2>3 DEF Locks
<1>10. CASE /\ pc[t] \notin {"mapping", "using"} /\ pc'[t] \notin Locking
            /\ lockedBy' = lockedBy
  <2>1. LocksOwn(t)'
    BY <1>10 DEF LocksOwn
  <2>2. \A s \in Socket : lockedBy[s] # t
    BY <1>10, ConstantsAssumption DEF Locks, LockedFits
  <2> QED
    BY <1>3, <1>4, <1>5, <1>10, <2>1, <2>2 DEF Locks
<1> QED
    BY <1>6, <1>7, <1>8, <1>9, <1>10, LockerSteps

(* The core unlocks a socket that it kills.                                *)
LEMMA EventLocks ==
    ASSUME TypeInv, Managers, Sockets, Locks,
           \/ \E i \in Id : SpePool(i)
           \/ \E s \in Socket : SpeSocket(s) \/ Fail(s)
    PROVE  Locks'
<1> USE TypeParts DEF TypeInv, TypedParts, Managers
<1>1. UNCHANGED <<pc, my, owner>>
    BY SpeTypes
<1>2. \A t \in Threads : LocksOwn(t)'
    BY <1>1 DEF Locks, LocksOwn
<1>3. ASSUME NEW s \in Socket, lockedBy'[s] = lockedBy[s],
             \/ lockedBy[s] = NoThread
             \/ /\ phase'[s.pool] = phase[s.pool]
                /\ StateMoves(s)
      PROVE  LockedFits(s)'
    BY <1>1, <1>3 DEF Locks, LockedFits, StateMoves, Alive
<1>4. ASSUME NEW i \in Id, SpePool(i)
      PROVE  \A s \in Socket : LockedFits(s)'
  <2>1. state' = state /\ lockedBy' = lockedBy
    BY <1>4 DEF SpePool, SpeStarted, SpeShutdown
  <2>2. \A j \in Id : j # i => phase'[j] = phase[j]
    BY <1>4 DEF SpePool, SpeStarted, SpeShutdown, PhaseType
  <2>3. ASSUME NEW s \in Socket, s.pool = i
        PROVE  lockedBy[s] = NoThread
    <3>1. phase[i] = "starting" \/ state[s] = "killed"
      BY <1>4, <2>3 DEF SpePool, SpeStarted, SpeShutdown
    <3> QED
      BY <2>3, <3>1 DEF Locks, LockedFits
  <2> QED
    BY <1>3, <2>1, <2>2, <2>3, Constants DEF StateMoves
<1>5. ASSUME NEW s \in Socket, SpeUSocketCreated(s) \/ SpeUSocketKilled(s)
      PROVE  \A x \in Socket : LockedFits(x)'
  <2>1. /\ phase' = phase /\ \A x \in Socket : x # s => state'[x] = state[x]
        /\ \A x \in Socket : x # s => lockedBy'[x] = lockedBy[x]
    BY <1>5 DEF SpeUSocketCreated, SpeUSocketKilled, StateType
  <2>2. lockedBy'[s] = NoThread
    <3>1. CASE SpeUSocketKilled(s)
      BY <3>1 DEF SpeUSocketKilled, StateType
    <3>2. CASE SpeUSocketCreated(s)
      BY <3>2 DEF SpeUSocketCreated, Locks, LockedFits
    <3> QED
      BY <1>5, <3>1, <3>2
  <2> QED
    BY <1>3, <2>1, <2>2 DEF StateMoves, LockedFits
<1>6. ASSUME NEW s \in Socket, SpeConnected(s) \/ Establish(s) \/ Fail(s)
      PROVE  \A x \in Socket : LockedFits(x)'
    BY <1>3, <1>6, ConnectedSockets
<1> QED
    BY <1>2, <1>4, <1>5, <1>6 DEF Locks, SpeSocket

LEMMA NextLocks ==
    ASSUME Serial, OneIdle
    PROVE  LockInv /\ [Next]_vars => LockInv'
<1> SUFFICES ASSUME LockInv, [Next]_vars
             PROVE  LockInv'
    OBVIOUS
<1>0. TypeInv /\ Managers /\ SocketInv /\ Sockets /\ Locks
    BY LocksParts DEF LockInv, SocketInv, OwnInv, Managers, Sockets
<1>1. SocketInv'
    BY <1>0, NextSockets
<1>2. Locks'
  <2>1. CASE UNCHANGED vars
    BY <1>0, <2>1 DEF vars, coreVars, threadVars, Locks, LocksOwn, LockedFits
  <2>2. CASE Next
    BY <1>0, <2>2, ThreadLocks, EventLocks DEF Next
  <2> QED
    BY <2>1, <2>2
<1>3. LocksFit' /\ LockedInHands'
    BY <1>2 DEF LocksFit, LockedInHands, Locks, LocksOwn, LockedFits, Locking
<1> QED
    BY <1>1, <1>3 DEF LockInv

(* A socket that Lock has locked always gets into the hands of a thread    *)
(* that unlocks it: its handler is found whatever happens to the pool      *)
(* meanwhile, and Unlock reaches the core pool it is locked in.            *)
THEOREM LocksInHands ==
    ASSUME Serial, OneIdle
    PROVE  Spec => []LockedInHands
<1>1. Init => LockInv
  <2>1. Init => LocksFit /\ LockedInHands
    BY DEF Init, LocksFit, LockedInHands
  <2> QED
    BY <2>1, InitSockets DEF LockInv
<1>2. LockInv /\ [Next]_vars => LockInv'
    BY NextLocks
<1>3. LockInv => LockedInHands
    BY DEF LockInv
<1> QED
    BY <1>1, <1>2, <1>3, PTL DEF Spec
----------------------------------------------------------------------------
(* The loops of PostProcess.                                               *)
LoopFits(t) ==
    /\ pc[t] = "looping" =>
        /\ csPool[my[t].pool] = t
        /\ my[t].todo \subseteq mapSocket[my[t].pool]
        /\ my[t].id = 0 => my[t].todo = {}
    /\ pc[t] = "connecting" => my[t].id # 0
    /\ pc[t] \in {"looping", "connecting"} /\ my[t].id # 0 =>
        /\ phase[my[t].id] \in {"running", "stopping", "gone"}
        /\ \E M \in SUBSET Socket :
            /\ my[t].size = Cardinality(M) /\ my[t].todo \subseteq M
            /\ nPoolId[my[t].pool] = my[t].id => mapSocket[my[t].pool] \subseteq M

LEMMA LoopsParts == LoopsFit <=> \A t \in Threads : LoopFits(t)
BY DEF LoopsFit, LoopFits

InLoop == {"looping", "connecting"}

(* Outside of PostProcess m_cs is given up at the end of a step.           *)
LEMMA LooperSteps ==
    ASSUME TypedParts, AtWork, NEW t \in Threads, Begin(t) \/ GoOn(t) \/ Unlock(t)
    PROVE  \/ PostProcess(t) \/ PostSkip(t) \/ PostFirst(t) \/ PostNext(t)
           \/ PostRelock(t) \/ PostEnd(t)
           \/ pc[t] \notin InLoop /\ pc'[t] \notin InLoop /\ csPool' = csPool
<1>1. CASE \E p \in Pools : Construct(t, p)
  <2>1. pc[t] = "idle" /\ pc' = pc /\ csPool' = csPool
    BY <1>1 DEF Construct, MayManage, threadVars
  <2> QED
    BY <2>1 DEF InLoop
<1>2. CASE \E p \in Pools : StartSocketPool(t, p)
  <2>1. pc[t] = "idle" /\ csPool' = csPool
    BY <1>2 DEF StartSocketPool, MayManage
  <2>2. pc'[t] \in {"post", "create"}
    BY <1>2, StartStep DEF StartEffect
  <2> QED
    BY <2>1, <2>2 DEF InLoop
<1>3. CASE \E p \in Pools : \E destructor \in BOOLEAN : ShutdownPool(t, p, destructor)
  <2>1. PICK p \in Pools : \E destructor \in BOOLEAN : ShutdownPool(t, p, destructor)
    BY <1>3
  <2>2. PICK destructor \in BOOLEAN : ShutdownPool(t, p, destructor)
    BY <2>1
  <2>3. pc[t] = "idle" /\ csPool' = csPool
    BY <2>2 DEF ShutdownPool, MayManage
  <2>4. pc'[t] \in {"destroying", "resetting"}
    BY <2>2, ShutdownStep
  <2> QED
    BY <2>3, <2>4 DEF InLoop
<1>4. CASE CreateSocketPool(t) \/ CreateReturns(t) \/ SetPoolId(t) \/ DestroyReturns(t)
  <2>1. pc[t] \notin InLoop /\ csPool' = csPool
    BY <1>4 DEF CreateSocketPool, CreateReturns, SetPoolId, DestroyReturns, InLoop
  <2>2. pc'[t] \in {"creating", "setid", "post", "resetting"}
    BY <1>4, CreateStep, KeepStep
  <2> QED
    BY <2>1, <2>2 DEF InLoop
<1>5. CASE ShutdownReset(t) \/ Erase(t) \/ LockTimesOut(t) \/ Unlock(t)
  <2>1. pc[t] \notin InLoop /\ csPool' = csPool
    BY <1>5 DEF ShutdownReset, Erase, LockTimesOut, Unlock, InLoop
  <2>2. pc'[t] \in {"erasing", "idle"}
    BY <1>5, KeepStep, ReturnSteps
  <2> QED
    BY <2>1, <2>2 DEF InLoop
<1>6. CASE (\E p \in Pools : Lock(t, p)) \/ LockASocket(t) \/ MapToHandler(t)
  <2>1. csPool' = csPool
    BY <1>6 DEF Lock, LockASocket, MapToHandler
  <2>2. pc[t] \notin InLoop /\ pc'[t] \notin InLoop
    BY <1>6, LockStep, LockASocketStep, MapToHandlerStep DEF InLoop
  <2> QED
    BY <2>1, <2>2
<1> QED
    BY <1>1, <1>2, <1>3, <1>4, <1>5, <1>6 DEF Begin, GoOn

(* A pool whose sockets are about to be connected is not being created.    *)
LEMMA PostSeesAll ==
    ASSUME TypeInv, Managers, PostApart, NEW t \in Threads, pc[t] = "post",
           nPoolId[my[t].pool] # 0
    PROVE  phase[nPoolId[my[t].pool]] \in {"running", "stopping"}
<1> USE TypeParts DEF TypeInv, TypedParts, Managers
<1> DEFINE p == my[t].pool
           i == nPoolId[p]
<1>1. p \in Pools
    BY DEF AtWork
<1>2. i \in Id
    BY <1>1, Constants DEF PoolType, PhaseType
<1>3. owner[i] = p /\ phase[i] \in {"creating", "running", "stopping"}
    BY <1>1 DEF IdsOwned
<1>4. ASSUME phase[i] = "creating"
      PROVE  FALSE
  <2>1. PICK c \in Threads : pc[c] = "creating" /\ my[c].id = i
    BY <1>2, <1>4 DEF CoresOwned
  <2>2. my[c].pool = p
    BY <1>3, <2>1 DEF Knows
  <2> QED
    BY <2>1, <2>2 DEF PostApart
<1> QED
    BY <1>3, <1>4

LEMMA ThreadLoops ==
    ASSUME TypeInv, Managers, Sockets, PostApart, \A u \in Threads : LoopFits(u),
           NEW t \in Threads, Begin(t) \/ GoOn(t) \/ Unlock(t)
    PROVE  \A u \in Threads : LoopFits(u)'
<1> USE TypeParts DEF TypeInv, TypedParts
<1>1. Others(t)
    BY ThreadTypes
<1>2. /\ UNCHANGED <<mapSocket, nPoolId>> /\ \A i \in Id : PhaseMoves(i)
    BY ThreadKeeps
<1>3. \A u \in Threads : my[u].id # 0 => my[u].id \in Id
    BY LocalFields, Constants DEF ThreadType, PhaseType
<1>4. \A i \in Id : phase[i] \in {"running", "stopping", "gone"} =>
                    phase'[i] \in {"running", "stopping", "gone"}
    BY <1>2 DEF PhaseMoves
<1>5. ASSUME NEW u \in Threads, u # t, pc[u] = "looping" => csPool'[my[u].pool] = u
      PROVE  LoopFits(u)'
  <2>1. pc'[u] = pc[u] /\ my'[u] = my[u] /\ LoopFits(u)
    BY <1>1, <1>5 DEF Others
  <2> QED
    BY <1>2, <1>3, <1>4, <1>5, <2>1 DEF LoopFits
<1>6. \A u \in Threads : pc[u] \in InLoop => my[u].pool \in Pools
    BY DEF AtWork, InLoop
<1>7. CASE PostProcess(t)
  <2> DEFINE p == my[t].pool
  <2>1. /\ pc[t] = "post" /\ pc'[t] = "looping"
        /\ p \in Pools /\ my'[t].pool = p
        /\ my'[t].id = nPoolId[p]
        /\ my'[t].size = Cardinality(mapSocket[p])
        /\ my'[t].todo = mapSocket[p]
        /\ csPool[p] = NoThread
        /\ csPool' = [csPool EXCEPT ![p] = t]
    BY <1>7, PostProcessStep
  <2>2. ASSUME NEW u \in Threads, u # t, pc[u] = "looping"
        PROVE  csPool'[my[u].pool] = u
    BY <1>6, <2>1, <2>2, ConstantsAssumption DEF LoopFits, ThreadType, InLoop
  <2>3. LoopFits(t)'
    <3>1. csPool'[p] = t
      BY <2>1 DEF ThreadType
    <3>2. my'[t].id = 0 => my'[t].todo = {}
      BY <2>1, NoneLiving DEF Sockets, MapsExact
    <3>3. my'[t].id # 0 => phase'[my'[t].id] \in {"running", "stopping", "gone"}
      <4>1. nPoolId[p] # 0 => nPoolId[p] \in Id
        BY <2>1, Constants DEF PoolType, PhaseType
      <4>2. nPoolId[p] # 0 => phase[nPoolId[p]] \in {"running", "stopping"}
        BY <2>1, PostSeesAll
      <4> QED
        BY <1>4, <2>1, <4>1, <4>2
    <3>4. mapSocket[p] \in SUBSET Socket
      BY <2>1 DEF PoolType
    <3> QED
      BY <1>2, <2>1, <3>1, <3>2, <3>3, <3>4 DEF LoopFits
  <2> QED
    BY <1>5, <2>2, <2>3
<1>8. CASE PostSkip(t) \/ PostFirst(t) \/ PostNext(t)
  <2>1. /\ pc[t] = "looping" /\ my[t].todo # {}
        /\ my'[t].pool = my[t].pool /\ my'[t].id = my[t].id
        /\ my'[t].size = my[t].size /\ my'[t].todo \subseteq my[t].todo
        /\ \/ pc'[t] = "looping" /\ csPool' = csPool
           \/ /\ pc'[t] = "connecting"
              /\ csPool' = [csPool EXCEPT ![my[t].pool] = NoThread]
    BY <1>8, PostTakes
  <2>2. my[t].pool \in Pools /\ csPool[my[t].pool] = t
    BY <1>6, <2>1 DEF LoopFits, InLoop
  <2>3. ASSUME NEW u \in Threads, u # t, pc[u] = "looping"
        PROVE  csPool'[my[u].pool] = u
    BY <1>6, <2>1, <2>2, <2>3 DEF LoopFits, ThreadType, InLoop
  <2>4. LoopFits(t) /\ my[t].id # 0
    BY <2>1 DEF LoopFits
  <2>5. LoopFits(t)'
    <3>1. phase'[my'[t].id] \in {"running", "stopping", "gone"}
      BY <1>3, <1>4, <2>1, <2>4 DEF LoopFits
    <3>2. PICK M \in SUBSET Socket :
            /\ my[t].size = Cardinality(M) /\ my[t].todo \subseteq M
            /\ nPoolId[my[t].pool] = my[t].id => mapSocket[my[t].pool] \subseteq M
      BY <2>1, <2>4 DEF LoopFits
    <3>3. my'[t].todo \subseteq M
      BY <2>1, <3>2
    <3>4. my'[t].todo \subseteq mapSocket'[my'[t].pool]
      BY <1>2, <2>1, <2>4 DEF LoopFits
    <3>5. pc'[t] = "looping" => csPool'[my'[t].pool] = t
      BY <2>1, <2>2
    <3> QED
      BY <1>2, <2>1, <2>4, <3>1, <3>2, <3>3, <3>4, <3>5 DEF LoopFits
  <2> QED
    BY <1>5, <2>3, <2>5
<1>9. CASE PostRelock(t)
  <2>1. /\ pc[t] = "connecting" /\ my[t].pool \in Pools
        /\ csPool[my[t].pool] = NoThread
        /\ \/ pc'[t] = "idle" /\ my'[t] = NoLocals /\ csPool' = csPool
           \/ /\ my[t].id = nPoolId[my[t].pool]
              /\ my[t].size = Cardinality(mapSocket[my[t].pool])
              /\ pc'[t] = "looping" /\ csPool' = [csPool EXCEPT ![my[t].pool] = t]
              /\ my'[t].pool = my[t].pool /\ my'[t].id = my[t].id
              /\ my'[t].size = my[t].size /\ my'[t].todo = my[t].todo
    BY <1>9, PostRelockStep
  <2>2. ASSUME NEW u \in Threads, u # t, pc[u] = "looping"
        PROVE  csPool'[my[u].pool] = u
    BY <1>6, <2>1, <2>2, ConstantsAssumption DEF LoopFits, ThreadType, InLoop
  <2>3. CASE pc'[t] = "idle"
    BY <1>5, <2>2, <2>3 DEF LoopFits
  <2>4. CASE pc'[t] = "looping"
    <3> DEFINE p == my[t].pool
    <3>1. my[t].id # 0 /\ phase[my[t].id] \in {"running", "stopping", "gone"}
      BY <2>1 DEF LoopFits
    <3>2. PICK M \in SUBSET Socket :
            /\ my[t].size = Cardinality(M) /\ my[t].todo \subseteq M
            /\ nPoolId[p] = my[t].id => mapSocket[p] \subseteq M
      BY <2>1, <3>1 DEF LoopFits
    <3>3. IsFiniteSet(M) /\ mapSocket[p] \subseteq M
          /\ Cardinality(mapSocket[p]) = Cardinality(M)
      BY <2>1, <2>4, <3>2, SocketsFinite, FS_Subset
    <3>4. mapSocket[p] = M
      BY <3>3, FS_Subset
    <3>5. phase'[my[t].id] \in {"running", "stopping", "gone"}
      BY <1>3, <1>4, <3>1
    <3>6. csPool'[p] = t
      BY <2>1, <2>4 DEF ThreadType
    <3>7. LoopFits(t)'
      BY <1>2, <2>1, <2>4, <3>1, <3>2, <3>4, <3>5, <3>6 DEF LoopFits
    <3> QED
      BY <1>5, <2>2, <3>7
  <2> QED
    BY <2>1, <2>3, <2>4
<1>10. CASE PostEnd(t)
  <2>1. pc[t] = "looping" /\ pc'[t] = "idle"
        /\ csPool' = [csPool EXCEPT ![my[t].pool] = NoThread]
    BY <1>10, ReturnSteps DEF PostEnd
  <2>2. my[t].pool \in Pools /\ csPool[my[t].pool] = t
    BY <1>6, <2>1 DEF LoopFits, InLoop
  <2>3. ASSUME NEW u \in Threads, u # t, pc[u] = "looping"
        PROVE  csPool'[my[u].pool] = u
    BY <1>6, <2>1, <2>2, <2>3 DEF LoopFits, ThreadType, InLoop
  <2>4. LoopFits(t)'
    BY <2>1 DEF LoopFits
  <2> QED
    BY <1>5, <2>3, <2>4
<1>11. CASE pc[t] \notin InLoop /\ pc'[t] \notin InLoop /\ csPool' = csPool
  <2>1. \A u \in Threads : pc[u] = "looping" => csPool'[my[u].pool] = u
    BY <1>11 DEF LoopFits
  <2>2. LoopFits(t)'
    BY <1>11 DEF LoopFits, InLoop
  <2> QED
    BY <1>5, <2>1, <2>2
<1> QED
    BY <1>7, <1>8, <1>9, <1>10, <1>11, LooperSteps

(* Events need m_cs to take sockets away, and give none to a core pool     *)
(* that runs.                                                              *)
LEMMA EventLoops ==
    ASSUME TypeInv, Managers, \A u \in Threads : LoopFits(u),
           \/ \E i \in Id : SpePool(i)
           \/ \E s \in Socket : SpeSocket(s) \/ Fail(s)
    PROVE  \A u \in Threads : LoopFits(u)'
<1> USE TypeParts DEF TypeInv, TypedParts
<1>1. UNCHANGED <<csPool, pc, my>>
    BY SpeTypes
<1>2. \A u \in Threads : my[u].id # 0 => my[u].id \in Id
    BY LocalFields, Constants DEF ThreadType, PhaseType
<1>3. \A u \in Threads : pc[u] \in InLoop => my[u].pool \in Pools
    BY DEF AtWork, InLoop
<1>4. ASSUME NEW u \in Threads,
             pc[u] = "looping" => mapSocket[my[u].pool] \subseteq mapSocket'[my[u].pool],
             pc[u] \in InLoop /\ my[u].id # 0 =>
                /\ phase'[my[u].id] \in {"running", "stopping", "gone"}
                /\ nPoolId'[my[u].pool] = my[u].id =>
                    /\ nPoolId[my[u].pool] = my[u].id
                    /\ mapSocket'[my[u].pool] \subseteq mapSocket[my[u].pool]
      PROVE  LoopFits(u)'
  <2>1. LoopFits(u)
    OBVIOUS
  <2>2. pc[u] = "looping" => /\ csPool[my[u].pool] = u
                             /\ my[u].todo \subseteq mapSocket'[my[u].pool]
                             /\ my[u].id = 0 => my[u].todo = {}
    BY <1>4, <2>1 DEF LoopFits
  <2>3. ASSUME pc[u] \in InLoop, my[u].id # 0
        PROVE  \E M \in SUBSET Socket :
                /\ my[u].size = Cardinality(M) /\ my[u].todo \subseteq M
                /\ nPoolId'[my[u].pool] = my[u].id => mapSocket'[my[u].pool] \subseteq M
    <3>1. PICK M \in SUBSET Socket :
                /\ my[u].size = Cardinality(M) /\ my[u].todo \subseteq M
                /\ nPoolId[my[u].pool] = my[u].id => mapSocket[my[u].pool] \subseteq M
      BY <2>1, <2>3 DEF LoopFits, InLoop
    <3> QED
      BY <1>4, <2>3, <3>1
  <2> QED
    BY <1>1, <1>4, <2>1, <2>2, <2>3 DEF LoopFits, InLoop
<1>5. ASSUME NEW u \in Threads, pc[u] \in InLoop, my[u].id # 0
      PROVE  phase[my[u].id] \in {"running", "stopping", "gone"}
    BY <1>5 DEF LoopFits, InLoop
<1>6. ASSUME NEW u \in Threads, pc[u] = "looping"
      PROVE  csPool[my[u].pool] # NoThread
    BY <1>6, ConstantsAssumption DEF LoopFits
<1>7. ASSUME NEW i \in Id, SpeStarted(i)
      PROVE  \A u \in Threads : LoopFits(u)'
  <2>1. /\ phase[i] = "starting" /\ phase' = [phase EXCEPT ![i] = "creating"]
        /\ mapSocket' = mapSocket
    BY <1>7 DEF SpeStarted
  <2>2. owner[i] \in Pools /\ nPoolId' = [nPoolId EXCEPT ![owner[i]] = i]
    BY <1>7, StartedOwn
  <2> SUFFICES ASSUME NEW u \in Threads, pc[u] \in InLoop, my[u].id # 0
               PROVE  /\ phase'[my[u].id] \in {"running", "stopping", "gone"}
                      /\ nPoolId'[my[u].pool] = my[u].id =>
                            nPoolId[my[u].pool] = my[u].id
    BY <1>4, <2>1
  <2>3. my[u].id # i /\ my[u].id \in Id /\ my[u].pool \in Pools
    BY <1>2, <1>3, <1>5, <2>1
  <2> QED
    BY <1>5, <2>1, <2>2, <2>3 DEF PhaseType, PoolType
<1>8. ASSUME NEW i \in Id, SpeShutdown(i)
      PROVE  \A u \in Threads : LoopFits(u)'
  <2>1. /\ phase' = [phase EXCEPT ![i] = "gone"]
        /\ mapSocket' = [p \in Pools |-> IF p \in Seek(i) THEN {} ELSE mapSocket[p]]
        /\ \A p \in Seek(i) : csPool[p] = NoThread
    BY <1>8 DEF SpeShutdown, Free
  <2>2. \A p \in Pools : nPoolId'[p] = IF nPoolId[p] = i THEN 0 ELSE nPoolId[p]
    BY <1>8, ShutdownEventOwn
  <2> SUFFICES ASSUME NEW u \in Threads, pc[u] \in InLoop
               PROVE  /\ pc[u] = "looping" =>
                            mapSocket[my[u].pool] \subseteq mapSocket'[my[u].pool]
                      /\ my[u].id # 0 =>
                            /\ phase'[my[u].id] \in {"running", "stopping", "gone"}
                            /\ nPoolId'[my[u].pool] = my[u].id =>
                                /\ nPoolId[my[u].pool] = my[u].id
                                /\ mapSocket'[my[u].pool] \subseteq mapSocket[my[u].pool]
    BY <1>4 DEF InLoop
  <2>3. my[u].pool \in Pools
    BY <1>3
  <2>4. pc[u] = "looping" => mapSocket[my[u].pool] \subseteq mapSocket'[my[u].pool]
    BY <1>6, <2>1, <2>3
  <2>5. my[u].id # 0 => phase'[my[u].id] \in {"running", "stopping", "gone"}
    BY <1>2, <1>5, <2>1 DEF PhaseType
  <2>6. my[u].id # 0 /\ nPoolId'[my[u].pool] = my[u].id =>
            nPoolId[my[u].pool] = my[u].id
    BY <2>2, <2>3
  <2>7. mapSocket'[my[u].pool] \subseteq mapSocket[my[u].pool]
    BY <2>1, <2>3
  <2> QED
    BY <2>4, <2>5, <2>6, <2>7
<1>9. ASSUME NEW s \in Socket, SpeUSocketCreated(s)
      PROVE  \A u \in Threads : LoopFits(u)'
  <2>1. /\ phase[s.pool] = "creating" /\ phase' = phase /\ nPoolId' = nPoolId
        /\ mapSocket' = [p \in Pools |->
            mapSocket[p] \union (IF p \in Seek(s.pool) THEN {s} ELSE {})]
    BY <1>9 DEF SpeUSocketCreated
  <2>2. \A p \in Pools : p \in Seek(s.pool) <=> nPoolId[p] = s.pool
    BY Constants, SeekFinds DEF Managers
  <2> SUFFICES ASSUME NEW u \in Threads, pc[u] \in InLoop
               PROVE  /\ mapSocket[my[u].pool] \subseteq mapSocket'[my[u].pool]
                      /\ my[u].id # 0 /\ nPoolId[my[u].pool] = my[u].id =>
                            mapSocket'[my[u].pool] \subseteq mapSocket[my[u].pool]
    BY <1>4, <1>5, <2>1 DEF InLoop
  <2>3. my[u].pool \in Pools
    BY <1>3
  <2>4. my[u].id # 0 => my[u].id # s.pool
    BY <1>5, <2>1
  <2> QED
    BY <2>1, <2>2, <2>3, <2>4
<1>10. ASSUME NEW s \in Socket, SpeUSocketKilled(s)
       PROVE  \A u \in Threads : LoopFits(u)'
  <2>1. /\ phase' = phase /\ nPoolId' = nPoolId
        /\ mapSocket' = [p \in Pools |->
            mapSocket[p] \ (IF p \in Seek(s.pool) THEN {s} ELSE {})]
        /\ \A p \in Seek(s.pool) : csPool[p] = NoThread
    BY <1>10 DEF SpeUSocketKilled, Free
  <2> SUFFICES ASSUME NEW u \in Threads, pc[u] \in InLoop
               PROVE  /\ pc[u] = "looping" =>
                            mapSocket[my[u].pool] \subseteq mapSocket'[my[u].pool]
                      /\ mapSocket'[my[u].pool] \subseteq mapSocket[my[u].pool]
    BY <1>4, <1>5, <2>1 DEF InLoop
  <2>2. my[u].pool \in Pools
    BY <1>3
  <2> QED
    BY <1>6, <2>1, <2>2
<1>11. ASSUME NEW s \in Socket, SpeConnected(s) \/ Establish(s) \/ Fail(s)
       PROVE  \A u \in Threads : LoopFits(u)'
  <2>1. UNCHANGED <<mapSocket, nPoolId, phase>>
    BY <1>11 DEF SpeConnected, Establish, Fail, poolVars
  <2> QED
    BY <1>4, <1>5, <2>1
<1> QED
    BY <1>7, <1>8, <1>9, <1>10, <1>11 DEF SpePool, SpeSocket

LEMMA NextApart ==
    ASSUME Serial, CalmStart, TypeInv, Managers, PostApart, NEW t \in Threads,
           Begin(t) \/ GoOn(t) \/ Unlock(t)
    PROVE  PostApart'
<1> USE TypeParts DEF TypeInv, TypedParts, Managers
<1>1. Others(t)
    BY ThreadTypes
<1>2. ASSUME pc'[t] # "post",
             pc'[t] \in {"create", "creating"} =>
                /\ pc[t] \in {"create", "creating"} /\ my'[t].pool = my[t].pool
      PROVE  PostApart'
    BY <1>1, <1>2 DEF PostApart, Others
<1>3. CASE Quiet(t)
  <2>1. SameManagers /\ pc'[t] # "post"
    BY <1>3, QuietSteps
  <2> QED
    BY <1>2, <2>1 DEF SameManagers, ManagingSteps
<1>4. CASE \E p \in Pools : Construct(t, p)
    BY <1>4 DEF Construct, threadVars, PostApart
<1>5. CASE \E p \in Pools : StartSocketPool(t, p)
  <2>1. PICK p \in Pools : StartSocketPool(t, p)
    BY <1>5
  <2>2. StartEffect(t, p) /\ Managing = {} /\ pc[t] = "idle"
    BY <2>1, StartStep DEF StartSocketPool, MayManage
  <2>3. ~IsStarted(p) => \A u \in Threads : my[u].pool = p => pc[u] # "post"
    BY <2>1 DEF StartSocketPool
  <2>4. \A u \in Threads : pc[u] \notin {"create", "creating"}
    BY <2>2 DEF Managing
  <2>5. CASE IsStarted(p)
    BY <1>1, <2>2, <2>4, <2>5 DEF StartEffect, PostApart, Others
  <2>6. CASE ~IsStarted(p)
    BY <1>1, <2>2, <2>3, <2>4, <2>6 DEF StartEffect, PostApart, Others
  <2> QED
    BY <2>5, <2>6
<1>6. CASE \E p \in Pools : \E destructor \in BOOLEAN : ShutdownPool(t, p, destructor)
  <2>1. pc'[t] \in {"destroying", "resetting"}
    BY <1>6, ShutdownStep
  <2> QED
    BY <1>2, <2>1
<1>7. CASE CreateSocketPool(t)
  <2>1. pc[t] = "create" /\ pc'[t] = "creating" /\ my'[t].pool = my[t].pool
    BY <1>7, CreateStep DEF CreateSocketPool
  <2> QED
    BY <1>2, <2>1
<1>8. CASE SetPoolId(t)
  <2>1. pc[t] = "setid" /\ pc'[t] = "post"
    BY <1>8, KeepStep DEF SetPoolId
  <2>2. \A u \in Threads : u # t => pc[u] \notin ManagingSteps
    BY <1>1, <2>1, OnlyManager DEF ManagingSteps
  <2> QED
    BY <1>1, <2>1, <2>2 DEF PostApart, Others, ManagingSteps
<1>9. CASE CreateReturns(t) \/ DestroyReturns(t) \/ ShutdownReset(t) \/ Erase(t)
  <2>1. pc'[t] \in {"setid", "resetting", "erasing", "idle"}
    BY <1>9, KeepStep, ReturnSteps
  <2> QED
    BY <1>2, <2>1
<1> QED
    BY <1>3, <1>4, <1>5, <1>6, <1>7, <1>8, <1>9 DEF Begin, GoOn, Quiet

LEMMA NextLoops ==
    ASSUME Serial, OneIdle, CalmStart
    PROVE  LoopInv /\ [Next]_vars => LoopInv'
<1> SUFFICES ASSUME LoopInv, [Next]_vars
             PROVE  LoopInv'
    OBVIOUS
<1>0. /\ TypeInv /\ Managers /\ SocketInv /\ Sockets /\ PostApart
      /\ \A u \in Threads : LoopFits(u)
    BY LoopsParts DEF LoopInv, SocketInv, OwnInv, Managers, Sockets
<1>1. SocketInv'
    BY <1>0, NextSockets
<1>2. (\A u \in Threads : LoopFits(u)') /\ PostApart'
  <2>1. CASE UNCHANGED vars
    <3>1. UNCHANGED <<pc, my, phase, nPoolId, mapSocket, csPool>>
      BY <2>1 DEF vars, coreVars, threadVars, poolVars
    <3>2. \A u \in Threads : LoopFits(u)'
      BY <1>0, <3>1 DEF LoopFits
    <3> QED
      BY <1>0, <3>1, <3>2 DEF PostApart
  <2>2. ASSUME NEW t \in Threads, Begin(t) \/ GoOn(t) \/ Unlock(t)
        PROVE  (\A u \in Threads : LoopFits(u)') /\ PostApart'
    BY <1>0, <2>2, ThreadLoops, NextApart
  <2>3. CASE \/ \E i \in Id : SpePool(i)
             \/ \E s \in Socket : SpeSocket(s) \/ Fail(s)
    <3>1. TypedParts /\ IdsCounted
      BY <1>0, TypeParts DEF TypeInv
    <3>2. UNCHANGED <<pc, my>>
      BY <2>3, <3>1, SpeTypes
    <3>3. \A u \in Threads : LoopFits(u)'
      BY <1>0, <2>3, EventLoops
    <3> QED
      BY <1>0, <3>2, <3>3 DEF PostApart
  <2> QED
    BY <2>1, <2>2, <2>3 DEF Next
<1>3. LoopsFit'
    BY <1>2 DEF LoopsFit, LoopFits
<1> QED
    BY <1>1, <1>2, <1>3 DEF LoopInv

(* PostProcess gives up m_cs while the first socket connects, and the      *)
(* comparison of the id and the number of sockets that follows is enough   *)
(* to go on with valid iterators: sockets are only taken from a core pool  *)
(* that the loop has seen complete.                                        *)
THEOREM IteratorsStayValid ==
    ASSUME Serial, OneIdle, CalmStart
    PROVE  Spec => []IteratorsValid
<1>1. Init => LoopInv
  <2>1. Init => LoopsFit /\ PostApart
    BY DEF Init, LoopsFit, PostApart
  <2> QED
    BY <2>1, InitSockets DEF LoopInv
<1>2. LoopInv /\ [Next]_vars => LoopInv'
    BY NextLoops
<1>3. LoopInv => IteratorsValid
    BY DEF LoopInv, LoopsFit, IteratorsValid
<1> QED
    BY <1>1, <1>2, <1>3, PTL DEF Spec
=============================================================================
