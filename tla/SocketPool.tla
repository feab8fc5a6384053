----------------------------- MODULE SocketPool -----------------------------
(***************************************************************************)
(* Pools of client sockets (CSocketPool in include/aclientw.h).            *)
(*                                                                         *)
(* A pool object starts a pool of the client core, which creates the       *)
(* sockets on its own threads and reports them through the static          *)
(* callback SPE.  SPE only gets the id of the core pool: it finds the pool *)
(* object by m_nPoolId in m_vPool, the list of all pool objects of the     *)
(* same type, and m_nPoolId itself is set by SPE at speStarted, for the    *)
(* last pool object that has no id.  Application threads construct, start, *)
(* shut down and destroy pools, and lock sockets of them for their use.    *)
(*                                                                         *)
(* m_cs of a pool is held in one step, except by PostProcess, which keeps  *)
(* it between two sockets and gives it up while the first one connects:    *)
(* csPool is its holder.  Core pools and sockets are those of the closed   *)
(* client core: modelled from how the adapter uses them.                   *)
(***************************************************************************)
EXTENDS Integers, Sequences, SequencesExt, FiniteSets

CONSTANTS
    Pools, Threads, NoPool, NoThread,
    Size,      \* sockets of a pool
    MaxIds,    \* bound: core pools created in a behaviour
    MaxFails,  \* bound: connections that fail or are lost
    OneIdle,   \* usage: a pool is started while all others are running
    Serial,    \* usage: pools are started and shut down one at a time
    CalmStart  \* usage: a pool is not started again while another start of
               \* it has yet to connect its sockets

ASSUME ConstantsAssumption ==
    /\ NoThread \notin Threads /\ NoPool \notin Pools
    /\ Size \in Nat \ {0} /\ {MaxIds, MaxFails} \subseteq Nat
    /\ {OneIdle, Serial, CalmStart} \subseteq BOOLEAN

Id     == 1 .. MaxIds
Socket == [pool : Id, nr : 1 .. Size]
NoSocket == [pool |-> 0, nr |-> 0]

VARIABLES
    \* CSocketPool
    vPool,        \* m_vPool
    nPoolId,      \* m_nPoolId
    mapSocket,    \* the sockets in m_mapSocketHandler
    csPool,       \* the thread that holds m_cs between steps
    \* the application threads and their local variables
    pc, my,
    \* client core (external)
    ids, phase, state, lockedBy, fails,
    \* history
    owner,        \* the pool object that asked for a core pool
    badPointer    \* SPE has used a null pointer

poolVars   == <<vPool, nPoolId, mapSocket>>
threadVars == <<pc, my>>
coreVars   == <<ids, phase, state, lockedBy, fails>>
vars == <<poolVars, csPool, threadVars, coreVars, owner, badPointer>>

(* The pool object a thread works for, poolId, and the socket at hand;     *)
(* then the size, iterator and flag of PostProcess, and whether a shutdown *)
(* is that of a destructor.                                                *)
NoLocals == [pool |-> NoPool, id |-> 0, sock |-> NoSocket, size |-> 0,
             todo |-> {}, first |-> FALSE, dying |-> FALSE]

Init ==
    /\ vPool = <<>>
    /\ nPoolId = [p \in Pools |-> 0]
    /\ mapSocket = [p \in Pools |-> {}]
    /\ csPool = [p \in Pools |-> NoThread]
    /\ pc = [t \in Threads |-> "idle"]
    /\ my = [t \in Threads |-> NoLocals]
    /\ ids = 0
    /\ phase = [i \in Id |-> "none"]
    /\ state = [s \in Socket |-> "none"]
    /\ lockedBy = [s \in Socket |-> NoThread]
    /\ fails = 0
    /\ owner = [i \in Id |-> NoPool]
    /\ badPointer = FALSE
----------------------------------------------------------------------------
Free(p) == csPool[p] = NoThread

Goto(t, l) == pc' = [pc EXCEPT ![t] = l]

Return(t) ==
    /\ Goto(t, "idle")
    /\ my' = [my EXCEPT ![t] = NoLocals]

(* Seek: the pool objects with the given id; the first one is taken.       *)
Seek(i) ==
    {vPool[n] : n \in {m \in DOMAIN vPool :
        /\ nPoolId[vPool[m]] = i
        /\ \A l \in 1 .. m - 1 : nPoolId[vPool[l]] # i}}

(* A thread that constructs, starts, shuts down or destroys a pool; it may *)
(* connect sockets while others do.                                        *)
Managing == {t \in Threads : pc[t] \in {"create", "creating", "setid",
                                        "destroying", "resetting", "erasing"}}

MayManage(t) ==
    /\ pc[t] = "idle"
    /\ Serial => Managing = {}

(* The constructor puts the pool object into m_vPool.                      *)
Construct(t, p) ==
    /\ MayManage(t)
    /\ p \notin Range(vPool)
    /\ vPool' = Append(vPool, p)
    /\ UNCHANGED <<nPoolId, mapSocket, csPool, threadVars, coreVars, owner,
                   badPointer>>
----------------------------------------------------------------------------
(* Mutant: a pool is started again.                                        *)
IsStartedNever(p) == FALSE

(* StartSocketPool.  IsStarted asks the core for the threads of the pool.  *)
IsStarted(p) ==
    nPoolId[p] # 0 /\ phase[nPoolId[p]] \in {"starting", "creating", "running"}

StartSocketPool(t, p) ==
    /\ MayManage(t)
    /\ p \in Range(vPool) /\ Free(p)
    /\ OneIdle => \A q \in Range(vPool) \ {p} : nPoolId[q] # 0
    /\ CalmStart /\ ~IsStarted(p) =>
            \A u \in Threads : my[u].pool = p => pc[u] # "post"
    /\ my' = [my EXCEPT ![t].pool = p]
    /\ Goto(t, IF IsStarted(p) THEN "post" ELSE "create")
    /\ UNCHANGED <<poolVars, csPool, coreVars, owner, badPointer>>

CreateSocketPool(t) ==
    /\ pc[t] = "create" /\ ids < MaxIds
    /\ ids' = ids + 1
    /\ my' = [my EXCEPT ![t].id = ids']
    /\ phase' = [phase EXCEPT ![ids'] = "starting"]
    /\ owner' = [owner EXCEPT ![ids'] = my[t].pool]
    /\ Goto(t, "creating")
    /\ UNCHANGED <<poolVars, fails, csPool, state, lockedBy, badPointer>>

(* The core returns when the threads and sockets are there ...             *)
CreateReturns(t) ==
    /\ pc[t] = "creating"
    /\ phase[my[t].id] = "creating"
    /\ \A s \in Socket : s.pool = my[t].id => state[s] # "none"
    /\ phase' = [phase EXCEPT ![my[t].id] = "running"]
    /\ Goto(t, "setid")
    /\ UNCHANGED <<poolVars, fails, csPool, my, ids, state, lockedBy, owner,
                   badPointer>>

(* ... and the id is set, once more, under m_cs.                           *)
SetPoolId(t) ==
    /\ pc[t] = "setid" /\ Free(my[t].pool)
    /\ nPoolId' = [nPoolId EXCEPT ![my[t].pool] = my[t].id]
    /\ Goto(t, "post")
    /\ UNCHANGED <<vPool, mapSocket, csPool, my, coreVars, owner, badPointer>>
----------------------------------------------------------------------------
(* PostProcess connects the sockets of the pool, one after the other.      *)
Opened(s) == state[s] \in {"opening", "connected", "unswitched", "switched"}

PostProcess(t) ==
    LET p == my[t].pool IN
    /\ pc[t] = "post" /\ Free(p)
    /\ csPool' = [csPool EXCEPT ![p] = t]
    /\ my' = [my EXCEPT ![t] =
            [@ EXCEPT !.id = nPoolId[p], !.size = Cardinality(mapSocket[p]),
                      !.todo = mapSocket[p], !.first = TRUE]]
    /\ Goto(t, "looping")
    /\ UNCHANGED <<poolVars, coreVars, owner, badPointer>>

PostSkip(t) ==
    /\ pc[t] = "looping"
    /\ \E s \in my[t].todo :
        /\ Opened(s)
        /\ my' = [my EXCEPT ![t].todo = @ \ {s}, ![t].first = FALSE]
    /\ UNCHANGED <<poolVars, csPool, pc, coreVars, owner, badPointer>>

(* Connect of the core: a killed socket cannot be connected.               *)
Connect(s) ==
    state' = [state EXCEPT ![s] = IF @ = "made" THEN "opening" ELSE @]

(* Mutant: m_cs is held while the first socket connects.                   *)
PostFirstLocked(t) ==
    /\ pc[t] = "looping" /\ my[t].first
    /\ \E s \in my[t].todo :
        /\ ~Opened(s)
        /\ Connect(s)
        /\ my' = [my EXCEPT ![t].sock = s, ![t].todo = @ \ {s}]
    /\ Goto(t, "connecting")
    /\ UNCHANGED <<poolVars, fails, csPool, ids, phase, lockedBy, owner,
                   badPointer>>

(* The first socket is waited for, without m_cs: its events need m_cs.     *)
PostFirst(t) ==
    /\ pc[t] = "looping" /\ my[t].first
    /\ \E s \in my[t].todo :
        /\ ~Opened(s)
        /\ Connect(s)
        /\ my' = [my EXCEPT ![t].sock = s, ![t].todo = @ \ {s}]
    /\ csPool' = [csPool EXCEPT ![my[t].pool] = NoThread]
    /\ Goto(t, "connecting")
    /\ UNCHANGED <<poolVars, fails, ids, phase, lockedBy, owner, badPointer>>

(* The first connection is there, or not; the loop takes m_cs again.       *)
PostGoOn(t) ==
    /\ csPool' = [csPool EXCEPT ![my[t].pool] = t]
    /\ my' = [my EXCEPT ![t].sock = NoSocket,
                        ![t].first = state[my[t].sock] # "switched"]
    /\ Goto(t, "looping")

Waited(t) ==
    /\ pc[t] = "connecting" /\ Free(my[t].pool)
    /\ state[my[t].sock] \notin {"opening", "connected"}

(* Mutant: what others did to the pool meanwhile is not asked.             *)
PostRelockTrusting(t) ==
    /\ Waited(t)
    /\ PostGoOn(t)
    /\ UNCHANGED <<poolVars, coreVars, owner, badPointer>>

(* It only goes on if the pool is still the same one.                      *)
PostRelock(t) ==
    /\ Waited(t)
    /\ LET p == my[t].pool IN
        IF my[t].id # nPoolId[p] \/ my[t].size # Cardinality(mapSocket[p])
        THEN Return(t) /\ UNCHANGED csPool
        ELSE PostGoOn(t)
    /\ UNCHANGED <<poolVars, coreVars, owner, badPointer>>

(* The others are connected in the background.                             *)
PostNext(t) ==
    /\ pc[t] = "looping" /\ ~my[t].first
    /\ \E s \in my[t].todo :
        /\ ~Opened(s)
        /\ Connect(s)
        /\ my' = [my EXCEPT ![t].todo = @ \ {s}]
    /\ UNCHANGED <<poolVars, fails, csPool, pc, ids, phase, lockedBy, owner,
                   badPointer>>

PostEnd(t) ==
    /\ pc[t] = "looping" /\ my[t].todo = {}
    /\ csPool' = [csPool EXCEPT ![my[t].pool] = NoThread]
    /\ Return(t)
    /\ UNCHANGED <<poolVars, coreVars, owner, badPointer>>
----------------------------------------------------------------------------
(* ShutdownPool, also as the first part of the destructor.  m_nPoolId is   *)
(* read without m_cs; a core pool that is being created is waited for.     *)
ShutdownPool(t, p, destructor) ==
    /\ MayManage(t)
    /\ p \in Range(vPool)
    /\ destructor => \A u \in Threads : my[u].pool # p
    /\ my' = [my EXCEPT ![t].pool = p, ![t].id = nPoolId[p],
                        ![t].dying = destructor]
    /\ IF nPoolId[p] # 0 /\ phase[nPoolId[p]] \in {"running", "stopping"}
        THEN /\ phase' = [phase EXCEPT ![nPoolId[p]] = "stopping"]
             /\ Goto(t, "destroying")
        ELSE /\ ~IsStarted(p)
             /\ Goto(t, "resetting")
             /\ UNCHANGED phase
    /\ UNCHANGED <<poolVars, fails, csPool, ids, state, lockedBy, owner,
                   badPointer>>

DestroyReturns(t) ==
    /\ pc[t] = "destroying" /\ phase[my[t].id] = "gone"
    /\ Goto(t, "resetting")
    /\ UNCHANGED <<poolVars, csPool, my, coreVars, owner, badPointer>>

ShutdownReset(t) ==
    /\ pc[t] = "resetting" /\ Free(my[t].pool)
    /\ nPoolId' = [nPoolId EXCEPT ![my[t].pool] = 0]
    /\ IF my[t].dying THEN Goto(t, "erasing") /\ UNCHANGED my ELSE Return(t)
    /\ UNCHANGED <<vPool, mapSocket, csPool, coreVars, owner, badPointer>>

(* The end of the destructor.                                              *)
Erase(t) ==
    /\ pc[t] = "erasing"
    /\ \E n \in DOMAIN vPool :
        /\ vPool[n] = my[t].pool
        /\ vPool' = RemoveAt(vPool, n)
    /\ Return(t)
    /\ UNCHANGED <<nPoolId, mapSocket, csPool, coreVars, owner, badPointer>>
----------------------------------------------------------------------------
(* Lock: the id is read, the core locks a socket and the handler of the    *)
(* socket is looked up.                                                    *)
Lock(t, p) ==
    /\ pc[t] = "idle"
    /\ p \in Range(vPool) /\ Free(p)
    /\ my' = [my EXCEPT ![t].pool = p, ![t].id = nPoolId[p]]
    /\ Goto(t, "locking")
    /\ UNCHANGED <<poolVars, csPool, coreVars, owner, badPointer>>

LockASocket(t) ==
    /\ pc[t] = "locking"
    /\ my[t].id # 0 /\ phase[my[t].id] = "running"
    /\ \E s \in Socket :
        /\ s.pool = my[t].id /\ state[s] = "switched" /\ lockedBy[s] = NoThread
        /\ lockedBy' = [lockedBy EXCEPT ![s] = t]
        /\ my' = [my EXCEPT ![t].sock = s]
    /\ Goto(t, "mapping")
    /\ UNCHANGED <<poolVars, fails, csPool, ids, phase, state, owner,
                   badPointer>>

LockTimesOut(t) ==
    /\ pc[t] = "locking"
    /\ Return(t)
    /\ UNCHANGED <<poolVars, csPool, coreVars, owner, badPointer>>

(* Without a handler Lock returns a null pointer.                          *)
MapToHandler(t) ==
    /\ pc[t] = "mapping" /\ Free(my[t].pool)
    /\ IF my[t].sock \in mapSocket[my[t].pool]
        THEN Goto(t, "using") /\ UNCHANGED my
        ELSE Return(t)
    /\ UNCHANGED <<poolVars, csPool, coreVars, owner, badPointer>>

(* Mutant: the socket is not given back.                                   *)
UnlockNever(t) ==
    /\ pc[t] = "using" /\ Free(my[t].pool)
    /\ Return(t)
    /\ UNCHANGED <<poolVars, csPool, coreVars, owner, badPointer>>

(* The core only knows the socket in a pool with the present id.           *)
Unlock(t) ==
    /\ pc[t] = "using" /\ Free(my[t].pool)
    /\ lockedBy' = [s \in Socket |->
            IF s = my[t].sock /\ lockedBy[s] = t /\ s.pool = nPoolId[my[t].pool]
            THEN NoThread ELSE lockedBy[s]]
    /\ Return(t)
    /\ UNCHANGED <<poolVars, fails, csPool, ids, phase, state, owner,
                   badPointer>>
----------------------------------------------------------------------------
(* SPE, on the threads of core pool i.                                     *)

LastIdle ==
    {vPool[n] : n \in {m \in DOMAIN vPool :
        /\ nPoolId[vPool[m]] = 0
        /\ \A l \in m + 1 .. Len(vPool) : nPoolId[vPool[l]] # 0}}

(* Mutant: whether the pool object has an id is not asked.                 *)
SpeStartedFirst(i) ==
    /\ phase[i] = "starting"
    /\ nPoolId' = [nPoolId EXCEPT ![Head(vPool)] = i]
    /\ phase' = [phase EXCEPT ![i] = "creating"]
    /\ UNCHANGED <<vPool, fails, mapSocket, csPool, threadVars, ids, state,
                   lockedBy, owner, badPointer>>

(* speStarted: the last pool object without an id gets the id, under       *)
(* g_csSpPool; there is no other way to know which one asked for it.       *)
SpeStarted(i) ==
    /\ phase[i] = "starting"
    /\ nPoolId' = [p \in Pools |-> IF p \in LastIdle THEN i ELSE nPoolId[p]]
    /\ badPointer' = (badPointer \/ LastIdle = {})
    /\ phase' = [phase EXCEPT ![i] = "creating"]
    /\ UNCHANGED <<vPool, fails, mapSocket, csPool, threadVars, ids, state,
                   lockedBy, owner>>

(* Mutant: the socket is put into the first pool object.                   *)
SpeUSocketCreatedFirst(s) ==
    /\ phase[s.pool] = "creating" /\ state[s] = "none"
    /\ \A sp \in Seek(s.pool) : Free(sp)
    /\ mapSocket' = [p \in Pools |->
            mapSocket[p] \union (IF p = Head(vPool) THEN {s} ELSE {})]
    /\ state' = [state EXCEPT ![s] = "made"]
    /\ UNCHANGED <<vPool, fails, nPoolId, csPool, threadVars, ids, phase,
                   lockedBy, owner, badPointer>>

(* speUSocketCreated.                                                      *)
SpeUSocketCreated(s) ==
    /\ phase[s.pool] = "creating" /\ state[s] = "none"
    /\ \A sp \in Seek(s.pool) : Free(sp)
    /\ mapSocket' = [p \in Pools |->
            mapSocket[p] \union (IF p \in Seek(s.pool) THEN {s} ELSE {})]
    /\ state' = [state EXCEPT ![s] = "made"]
    /\ UNCHANGED <<vPool, fails, nPoolId, csPool, threadVars, ids, phase,
                   lockedBy, owner, badPointer>>

(* speConnected: the new connection is switched to the pool's service, if  *)
(* the pool object is found; the socket must then be one of its own.       *)
SpeConnected(s) ==
    /\ state[s] = "connected"
    /\ \A sp \in Seek(s.pool) : Free(sp)
    /\ badPointer' = (badPointer \/ \E sp \in Seek(s.pool) : s \notin mapSocket[sp])
    /\ state' = [state EXCEPT ![s] =
            IF Seek(s.pool) = {} THEN "unswitched" ELSE "switched"]
    /\ UNCHANGED <<poolVars, fails, csPool, threadVars, ids, phase, lockedBy,
                   owner>>

(* speUSocketKilled and speShutdown, from inside DestroySocketPool.        *)
SpeUSocketKilled(s) ==
    /\ phase[s.pool] = "stopping" /\ state[s] # "killed"
    /\ \A sp \in Seek(s.pool) : Free(sp)
    /\ mapSocket' = [p \in Pools |->
            mapSocket[p] \ (IF p \in Seek(s.pool) THEN {s} ELSE {})]
    /\ state' = [state EXCEPT ![s] = "killed"]
    /\ lockedBy' = [lockedBy EXCEPT ![s] = NoThread]
    /\ UNCHANGED <<vPool, fails, nPoolId, csPool, threadVars, ids, phase,
                   owner, badPointer>>

SpeShutdown(i) ==
    /\ phase[i] = "stopping"
    /\ \A s \in Socket : s.pool = i => state[s] = "killed"
    /\ \A sp \in Seek(i) : Free(sp)
    /\ mapSocket' = [p \in Pools |-> IF p \in Seek(i) THEN {} ELSE mapSocket[p]]
    /\ nPoolId' = [p \in Pools |-> IF p \in Seek(i) THEN 0 ELSE nPoolId[p]]
    /\ phase' = [phase EXCEPT ![i] = "gone"]
    /\ UNCHANGED <<vPool, fails, csPool, threadVars, ids, state, lockedBy,
                   owner, badPointer>>

(* A connection is built, or not, and may be lost again.                   *)
Establish(s) ==
    /\ phase[s.pool] = "running" /\ state[s] = "opening"
    /\ state' = [state EXCEPT ![s] = "connected"]
    /\ UNCHANGED <<poolVars, csPool, threadVars, ids, phase, lockedBy, fails,
                   owner, badPointer>>

Fail(s) ==
    /\ phase[s.pool] = "running" /\ fails < MaxFails
    /\ state[s] \in {"opening", "switched", "unswitched"}
    /\ state' = [state EXCEPT ![s] = "made"]
    /\ fails' = fails + 1
    /\ UNCHANGED <<poolVars, csPool, threadVars, ids, phase, lockedBy, owner,
                   badPointer>>
----------------------------------------------------------------------------
Begin(t) ==
    \E p \in Pools :
        \/ Construct(t, p) \/ StartSocketPool(t, p)
        \/ \E destructor \in BOOLEAN : ShutdownPool(t, p, destructor)
        \/ Lock(t, p)

GoOn(t) ==
    \/ CreateSocketPool(t) \/ CreateReturns(t) \/ SetPoolId(t)
    \/ PostProcess(t) \/ PostSkip(t) \/ PostFirst(t) \/ PostRelock(t)
    \/ PostNext(t) \/ PostEnd(t)
    \/ DestroyReturns(t) \/ ShutdownReset(t) \/ Erase(t)
    \/ LockASocket(t) \/ LockTimesOut(t) \/ MapToHandler(t)

SpePool(i) == SpeStarted(i) \/ SpeShutdown(i)

SpeSocket(s) ==
    SpeUSocketCreated(s) \/ SpeUSocketKilled(s) \/ SpeConnected(s) \/ Establish(s)

Next ==
    \/ \E t \in Threads : Begin(t) \/ GoOn(t) \/ Unlock(t)
    \/ \E i \in Id : SpePool(i)
    \/ \E s \in Socket : SpeSocket(s) \/ Fail(s)

Spec == Init /\ [][Next]_vars

(* Threads and core go on, and who waits for m_cs gets it at last; nobody  *)
(* has to give a socket back.                                              *)
FairSpec ==
    /\ Spec
    /\ \A t \in Threads : SF_vars(GoOn(t))
    /\ \A i \in Id : SF_vars(SpePool(i))
    /\ \A s \in Socket : SF_vars(SpeSocket(s))
----------------------------------------------------------------------------
(* The state of the pools has its types.                                   *)
TypeOK ==
    /\ vPool \in Seq(Pools) /\ IsInjective(vPool)
    /\ nPoolId \in [Pools -> 0 .. ids]
    /\ mapSocket \in [Pools -> SUBSET Socket]
    /\ csPool \in [Pools -> Threads \union {NoThread}]
    /\ pc \in [Threads -> {"idle", "create", "creating", "setid", "post",
                           "looping", "connecting", "destroying", "resetting",
                           "erasing", "locking", "mapping", "using"}]
    /\ my \in [Threads -> [pool : Pools \union {NoPool}, id : 0 .. ids,
                          sock : Socket \union {NoSocket}, size : Nat,
                          todo : SUBSET Socket, first : BOOLEAN,
                          dying : BOOLEAN]]
    /\ ids \in 0 .. MaxIds
    /\ phase \in [Id -> {"none", "starting", "creating", "running", "stopping",
                         "gone"}]
    /\ state \in [Socket -> {"none", "made", "opening", "connected",
                             "unswitched", "switched", "killed"}]
    /\ lockedBy \in [Socket -> Threads \union {NoThread}]
    /\ fails \in 0 .. MaxFails
    /\ owner \in [Id -> Pools \union {NoPool}] /\ badPointer \in BOOLEAN

(* The sockets of a running core pool are in the map of the pool object    *)
(* that asked for it, and in no other; all of them are.                    *)
SocketsInOwnPool ==
    /\ \A p \in Pools : \A s \in mapSocket[p] : owner[s.pool] = p
    /\ \A s \in Socket : phase[s.pool] = "running" => s \in mapSocket[owner[s.pool]]

(* A core pool that runs can be reached, and shut down, by the pool object *)
(* that asked for it.                                                      *)
PoolReachesCore ==
    \A i \in Id : phase[i] = "running" =>
        nPoolId[owner[i]] = i /\ owner[i] \in Range(vPool)

(* SPE never works with a null pointer: speStarted finds a pool object,    *)
(* and speConnected finds the socket in the map.                           *)
NoBadPointer == ~badPointer

(* PostProcess gives up m_cs in the middle of its loop over the map and    *)
(* only goes on with iterators that are still valid.                       *)
IteratorsValid ==
    \A t \in Threads : pc[t] = "looping" => my[t].todo \subseteq mapSocket[my[t].pool]

(* A locked socket is in the hands of a thread that will unlock it: Lock   *)
(* never returns null for a socket that it has locked.                     *)
LockedInHands ==
    \A s \in Socket : lockedBy[s] # NoThread =>
        pc[lockedBy[s]] \in {"mapping", "using"} /\ my[lockedBy[s]].sock = s

(* StartSocketPool, ShutdownPool and Lock return: the thread that waits    *)
(* for the first connection does not keep its events out.                  *)
CallsReturn ==
    \A t \in Threads :
        pc[t] \notin {"idle", "using", "create"} ~> pc[t] \in {"idle", "using"}
=============================================================================
