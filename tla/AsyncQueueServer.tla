-------------------------- MODULE AsyncQueueServer --------------------------
(***************************************************************************)
(* The persistent message queue service of a SocketPro server              *)
(* (include/queue/server_impl/asyncqueueimpl.{h,cpp}).                     *)
(*                                                                         *)
(* Every client has its own CAsyncQueueImpl; the requests of one client    *)
(* are processed one after the other, those of different clients run at    *)
(* the same time on main and worker threads.  They share m_mapKeyQueue,    *)
(* from keys to CMyQueue objects, under the spin lock m_cs; each CMyQueue  *)
(* wraps a handle of the server core, which has one open queue for a key,  *)
(* and has a critical section of its own.  The map, transactions and       *)
(* running requests hold a CMyQueue by std::shared_ptr, and Close relies   *)
(* on use_count to find out whether anyone else works with the queue.      *)
(*                                                                         *)
(* The queue files, their jobs and the delivery to consumers belong to the *)
(* closed core: modelled from how CMyQueue uses them.                      *)
(***************************************************************************)
EXTENDS Integers, Sequences, SequencesExt, FiniteSets

CONSTANTS
    Clients, Keys, NoClient,
    MaxMsgs,     \* bound: messages enqueued in a behaviour
    MaxObjs,     \* bound: CMyQueue objects and opened handles
    MaxJoins,    \* bound: how often a client switches to the service
    SoloCreate,  \* timing: a key is opened by one client at a time
    OneKeyTrans, \* usage: a transaction only has messages for its key
    DiskFails    \* the core may fail to write the messages of a job

ASSUME ConstantsAssumption ==
    /\ NoClient \notin Clients
    /\ IsFiniteSet(Clients) /\ IsFiniteSet(Keys)
    /\ {MaxMsgs, MaxObjs, MaxJoins} \subseteq Nat
    /\ {SoloCreate, OneKeyTrans, DiskFails} \subseteq BOOLEAN

Msg == 1 .. MaxMsgs
Obj == 1 .. MaxObjs

VARIABLES
    \* CAsyncQueueImpl, static members
    clients,      \* the clients of the service; m_clients is their number
    mapKeyQueue,  \* m_mapKeyQueue: the object of a key, or 0
    \* CAsyncQueueImpl, one per client
    qTrans,       \* m_qTrans: the object of the open transaction, or 0
    batch,        \* m_bufferBatch: the messages of the transaction
    pc, req, p,   \* the request under way and its local pointer p
    \* CMyQueue
    objs,         \* the objects that were made: key and core handle
    lockedBy,     \* the holder of an object's m_cs
    \* server core (external)
    handle,       \* the handle under which a key is open, or 0
    handles,      \* handles given out so far
    job,          \* the open job of a key
    file,         \* the committed messages of a key
    deq,          \* messages on their way to a consumer
    \* history
    msgs, joins, keyOf, acked, delivered, deleted

staticVars == <<clients, mapKeyQueue>>
clientVars == <<qTrans, batch, pc, req, p>>
objVars    == <<objs, lockedBy>>
coreVars   == <<handle, handles, job, file, deq>>
history    == <<msgs, joins, keyOf, acked, delivered, deleted>>
vars == <<staticVars, clientVars, objVars, coreVars, history>>

NoJob == [on |-> FALSE, msgs |-> <<>>]
NoReq == [op |-> "none", msgs |-> <<>>]
Requests == [op : {"enqueue", "dequeue", "close"}, key : Keys, msgs : Seq(Msg)]

Init ==
    /\ clients = {} /\ mapKeyQueue = [k \in Keys |-> 0]
    /\ qTrans = [c \in Clients |-> 0]
    /\ batch = [c \in Clients |-> <<>>]
    /\ pc = [c \in Clients |-> "idle"]
    /\ req = [c \in Clients |-> NoReq]
    /\ p = [c \in Clients |-> 0]
    /\ objs = <<>> /\ lockedBy = [o \in Obj |-> NoClient]
    /\ handle = [k \in Keys |-> 0] /\ handles = 0
    /\ job = [k \in Keys |-> NoJob]
    /\ file = [k \in Keys |-> <<>>]
    /\ deq = [c \in Clients |-> {}]
    /\ msgs = 0 /\ joins = 0
    /\ keyOf \in [Msg -> Keys]
    /\ acked = {} /\ delivered = {} /\ deleted = {}
----------------------------------------------------------------------------
(* std::shared_ptr::use_count.                                             *)
UseCount(o) ==
    Cardinality({k \in Keys : mapKeyQueue[k] = o})
        + Cardinality({c \in Clients : qTrans[c] = o})
        + Cardinality({c \in Clients : p[c] = o})

IsOpen(o) == handle[objs[o].key] = objs[o].handle

(* CServerQueue::Enqueue and BatchEnqueue: an open job of the queue takes  *)
(* the messages, else they are committed at once.                          *)
CoreEnqueue(k, ms) ==
    IF job[k].on
    THEN job' = [job EXCEPT ![k].msgs = @ \o ms] /\ UNCHANGED file
    ELSE file' = [file EXCEPT ![k] = @ \o ms] /\ UNCHANGED job

(* The constructor of CMyQueue opens the queue file, or finds it open.     *)
Construct(k, o) ==
    LET h == IF handle[k] # 0 THEN handle[k] ELSE handles + 1 IN
    /\ o = Len(objs) + 1 /\ o <= MaxObjs /\ h <= MaxObjs
    /\ objs' = Append(objs, [key |-> k, handle |-> h])
    /\ handle' = [handle EXCEPT ![k] = h]
    /\ handles' = IF handle[k] # 0 THEN handles ELSE handles + 1

(* A transaction that ends, whichever way, gives back its buffer.          *)
DropTrans(c) ==
    /\ qTrans' = [qTrans EXCEPT ![c] = 0]
    /\ batch' = [batch EXCEPT ![c] = <<>>]

Opening(k) == {c \in Clients : pc[c] \in {"missing", "created"} /\ req[c].key = k}

(* A client's next request for key k.                                      *)
Arrives(c, k) ==
    /\ c \in clients /\ pc[c] = "idle"
    /\ SoloCreate => Opening(k) = {}
----------------------------------------------------------------------------
(* Clients come and go.                                                    *)
OnSwitchFrom(c) ==
    /\ c \notin clients /\ joins < MaxJoins
    /\ clients' = clients \union {c}
    /\ joins' = joins + 1
    /\ UNCHANGED <<mapKeyQueue, clientVars, objVars, coreVars, msgs, keyOf,
                   acked, delivered, deleted>>

(* The core gives back what the client has dequeued and not confirmed.     *)
OnReleaseSource(c) ==
    /\ c \in clients /\ pc[c] = "idle"
    /\ DropTrans(c)
    /\ clients' = clients \ {c}
    /\ mapKeyQueue' = IF clients' = {} THEN [k \in Keys |-> 0] ELSE mapKeyQueue
    /\ deq' = [deq EXCEPT ![c] = {}]
    /\ UNCHANGED <<pc, req, p, objVars, handle, handles, job, file, history>>

(* idCancel.                                                               *)
OnBaseRequestArrive(c) ==
    /\ c \in clients /\ pc[c] = "idle" /\ qTrans[c] # 0
    /\ DropTrans(c)
    /\ UNCHANGED <<staticVars, pc, req, p, objVars, coreVars, history>>
----------------------------------------------------------------------------
(* Enqueue, EnqueueBatch and Dequeue find the object of their key ...      *)
Find(c, o) ==
    /\ p' = [p EXCEPT ![c] = o]
    /\ pc' = [pc EXCEPT ![c] = IF o # 0 THEN "ready" ELSE "missing"]

(* An enqueuing client has a transaction's queue at hand, whatever the key *)
(* of its message is.                                                      *)
EnqueueFind(c, k, n) ==
    /\ Arrives(c, k)
    /\ msgs + n <= MaxMsgs /\ \A i \in 1 .. n : keyOf[msgs + i] = k
    /\ OneKeyTrans /\ qTrans[c] # 0 => objs[qTrans[c]].key = k
    /\ msgs' = msgs + n
    /\ req' = [req EXCEPT ![c] = [op |-> "enqueue", key |-> k,
                                  msgs |-> [i \in 1 .. n |-> msgs + i]]]
    /\ Find(c, IF qTrans[c] # 0 THEN qTrans[c] ELSE mapKeyQueue[k])
    /\ UNCHANGED <<staticVars, qTrans, batch, objVars, coreVars, joins, keyOf,
                   acked, delivered, deleted>>

DequeueFind(c, k) ==
    /\ Arrives(c, k)
    /\ req' = [req EXCEPT ![c] = [op |-> "dequeue", key |-> k, msgs |-> <<>>]]
    /\ Find(c, mapKeyQueue[k])
    /\ UNCHANGED <<staticVars, qTrans, batch, objVars, coreVars, history>>

(* ... or make one, outside m_cs; a file that cannot be opened ends the    *)
(* request ...                                                             *)
Make(c) ==
    /\ pc[c] = "missing"
    /\ \E o \in Obj : Construct(req[c].key, o) /\ p' = [p EXCEPT ![c] = o]
    /\ pc' = [pc EXCEPT ![c] = "created"]
    /\ UNCHANGED <<staticVars, qTrans, batch, req, lockedBy, job, file, deq,
                   history>>

Return(c) ==
    /\ pc' = [pc EXCEPT ![c] = "idle"]
    /\ req' = [req EXCEPT ![c] = NoReq]
    /\ p' = [p EXCEPT ![c] = 0]

MakeFails(c) ==
    /\ pc[c] = "missing"
    /\ Return(c)
    /\ UNCHANGED <<staticVars, qTrans, batch, objVars, coreVars, history>>

(* ... and register it under m_cs.                                         *)
Register(c) ==
    /\ pc[c] = "created"
    /\ mapKeyQueue' = [mapKeyQueue EXCEPT ![req[c].key] = p[c]]
    /\ pc' = [pc EXCEPT ![c] = "ready"]
    /\ UNCHANGED <<clients, qTrans, batch, req, p, objVars, coreVars, history>>

(* In a transaction the messages are buffered; else CMyQueue::Enqueue      *)
(* gives them to the core under the object's m_cs.                         *)
Enqueue(c) ==
    /\ pc[c] = "ready" /\ req[c].op = "enqueue"
    /\ IF qTrans[c] # 0
        THEN /\ batch' = [batch EXCEPT ![c] = @ \o req[c].msgs]
             /\ UNCHANGED <<job, file, acked>>
        ELSE /\ lockedBy[p[c]] = NoClient
             /\ UNCHANGED batch
             /\ IF IsOpen(p[c])
                THEN /\ CoreEnqueue(objs[p[c]].key, req[c].msgs)
                     /\ acked' = acked \union Range(req[c].msgs)
                ELSE UNCHANGED <<job, file, acked>>
    /\ Return(c)
    /\ UNCHANGED <<staticVars, qTrans, objVars, handle, handles, deq, msgs,
                   joins, keyOf, delivered, deleted>>

(* The core starts to send the oldest message that nobody has to the       *)
(* consumer.                                                               *)
Taken == UNION {deq[c] : c \in Clients}

Dequeue(c) ==
    /\ pc[c] = "ready" /\ req[c].op = "dequeue"
    /\ LET q    == file[objs[p[c]].key]
           left == {i \in 1 .. Len(q) : q[i] \notin Taken}
       IN  IF IsOpen(p[c]) /\ left # {}
           THEN \E i \in left :
                    /\ \A j \in left : i <= j
                    /\ deq' = [deq EXCEPT ![c] = @ \union {q[i]}]
           ELSE UNCHANGED deq
    /\ pc' = [pc EXCEPT ![c] = "counting"]
    /\ UNCHANGED <<staticVars, qTrans, batch, req, p, objVars, handle, handles,
                   job, file, history>>

(* What is left in the queue is counted under the object's m_cs.           *)
DequeueCount(c) ==
    /\ pc[c] = "counting" /\ lockedBy[p[c]] = NoClient
    /\ Return(c)
    /\ UNCHANGED <<staticVars, qTrans, batch, objVars, coreVars, history>>

(* The consumer has processed a message.                                   *)
Confirm(c) ==
    /\ \E m \in deq[c] :
        /\ deq' = [deq EXCEPT ![c] = @ \ {m}]
        /\ \E k \in Keys : \E i \in 1 .. Len(file[k]) :
            /\ file[k][i] = m
            /\ file' = [file EXCEPT ![k] = RemoveAt(@, i)]
        /\ delivered' = delivered \union {m}
    /\ UNCHANGED <<staticVars, clientVars, objVars, handle, handles, job, msgs,
                   joins, keyOf, acked, deleted>>
----------------------------------------------------------------------------
(* Transactions.  StartTrans finds or makes the object under m_cs.         *)
StartTrans(c, k) ==
    /\ Arrives(c, k) /\ qTrans[c] = 0
    /\ \E o \in Obj :
        /\ \/ mapKeyQueue[k] = o /\ UNCHANGED <<mapKeyQueue, objs, handle, handles>>
           \/ /\ mapKeyQueue[k] = 0
              /\ Construct(k, o)
              /\ mapKeyQueue' = [mapKeyQueue EXCEPT ![k] = o]
        /\ qTrans' = [qTrans EXCEPT ![c] = o]
    /\ UNCHANGED <<clients, batch, pc, req, p, lockedBy, job, file, deq, history>>

InTrans(c) == c \in clients /\ pc[c] = "idle" /\ qTrans[c] # 0

(* EndTrans: a rollback, or a commit of nothing.                           *)
EndTransDrop(c) ==
    /\ InTrans(c)
    /\ DropTrans(c)
    /\ UNCHANGED <<staticVars, pc, req, p, objVars, coreVars, history>>

(* A commit of one message is a plain enqueue that does not lock m_cs.     *)
EndTransOne(c) ==
    /\ InTrans(c) /\ Len(batch[c]) = 1
    /\ IF IsOpen(qTrans[c])
        THEN /\ CoreEnqueue(objs[qTrans[c]].key, batch[c])
             /\ acked' = acked \union Range(batch[c])
        ELSE UNCHANGED <<job, file, acked>>
    /\ DropTrans(c)
    /\ UNCHANGED <<staticVars, pc, req, p, objVars, handle, handles, deq, msgs,
                   joins, keyOf, delivered, deleted>>

(* A commit of more messages is a job of the core, under m_cs: StartJob,   *)
(* BatchEnqueue, and EndJob, or AbortJob when the messages cannot be       *)
(* written.                                                                *)
EndTransJob(c) ==
    /\ InTrans(c) /\ Len(batch[c]) > 1
    /\ lockedBy[qTrans[c]] = NoClient
    /\ LET k == objs[qTrans[c]].key IN
        IF IsOpen(qTrans[c]) /\ ~job[k].on
        THEN /\ job' = [job EXCEPT ![k].on = TRUE]
             /\ lockedBy' = [lockedBy EXCEPT ![qTrans[c]] = c]
             /\ pc' = [pc EXCEPT ![c] = "job"]
             /\ UNCHANGED <<qTrans, batch>>
        ELSE DropTrans(c) /\ UNCHANGED <<job, lockedBy, pc>>
    /\ UNCHANGED <<staticVars, req, p, objs, handle, handles, file, deq, history>>

JobFill(c) ==
    /\ pc[c] = "job"
    /\ job' = [job EXCEPT ![objs[qTrans[c]].key].msgs = @ \o batch[c]]
    /\ pc' = [pc EXCEPT ![c] = "filled"]
    /\ UNCHANGED <<staticVars, qTrans, batch, req, p, objVars, handle, handles,
                   file, deq, history>>

(* The core fails after some of the messages.                              *)
JobFillPart(c) ==
    /\ pc[c] = "job" /\ DiskFails
    /\ \E n \in 0 .. Len(batch[c]) - 1 :
        job' = [job EXCEPT ![objs[qTrans[c]].key].msgs = @ \o SubSeq(batch[c], 1, n)]
    /\ pc' = [pc EXCEPT ![c] = "failed"]
    /\ UNCHANGED <<staticVars, qTrans, batch, req, p, objVars, handle, handles,
                   file, deq, history>>

Unlock(c) ==
    /\ lockedBy' = [lockedBy EXCEPT ![qTrans[c]] = NoClient]
    /\ pc' = [pc EXCEPT ![c] = "idle"]
    /\ DropTrans(c)

(* Mutant: m_cs stays locked after a job that was aborted.                 *)
JobAbortLocked(c) ==
    /\ pc[c] = "failed"
    /\ job' = [job EXCEPT ![objs[qTrans[c]].key] = NoJob]
    /\ pc' = [pc EXCEPT ![c] = "idle"]
    /\ DropTrans(c)
    /\ UNCHANGED <<staticVars, req, p, objVars, handle, handles, file, deq,
                   history>>

(* Mutant: the job is ended although its messages could not be written.    *)
JobAbortEnds(c) ==
    /\ pc[c] = "failed"
    /\ LET k == objs[qTrans[c]].key IN
        /\ file' = [file EXCEPT ![k] = @ \o job[k].msgs]
        /\ job' = [job EXCEPT ![k] = NoJob]
    /\ Unlock(c)
    /\ UNCHANGED <<staticVars, req, p, objs, handle, handles, deq, history>>

JobAbort(c) ==
    /\ pc[c] = "failed"
    /\ job' = [job EXCEPT ![objs[qTrans[c]].key] = NoJob]
    /\ Unlock(c)
    /\ UNCHANGED <<staticVars, req, p, objs, handle, handles, file, deq, history>>

(* EndJob fails: the core gives the job up, the client is told.            *)
JobEndFails(c) ==
    /\ pc[c] = "filled" /\ DiskFails
    /\ job' = [job EXCEPT ![objs[qTrans[c]].key] = NoJob]
    /\ Unlock(c)
    /\ UNCHANGED <<staticVars, req, p, objs, handle, handles, file, deq, history>>

(* Mutant: a commit that does not end the job is reported as done.         *)
JobEndSkipped(c) ==
    /\ pc[c] = "filled"
    /\ job' = [job EXCEPT ![objs[qTrans[c]].key] = NoJob]
    /\ acked' = acked \union Range(batch[c])
    /\ Unlock(c)
    /\ UNCHANGED <<staticVars, req, p, objs, handle, handles, file, deq, msgs,
                   joins, keyOf, delivered, deleted>>

JobEnd(c) ==
    /\ pc[c] = "filled"
    /\ LET k == objs[qTrans[c]].key IN
        /\ file' = [file EXCEPT ![k] = @ \o job[k].msgs]
        /\ job' = [job EXCEPT ![k] = NoJob]
    /\ acked' = acked \union Range(batch[c])
    /\ Unlock(c)
    /\ UNCHANGED <<staticVars, req, p, objs, handle, handles, deq, msgs, joins,
                   keyOf, delivered, deleted>>
----------------------------------------------------------------------------
Dequeuing(k) == Range(file[k]) \cap Taken # {}

(* Mutant: who else works with the queue is not asked.                     *)
MayStopAnyway(k) == IsOpen(mapKeyQueue[k]) /\ ~Dequeuing(k)

(* Mutant: messages on their way to a consumer do not matter.              *)
MayStopDequeuing(k) == UseCount(mapKeyQueue[k]) = 1 /\ IsOpen(mapKeyQueue[k])

(* Close stops a queue that only the map refers to and that is not being   *)
(* dequeued; the core cannot stop it twice.                                *)
MayStop(k) ==
    /\ UseCount(mapKeyQueue[k]) = 1
    /\ ~Dequeuing(k)
    /\ IsOpen(mapKeyQueue[k])

(* The transaction of the client itself is dropped first.                  *)
CloseDrop(c, k) ==
    /\ Arrives(c, k)
    /\ DropTrans(c)
    /\ req' = [req EXCEPT ![c] = [op |-> "close", key |-> k, msgs |-> <<>>]]
    /\ pc' = [pc EXCEPT ![c] = "closing"]
    /\ UNCHANGED <<staticVars, p, objVars, coreVars, history>>

(* Under m_cs; permanent deletes the file.                                 *)
Close(c, permanent) ==
    /\ pc[c] = "closing"
    /\ LET k == req[c].key IN
        IF mapKeyQueue[k] # 0 /\ MayStop(k)
        THEN /\ handle' = [handle EXCEPT ![k] = 0]
             /\ mapKeyQueue' = [mapKeyQueue EXCEPT ![k] = 0]
             /\ job' = [job EXCEPT ![k] = NoJob]
             /\ file' = IF permanent THEN [file EXCEPT ![k] = <<>>] ELSE file
             /\ deleted' = IF permanent THEN deleted \union Range(file[k])
                                        ELSE deleted
        ELSE UNCHANGED <<handle, mapKeyQueue, job, file, deleted>>
    /\ Return(c)
    /\ UNCHANGED <<clients, qTrans, batch, objVars, handles, deq, msgs, joins,
                   keyOf, acked, delivered>>
----------------------------------------------------------------------------
Request(c) ==
    \/ \E k \in Keys :
        \/ \E n \in 1 .. 2 : EnqueueFind(c, k, n)
        \/ DequeueFind(c, k)
        \/ StartTrans(c, k)
        \/ CloseDrop(c, k)
    \/ EndTransDrop(c) \/ EndTransOne(c) \/ EndTransJob(c)
    \/ OnBaseRequestArrive(c)

GoOn(c) ==
    \/ Make(c) \/ MakeFails(c) \/ Register(c)
    \/ Enqueue(c) \/ Dequeue(c) \/ DequeueCount(c)
    \/ JobFill(c) \/ JobFillPart(c) \/ JobAbort(c) \/ JobEnd(c) \/ JobEndFails(c)
    \/ \E permanent \in BOOLEAN : Close(c, permanent)

Next ==
    \E c \in Clients :
        Request(c) \/ GoOn(c) \/ Confirm(c) \/ OnSwitchFrom(c) \/ OnReleaseSource(c)

Spec == Init /\ [][Next]_vars

(* A request that a thread has begun goes on.                              *)
FairSpec == Spec /\ \A c \in Clients : WF_vars(GoOn(c))
----------------------------------------------------------------------------
(* The state of the queue service has its types.                           *)
TypeOK ==
    /\ clients \subseteq Clients
    /\ mapKeyQueue \in [Keys -> 0 .. Len(objs)]
    /\ qTrans \in [Clients -> 0 .. Len(objs)] /\ p \in [Clients -> 0 .. Len(objs)]
    /\ batch \in [Clients -> Seq(Msg)]
    /\ pc \in [Clients -> {"idle", "missing", "created", "ready", "counting",
                           "job", "filled", "failed", "closing"}]
    /\ req \in [Clients -> Requests \union {NoReq}]
    /\ \A c \in Clients :
        /\ pc[c] \in {"missing", "created", "ready", "counting", "closing"}
                => req[c] \in Requests
        /\ pc[c] \in {"created", "ready", "counting"} => p[c] # 0
        /\ pc[c] \in {"job", "filled", "failed"} => qTrans[c] # 0
    /\ objs \in Seq([key : Keys, handle : Obj]) /\ Len(objs) <= MaxObjs
    /\ lockedBy \in [Obj -> Clients \union {NoClient}]
    /\ handle \in [Keys -> 0 .. handles] /\ handles \in 0 .. MaxObjs
    /\ job \in [Keys -> [on : BOOLEAN, msgs : Seq(Msg)]]
    /\ file \in [Keys -> Seq(Msg)]
    /\ deq \in [Clients -> SUBSET Msg]
    /\ msgs \in 0 .. MaxMsgs /\ joins \in 0 .. MaxJoins
    /\ keyOf \in [Msg -> Keys]
    /\ acked \subseteq Msg /\ delivered \subseteq Msg /\ deleted \subseteq Msg

(* A message whose enqueuing, or whose transaction, was reported as done   *)
(* is in the file of the queue it was sent to, or in a job of that queue   *)
(* that goes on, until a consumer has confirmed it or the queue is deleted *)
(* for good.                                                               *)
AckedKept ==
    \A m \in acked :
        \/ m \in delivered \union deleted
        \/ m \in Range(file[keyOf[m]]) \union Range(job[keyOf[m]].msgs)

(* Close never stops a queue under somebody: the object in the map, and    *)
(* the objects of transactions and running requests, are open queues.  An  *)
(* object of a stopped queue in the map would fail every later request     *)
(* for its key, and could not be closed again either.                      *)
UsedQueuesOpen ==
    LET used == {mapKeyQueue[k] : k \in Keys} \union
                {qTrans[c] : c \in Clients} \union {p[c] : c \in Clients}
    IN  \A o \in used \ {0} : IsOpen(o)

(* What a consumer is being sent stays in the queue file until it confirms *)
(* it: no Close takes it away.                                             *)
DequeuedKept ==
    \A m \in Taken : \E k \in Keys : m \in Range(file[k])

(* A transaction that was rolled back, canceled or reported as failed      *)
(* leaves nothing behind, also when its job failed halfway: all messages   *)
(* in the queue files were reported as enqueued.                           *)
NothingFromFailed == \A k \in Keys : Range(file[k]) \subseteq acked

(* Every request returns, also when the files cannot be written: no        *)
(* critical section stays locked.                                          *)
EveryRequestReturns == \A c \in Clients : pc[c] # "idle" ~> pc[c] = "idle"
=============================================================================
