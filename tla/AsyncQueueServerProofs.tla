----------------------- MODULE AsyncQueueServerProofs -----------------------
(***************************************************************************)
(* What holds of the queue service for any number of clients, keys,        *)
(* messages and objects.                                                   *)
(*                                                                         *)
(* What consumers are being sent is safe for every timing.  That used      *)
(* queues stay open, and what is said of committed messages, holds where a *)
(* key is opened by one client at a time (SoloCreate); that no reported    *)
(* message is lost also needs transactions with messages for their own     *)
(* key only (OneKeyTrans) and a core that can write (~DiskFails).          *)
(***************************************************************************)
EXTENDS AsyncQueueServer, SequenceTheorems, FiniteSetTheorems, TLAPS

(* No two consumers get the same message.                                  *)
Apart == \A c, d \in Clients : c # d => deq[c] \cap deq[d] = {}

DequeueInv == TypeOK /\ DequeuedKept /\ Apart

(* Who has no request under way has no local pointer, and who is not a     *)
(* client has no transaction either.                                       *)
Pointers ==
    \A c \in Clients :
        /\ c \notin clients => pc[c] = "idle" /\ qTrans[c] = 0
        /\ pc[c] \notin {"created", "ready", "counting"} => p[c] = 0

(* The objects that are used are those in the map, with open handles; an   *)
(* object that is not in the map yet belongs to the one client that is     *)
(* opening its key.                                                        *)
Registered ==
    /\ \A k \in Keys : mapKeyQueue[k] # 0 =>
            objs[mapKeyQueue[k]].key = k /\ IsOpen(mapKeyQueue[k])
    /\ \A c \in Clients : qTrans[c] # 0 =>
            mapKeyQueue[objs[qTrans[c]].key] = qTrans[c]
    /\ \A c \in Clients : pc[c] \in {"ready", "counting"} =>
            mapKeyQueue[objs[p[c]].key] = p[c]
    /\ \A c \in Clients : pc[c] \in {"missing", "created"} =>
            mapKeyQueue[req[c].key] = 0
    /\ \A c \in Clients : pc[c] = "created" =>
            objs[p[c]].key = req[c].key /\ IsOpen(p[c])
    /\ \A k \in Keys : \A c, d \in Opening(k) : c = d

OpenInv == TypeOK /\ Pointers /\ Registered

(* A client that commits a job, and the key of its queue.                  *)
Committing(c) == pc[c] \in {"job", "filled", "failed"}
JobKey(c) == objs[qTrans[c]].key

(* A job of the core is that of the one client that commits to its queue,  *)
(* and it has nothing but messages of that client and messages that were   *)
(* reported.                                                               *)
JobsOwned ==
    /\ \A c \in Clients : Committing(c) => job[JobKey(c)].on
    /\ \A c, d \in Clients :
            Committing(c) /\ Committing(d) /\ JobKey(c) = JobKey(d) => c = d
    /\ \A k \in Keys : job[k] # NoJob =>
            \E c \in Clients :
                /\ Committing(c) /\ JobKey(c) = k
                /\ Range(job[k].msgs) \subseteq acked \union Range(batch[c])

FileInv == OpenInv /\ JobsOwned /\ NothingFromFailed

(* Messages are where their keys say: in requests, in transactions and in  *)
(* jobs that are about to be ended.                                        *)
KeysOf(c) ==
    /\ pc[c] \in {"missing", "created", "ready"} /\ req[c].op = "enqueue" =>
        /\ \A m \in Range(req[c].msgs) : keyOf[m] = req[c].key
        /\ pc[c] = "ready" => objs[p[c]].key = req[c].key
        /\ qTrans[c] # 0 => pc[c] = "ready" /\ p[c] = qTrans[c]
    /\ qTrans[c] # 0 => \A m \in Range(batch[c]) : keyOf[m] = JobKey(c)
    /\ qTrans[c] = 0 => batch[c] = <<>>
    /\ pc[c] # "failed"
    /\ pc[c] = "filled" => Range(batch[c]) \subseteq Range(job[JobKey(c)].msgs)

KeysKept == \A c \in Clients : KeysOf(c)

AckInv == FileInv /\ KeysKept /\ AckedKept
----------------------------------------------------------------------------
(* The types, in the parts that an action changes together.                *)
Steps == {"idle", "missing", "created", "ready", "counting", "job", "filled",
          "failed", "closing"}
Objects == Seq([key : Keys, handle : Obj])

MapType ==
    clients \subseteq Clients /\ mapKeyQueue \in [Keys -> 0 .. Len(objs)]
TransType ==
    qTrans \in [Clients -> 0 .. Len(objs)] /\ batch \in [Clients -> Seq(Msg)]
ReqType ==
    /\ p \in [Clients -> 0 .. Len(objs)]
    /\ pc \in [Clients -> Steps]
    /\ req \in [Clients -> Requests \union {NoReq}]
StepType ==
    \A c \in Clients :
        /\ pc[c] \in {"missing", "created", "ready", "counting", "closing"}
                => req[c] \in Requests
        /\ pc[c] \in {"created", "ready", "counting"} => p[c] # 0
        /\ pc[c] \in {"job", "filled", "failed"} => qTrans[c] # 0
ObjType ==
    /\ objs \in Objects /\ Len(objs) \in 0 .. MaxObjs
    /\ lockedBy \in [Obj -> Clients \union {NoClient}]
HandleType == handle \in [Keys -> 0 .. handles] /\ handles \in 0 .. MaxObjs
FileType ==
    /\ job \in [Keys -> [on : BOOLEAN, msgs : Seq(Msg)]]
    /\ file \in [Keys -> Seq(Msg)]
DeqType == deq \in [Clients -> SUBSET Msg]
HistoryType ==
    /\ msgs \in 0 .. MaxMsgs /\ joins \in 0 .. MaxJoins
    /\ keyOf \in [Msg -> Keys]
    /\ acked \subseteq Msg /\ delivered \subseteq Msg /\ deleted \subseteq Msg

LEMMA Constants ==
    /\ MaxMsgs \in Nat /\ MaxObjs \in Nat /\ MaxJoins \in Nat
    /\ Msg = 1 .. MaxMsgs /\ Obj = 1 .. MaxObjs
    /\ NoClient \notin Clients /\ IsFiniteSet(Clients) /\ IsFiniteSet(Keys)
BY ConstantsAssumption DEF Msg, Obj

TypedParts ==
    /\ MapType /\ TransType /\ ReqType /\ StepType /\ ObjType
    /\ HandleType /\ FileType /\ DeqType /\ HistoryType

LEMMA TypeParts == (TypeOK => TypedParts) /\ (TypedParts' => TypeOK')
<1>1. ASSUME objs \in Objects
      PROVE  Len(objs) <= MaxObjs => Len(objs) \in 0 .. MaxObjs
    BY <1>1, LenProperties, Constants DEF Objects
<1>2. TypeOK => TypedParts
    BY <1>1 DEF TypeOK, TypedParts, MapType, TransType, ReqType, StepType, ObjType,
                HandleType, FileType, DeqType, HistoryType, Steps, Objects
<1>3. Len(objs') \in 0 .. MaxObjs => Len(objs') <= MaxObjs
    BY Constants
<1>4. TypedParts' => TypeOK'
    BY <1>3 DEF TypeOK, TypedParts, MapType, TransType, ReqType, StepType, ObjType,
                HandleType, FileType, DeqType, HistoryType, Steps, Objects
<1> QED
    BY <1>2, <1>4

(* Taking the i-th element out of a sequence.                              *)
LEMMA RemoveAtProperties ==
    ASSUME NEW S, NEW q \in Seq(S), NEW i \in 1 .. Len(q)
    PROVE  /\ RemoveAt(q, i) \in Seq(S)
           /\ Len(RemoveAt(q, i)) = Len(q) - 1
           /\ \A j \in 1 .. Len(q) - 1 :
                RemoveAt(q, i)[j] = IF j < i THEN q[j] ELSE q[j + 1]
<1> DEFINE a == SubSeq(q, 1, i - 1)
           b == SubSeq(q, i + 1, Len(q))
<1>0. Len(q) \in Nat /\ i \in Int /\ \A j \in 1 .. Len(q) : q[j] \in S
    BY LenProperties
<1>1. /\ a \in Seq(S) /\ Len(a) = i - 1
      /\ \A j \in 1 .. i - 1 : a[j] = q[j]
  <2>1. \A j \in 1 .. i - 1 : q[j] \in S
    BY <1>0
  <2>2. i - 1 \in Int /\ (IF 1 <= i - 1 THEN (i - 1) - 1 + 1 ELSE 0) = i - 1
    BY <1>0
  <2> QED
    BY <2>1, <2>2, SubSeqProperties
<1>2. /\ b \in Seq(S) /\ Len(b) = Len(q) - i
      /\ \A j \in 1 .. Len(q) - i : b[j] = q[i + j]
  <2>1. \A j \in i + 1 .. Len(q) : q[j] \in S
    BY <1>0
  <2>2. /\ i + 1 \in Int
        /\ (IF i + 1 <= Len(q) THEN Len(q) - (i + 1) + 1 ELSE 0) = Len(q) - i
    BY <1>0
  <2>3. /\ b \in Seq(S)
        /\ Len(b) = IF i + 1 <= Len(q) THEN Len(q) - (i + 1) + 1 ELSE 0
        /\ \A j \in 1 .. Len(q) - (i + 1) + 1 : b[j] = q[(i + 1) + j - 1]
    BY <1>0, <2>1, <2>2, SubSeqProperties
  <2> QED
    BY <1>0, <2>2, <2>3
<1> HIDE DEF a, b
<1>3. /\ a \o b \in Seq(S) /\ Len(a \o b) = Len(q) - 1
      /\ \A j \in 1 .. Len(q) - 1 :
            (a \o b)[j] = IF j <= i - 1 THEN a[j] ELSE b[j - (i - 1)]
  <2>1. /\ a \o b \in Seq(S) /\ Len(a \o b) = Len(a) + Len(b)
        /\ \A j \in 1 .. Len(a) + Len(b) :
              (a \o b)[j] = IF j <= Len(a) THEN a[j] ELSE b[j - Len(a)]
    BY <1>1, <1>2, ConcatProperties
  <2>2. Len(a) + Len(b) = Len(q) - 1
    BY <1>0, <1>1, <1>2
  <2> QED
    BY <1>1, <2>1, <2>2
<1>4. RemoveAt(q, i) = a \o b
    BY DEF RemoveAt, a, b
<1>5. ASSUME NEW j \in 1 .. Len(q) - 1
      PROVE  (a \o b)[j] = IF j < i THEN q[j] ELSE q[j + 1]
  <2>1. CASE j < i
    BY <2>1, <1>0, <1>1, <1>3
  <2>2. CASE ~(j < i)
    <3>1. j - (i - 1) \in 1 .. Len(q) - i /\ i + (j - (i - 1)) = j + 1
      <4> DEFINE n == Len(q)
      <4> SUFFICES ASSUME n \in Nat, j \in 1 .. n - 1, ~(j < i), i \in 1 .. n
                   PROVE  j - (i - 1) \in 1 .. n - i /\ i + (j - (i - 1)) = j + 1
        BY <2>2, <1>0
      <4> HIDE DEF n
      <4> QED
        OBVIOUS
    <3>2. b[j - (i - 1)] = q[i + (j - (i - 1))]
      BY <3>1, <1>2
    <3>3. ~(j <= i - 1)
      BY <2>2, <1>0
    <3>4. (a \o b)[j] = b[j - (i - 1)]
      BY <3>3, <1>3
    <3> QED
      BY <2>2, <3>1, <3>2, <3>4
  <2> QED
    BY <2>1, <2>2
<1> QED
    BY <1>3, <1>4, <1>5

LEMMA RemoveAtRange ==
    ASSUME NEW S, NEW q \in Seq(S), NEW i \in 1 .. Len(q)
    PROVE  /\ Range(RemoveAt(q, i)) \subseteq Range(q)
           /\ Range(q) \subseteq Range(RemoveAt(q, i)) \union {q[i]}
<1> DEFINE r == RemoveAt(q, i)
<1>1. Len(q) \in Nat /\ DOMAIN q = 1 .. Len(q)
    BY LenProperties
<1>2. /\ r \in Seq(S) /\ Len(r) = Len(q) - 1
      /\ \A j \in 1 .. Len(q) - 1 : r[j] = IF j < i THEN q[j] ELSE q[j + 1]
    BY RemoveAtProperties
<1> HIDE DEF r
<1>3. DOMAIN r = 1 .. Len(q) - 1
    BY <1>2, LenProperties
<1>4. ASSUME NEW j \in 1 .. Len(q) - 1
      PROVE  r[j] \in Range(q)
  <2>1. j \in DOMAIN q /\ j + 1 \in DOMAIN q
    BY <1>1
  <2> QED
    BY <1>2, <2>1 DEF Range
<1>5. ASSUME NEW j \in 1 .. Len(q), q[j] # q[i]
      PROVE  q[j] \in Range(r)
  <2>1. CASE j < i
    <3>1. j \in DOMAIN r /\ r[j] = q[j]
      BY <1>1, <1>2, <1>3, <2>1
    <3> QED
      BY <3>1 DEF Range
  <2>2. CASE j > i
    <3>1. j - 1 \in DOMAIN r /\ r[j - 1] = q[j]
      BY <1>1, <1>2, <1>3, <2>2
    <3> QED
      BY <3>1 DEF Range
  <2>3. j # i
    BY <1>5
  <2> QED
    BY <1>1, <2>1, <2>2, <2>3
<1> QED
    BY <1>1, <1>3, <1>4, <1>5 DEF Range, r

LEMMA ObjProperties ==
    ASSUME ObjType, NEW o \in 1 .. Len(objs)
    PROVE  objs[o].key \in Keys /\ objs[o].handle \in Obj
<1>1. objs[o] \in [key : Keys, handle : Obj]
    BY ElementOfSeq DEF ObjType, Objects
<1> QED
    BY <1>1

(* What Construct makes: a new object of key k, and the handle that the    *)
(* core has open for k.                                                    *)
LEMMA ConstructProperties ==
    ASSUME ObjType, HandleType, NEW k \in Keys, NEW o \in Obj, Construct(k, o)
    PROVE  /\ objs' \in Objects /\ Len(objs') = o /\ o = Len(objs) + 1
           /\ Len(objs') \in 0 .. MaxObjs
           /\ \A i \in 1 .. Len(objs) : objs'[i] = objs[i]
           /\ objs'[o].key = k /\ objs'[o].handle = handle'[k]
           /\ handle' = [handle EXCEPT ![k] = handle'[k]]
           /\ handle[k] # 0 => handle'[k] = handle[k]
           /\ HandleType'
<1> DEFINE h == IF handle[k] # 0 THEN handle[k] ELSE handles + 1
           r == [key |-> k, handle |-> h]
<1>1. /\ handles \in 0 .. MaxObjs /\ handle[k] \in 0 .. handles
      /\ handle \in [Keys -> 0 .. handles] /\ objs \in Objects
      /\ Len(objs) \in Nat
    BY LenProperties DEF ObjType, HandleType, Objects
<1>2. /\ o = Len(objs) + 1 /\ o <= MaxObjs /\ h <= MaxObjs
      /\ objs' = Append(objs, r) /\ handle' = [handle EXCEPT ![k] = h]
      /\ handles' = IF handle[k] # 0 THEN handles ELSE handles + 1
    BY DEF Construct
<1>3. /\ h \in Obj /\ h \in 0 .. handles' /\ handles' \in 0 .. MaxObjs
      /\ handles <= handles'
    BY <1>1, <1>2, Constants
<1> HIDE DEF h
<1>4. r \in [key : Keys, handle : Obj] /\ r.key = k /\ r.handle = h
    BY <1>3
<1> HIDE DEF r
<1>5. /\ objs' \in Objects /\ Len(objs') = Len(objs) + 1
      /\ \A i \in 1 .. Len(objs) : objs'[i] = objs[i]
      /\ objs'[Len(objs) + 1] = r
    BY <1>1, <1>2, <1>4, AppendProperties DEF Objects
<1>6. handle'[k] = h /\ handle' = [handle EXCEPT ![k] = handle'[k]]
    BY <1>1, <1>2
<1>7. HandleType'
  <2>1. handle \in [Keys -> 0 .. handles']
    BY <1>1, <1>3
  <2> QED
    BY <1>2, <1>3, <2>1 DEF HandleType
<1>8. Len(objs') \in 0 .. MaxObjs /\ Len(objs') = o /\ objs'[o] = r
    BY <1>1, <1>2, <1>5, Constants
<1>9. handle[k] # 0 => handle'[k] = handle[k]
    BY <1>6 DEF h
<1> QED
    BY <1>2, <1>4, <1>5, <1>6, <1>7, <1>8, <1>9

(* Growing objs leaves the pointers in bounds.                             *)
LEMMA MoreObjects ==
    ASSUME MapType, TransType, ReqType, ObjType, objs' \in Objects,
           Len(objs') = Len(objs) + 1
    PROVE  /\ mapKeyQueue \in [Keys -> 0 .. Len(objs')]
           /\ qTrans \in [Clients -> 0 .. Len(objs')]
           /\ p \in [Clients -> 0 .. Len(objs')]
<1>1. Len(objs) \in Nat
    BY DEF ObjType
<1>2. 0 .. Len(objs) \subseteq 0 .. Len(objs')
    BY <1>1
<1> QED
    BY <1>2 DEF MapType, TransType, ReqType

LEMMA CoreEnqueueType ==
    ASSUME FileType, NEW k \in Keys, NEW ms \in Seq(Msg), CoreEnqueue(k, ms)
    PROVE  FileType'
<1>1. /\ job[k].on \in BOOLEAN /\ job[k].msgs \in Seq(Msg) /\ file[k] \in Seq(Msg)
    BY DEF FileType
<1>2. job[k].msgs \o ms \in Seq(Msg) /\ file[k] \o ms \in Seq(Msg)
    BY <1>1, ConcatProperties
<1> QED
    BY <1>2 DEF CoreEnqueue, FileType

LEMMA DropTransType ==
    ASSUME TransType, objs' = objs, NEW c \in Clients, DropTrans(c)
    PROVE  TransType'
<1>1. <<>> \in Seq(Msg)
    BY EmptySeq
<1> QED
    BY <1>1 DEF TransType, DropTrans, Objects

LEMMA ReturnType ==
    ASSUME ReqType, StepType, ObjType, objs' = objs, NEW c \in Clients, Return(c),
           \A d \in Clients : d # c => qTrans'[d] = qTrans[d]
    PROVE  ReqType' /\ StepType'
<1>1. 0 \in 0 .. Len(objs)
    BY DEF ObjType
<1>2. ReqType'
    BY <1>1 DEF ReqType, Return, Steps
<1>3. /\ pc'[c] = "idle"
      /\ \A d \in Clients : d # c =>
            pc'[d] = pc[d] /\ req'[d] = req[d] /\ p'[d] = p[d]
    BY DEF ReqType, Return
<1>4. StepType'
    BY <1>3 DEF StepType
<1> QED
    BY <1>2, <1>4

LEMMA InitType == Init => TypeOK
<1> SUFFICES ASSUME Init
             PROVE  TypeOK
    OBVIOUS
<1>1. <<>> \in Objects /\ Len(<<>>) = 0 /\ <<>> \in Seq(Msg)
    BY EmptySeq DEF Objects
<1>2. MapType /\ TransType /\ ReqType /\ StepType
    BY <1>1 DEF Init, MapType, TransType, ReqType, StepType, Steps
<1>3. ObjType /\ HandleType /\ DeqType
    BY <1>1, Constants DEF Init, ObjType, HandleType, DeqType
<1>4. FileType
    BY <1>1 DEF Init, FileType, NoJob
<1>5. HistoryType
    BY Constants DEF Init, HistoryType
<1> QED
    BY <1>1, <1>2, <1>3, <1>4, <1>5
    DEF TypeOK, MapType, TransType, ReqType, StepType, ObjType, HandleType,
        FileType, DeqType, HistoryType, Steps, Objects

(* Clients come and go; transactions end.                                  *)
LEMMA SwitchType ==
    ASSUME TypeOK, NEW c \in Clients,
           OnSwitchFrom(c) \/ OnReleaseSource(c) \/ OnBaseRequestArrive(c)
                \/ EndTransDrop(c)
    PROVE  TypeOK'
<1> USE TypeParts, Constants DEF TypedParts
<1>1. CASE OnSwitchFrom(c)
  <2>1. MapType' /\ TransType' /\ ReqType' /\ ObjType'
    BY <1>1 DEF OnSwitchFrom, MapType, TransType, ReqType, ObjType, clientVars,
                objVars
  <2>2. StepType' /\ HandleType' /\ FileType' /\ DeqType'
    BY <1>1 DEF OnSwitchFrom, StepType, HandleType, FileType, DeqType, clientVars,
                coreVars
  <2>3. HistoryType'
    BY <1>1 DEF OnSwitchFrom, HistoryType
  <2> QED
    BY <2>1, <2>2, <2>3
<1>2. CASE OnReleaseSource(c)
  <2>1. TransType'
    BY <1>2, DropTransType DEF OnReleaseSource, objVars
  <2>2. MapType'
    BY <1>2 DEF OnReleaseSource, MapType, ObjType, objVars
  <2>3. \A d \in Clients : d # c => qTrans'[d] = qTrans[d]
    BY <1>2 DEF OnReleaseSource, DropTrans, TransType
  <2>4. StepType'
    BY <1>2, <2>3 DEF OnReleaseSource, StepType
  <2>5. ReqType' /\ ObjType' /\ HandleType' /\ FileType' /\ HistoryType'
    BY <1>2 DEF OnReleaseSource, ReqType, ObjType, HandleType, FileType,
                HistoryType, history, objVars
  <2>6. DeqType'
    BY <1>2 DEF OnReleaseSource, DeqType
  <2> QED
    BY <2>1, <2>2, <2>4, <2>5, <2>6
<1>3. CASE OnBaseRequestArrive(c) \/ EndTransDrop(c)
  <2>1. /\ pc[c] = "idle" /\ DropTrans(c)
        /\ UNCHANGED <<staticVars, pc, req, p, objVars, coreVars, history>>
    BY <1>3 DEF OnBaseRequestArrive, EndTransDrop, InTrans
  <2>2. TransType'
    BY <2>1, DropTransType DEF objVars
  <2>3. \A d \in Clients : d # c => qTrans'[d] = qTrans[d]
    BY <2>1 DEF DropTrans, TransType
  <2>4. StepType'
    BY <2>1, <2>3 DEF StepType
  <2>5. /\ MapType' /\ ReqType' /\ ObjType' /\ HandleType' /\ FileType' /\ DeqType'
        /\ HistoryType'
    BY <2>1 DEF MapType, ReqType, ObjType, HandleType, FileType, DeqType,
                HistoryType, history, objVars, staticVars, coreVars
  <2> QED
    BY <2>2, <2>4, <2>5
<1> QED
    BY <1>1, <1>2, <1>3

(* Requests begin: the step and the pointer of client c change.            *)
LEMMA FindType ==
    ASSUME TypeOK, NEW c \in Clients, NEW r \in Requests,
           NEW o \in 0 .. Len(objs), req' = [req EXCEPT ![c] = r], Find(c, o),
           UNCHANGED <<qTrans, batch, objs>>
    PROVE  ReqType' /\ StepType' /\ TransType'
<1>1. ReqType /\ StepType /\ TransType
    BY TypeParts DEF TypedParts
<1>2. ReqType'
    BY <1>1 DEF ReqType, Find, Steps
<1>3. /\ pc'[c] \in {"ready", "missing"} /\ req'[c] = r /\ p'[c] = o
      /\ pc'[c] = "ready" => o # 0
      /\ \A d \in Clients : d # c =>
            pc'[d] = pc[d] /\ req'[d] = req[d] /\ p'[d] = p[d]
    BY <1>1 DEF ReqType, Find
<1>4. StepType'
    BY <1>1, <1>3 DEF StepType
<1> QED
    BY <1>1, <1>2, <1>4 DEF TransType

LEMMA RequestType ==
    ASSUME TypeOK, NEW c \in Clients, NEW k \in Keys,
           \/ \E n \in 1 .. 2 : EnqueueFind(c, k, n)
           \/ DequeueFind(c, k) \/ StartTrans(c, k) \/ CloseDrop(c, k)
    PROVE  TypeOK'
<1> USE TypeParts, Constants DEF TypedParts
<1>1. /\ mapKeyQueue[k] \in 0 .. Len(objs) /\ qTrans[c] \in 0 .. Len(objs)
      /\ <<>> \in Seq(Msg)
    BY EmptySeq DEF MapType, TransType
<1>2. CASE \E n \in 1 .. 2 : EnqueueFind(c, k, n)
  <2>1. PICK n \in 1 .. 2 : EnqueueFind(c, k, n)
    BY <1>2
  <2> DEFINE r == [op |-> "enqueue", key |-> k, msgs |-> [i \in 1 .. n |-> msgs + i]]
             o == IF qTrans[c] # 0 THEN qTrans[c] ELSE mapKeyQueue[k]
  <2>2. msgs' = msgs + n /\ msgs' \in 0 .. MaxMsgs
    BY <2>1 DEF EnqueueFind, HistoryType
  <2>3. [i \in 1 .. n |-> msgs + i] \in Seq(Msg)
    BY <2>2 DEF HistoryType
  <2>4. r \in Requests /\ o \in 0 .. Len(objs)
    BY <1>1, <2>3 DEF Requests
  <2>5. /\ req' = [req EXCEPT ![c] = r] /\ Find(c, o)
        /\ UNCHANGED <<staticVars, qTrans, batch, objVars, coreVars, joins, keyOf,
                       acked, delivered, deleted>>
    BY <2>1 DEF EnqueueFind
  <2> HIDE DEF r, o
  <2>6. ReqType' /\ StepType' /\ TransType'
    BY <2>4, <2>5, FindType DEF objVars
  <2>7. MapType' /\ ObjType' /\ HandleType' /\ FileType' /\ DeqType' /\ HistoryType'
    BY <2>2, <2>5 DEF MapType, ObjType, HandleType, FileType, DeqType, HistoryType,
                      objVars, staticVars, coreVars
  <2> QED
    BY <2>6, <2>7
<1>3. CASE DequeueFind(c, k)
  <2> DEFINE r == [op |-> "dequeue", key |-> k, msgs |-> <<>>]
  <2>1. r \in Requests
    BY <1>1 DEF Requests
  <2>2. /\ req' = [req EXCEPT ![c] = r] /\ Find(c, mapKeyQueue[k])
        /\ UNCHANGED <<staticVars, qTrans, batch, objVars, coreVars, history>>
    BY <1>3 DEF DequeueFind
  <2> HIDE DEF r
  <2>3. ReqType' /\ StepType' /\ TransType'
    BY <1>1, <2>1, <2>2, FindType DEF objVars
  <2>4. MapType' /\ ObjType' /\ HandleType' /\ FileType' /\ DeqType' /\ HistoryType'
    BY <2>2 DEF MapType, ObjType, HandleType, FileType, DeqType, HistoryType,
                objVars, staticVars, coreVars, history
  <2> QED
    BY <2>3, <2>4
<1>4. CASE StartTrans(c, k)
  <2>1. PICK o \in Obj :
            /\ \/ mapKeyQueue[k] = o /\ UNCHANGED <<mapKeyQueue, objs, handle, handles>>
               \/ /\ mapKeyQueue[k] = 0 /\ Construct(k, o)
                  /\ mapKeyQueue' = [mapKeyQueue EXCEPT ![k] = o]
            /\ qTrans' = [qTrans EXCEPT ![c] = o]
    BY <1>4 DEF StartTrans
  <2>2. UNCHANGED <<clients, batch, pc, req, p, lockedBy, job, file, deq, history>>
    BY <1>4 DEF StartTrans
  <2>3. MapType' /\ TransType' /\ ReqType' /\ ObjType' /\ HandleType'
    <3>1. CASE mapKeyQueue[k] = o /\ UNCHANGED <<mapKeyQueue, objs, handle, handles>>
      BY <1>1, <2>1, <2>2, <3>1
      DEF MapType, TransType, ReqType, ObjType, HandleType
    <3>2. CASE /\ mapKeyQueue[k] = 0 /\ Construct(k, o)
               /\ mapKeyQueue' = [mapKeyQueue EXCEPT ![k] = o]
      <4>1. /\ objs' \in Objects /\ Len(objs') = o /\ o = Len(objs) + 1
            /\ Len(objs') \in 0 .. MaxObjs /\ HandleType'
        BY <3>2, ConstructProperties
      <4>2. /\ mapKeyQueue \in [Keys -> 0 .. Len(objs')]
            /\ qTrans \in [Clients -> 0 .. Len(objs')]
            /\ p \in [Clients -> 0 .. Len(objs')] /\ o \in 0 .. Len(objs')
        BY <4>1, MoreObjects
      <4> QED
        BY <2>1, <2>2, <3>2, <4>1, <4>2 DEF MapType, TransType, ReqType, ObjType
    <3> QED
      BY <2>1, <3>1, <3>2
  <2>4. StepType'
    <3>1. \A d \in Clients : qTrans[d] # 0 => qTrans'[d] # 0
      BY <2>1 DEF TransType
    <3> QED
      BY <2>2, <3>1 DEF StepType
  <2>5. FileType' /\ DeqType' /\ HistoryType'
    BY <2>2 DEF FileType, DeqType, HistoryType, history
  <2> QED
    BY <2>3, <2>4, <2>5
<1>5. CASE CloseDrop(c, k)
  <2> DEFINE r == [op |-> "close", key |-> k, msgs |-> <<>>]
  <2>1. r \in Requests
    BY <1>1 DEF Requests
  <2>2. /\ req' = [req EXCEPT ![c] = r] /\ DropTrans(c)
        /\ pc' = [pc EXCEPT ![c] = "closing"]
        /\ UNCHANGED <<staticVars, p, objVars, coreVars, history>>
    BY <1>5 DEF CloseDrop
  <2> HIDE DEF r
  <2>3. TransType'
    BY <2>2, DropTransType DEF objVars
  <2>4. ReqType'
    BY <2>1, <2>2 DEF ReqType, Steps, objVars
  <2>5. /\ pc'[c] = "closing" /\ req'[c] \in Requests
        /\ \A d \in Clients : d # c =>
                pc'[d] = pc[d] /\ req'[d] = req[d] /\ qTrans'[d] = qTrans[d]
    BY <2>1, <2>2 DEF ReqType, TransType, DropTrans
  <2>6. StepType'
    BY <2>2, <2>5 DEF StepType
  <2>7. MapType' /\ ObjType' /\ HandleType' /\ FileType' /\ DeqType' /\ HistoryType'
    BY <2>2 DEF MapType, ObjType, HandleType, FileType, DeqType, HistoryType,
                objVars, staticVars, coreVars, history
  <2> QED
    BY <2>3, <2>4, <2>6, <2>7
<1> QED
    BY <1>2, <1>3, <1>4, <1>5

(* Requests go on: the object is made and registered, the messages are     *)
(* enqueued or dequeued.                                                   *)
LEMMA GoOnType ==
    ASSUME TypeOK, NEW c \in Clients,
           \/ Make(c) \/ MakeFails(c) \/ Register(c) \/ Enqueue(c) \/ Dequeue(c)
           \/ DequeueCount(c) \/ Confirm(c)
    PROVE  TypeOK'
<1> USE TypeParts, Constants DEF TypedParts
<1>1. pc[c] \in {"missing", "created", "ready", "counting"} =>
        /\ req[c] \in Requests /\ req[c].key \in Keys /\ req[c].msgs \in Seq(Msg)
        /\ pc[c] # "missing" => p[c] \in 1 .. Len(objs) /\ objs[p[c]].key \in Keys
    BY ObjProperties DEF StepType, Requests, ReqType, ObjType
<1>2. CASE Make(c)
  <2>1. PICK o \in Obj : Construct(req[c].key, o) /\ p' = [p EXCEPT ![c] = o]
    BY <1>2 DEF Make
  <2>2. /\ pc[c] = "missing" /\ pc' = [pc EXCEPT ![c] = "created"]
        /\ UNCHANGED <<staticVars, qTrans, batch, req, lockedBy, job, file, deq,
                       history>>
    BY <1>2 DEF Make
  <2>3. /\ objs' \in Objects /\ Len(objs') = o /\ o = Len(objs) + 1
        /\ Len(objs') \in 0 .. MaxObjs /\ HandleType'
    BY <1>1, <2>1, <2>2, ConstructProperties
  <2>4. /\ mapKeyQueue \in [Keys -> 0 .. Len(objs')]
        /\ qTrans \in [Clients -> 0 .. Len(objs')]
        /\ p \in [Clients -> 0 .. Len(objs')] /\ o \in 0 .. Len(objs')
    BY <2>3, MoreObjects
  <2>5. MapType' /\ TransType' /\ ReqType' /\ ObjType'
    BY <2>1, <2>2, <2>3, <2>4
    DEF MapType, TransType, ReqType, ObjType, Steps, staticVars
  <2>6. /\ pc'[c] = "created" /\ p'[c] = o /\ o # 0
        /\ \A d \in Clients : d # c => pc'[d] = pc[d] /\ p'[d] = p[d]
    BY <2>1, <2>2 DEF ReqType
  <2>7. StepType'
    BY <1>1, <2>2, <2>6 DEF StepType
  <2>8. FileType' /\ DeqType' /\ HistoryType'
    BY <2>2 DEF FileType, DeqType, HistoryType, history
  <2> QED
    BY <2>3, <2>5, <2>7, <2>8
<1>3. CASE MakeFails(c) \/ DequeueCount(c)
  <2>1. /\ Return(c)
        /\ UNCHANGED <<staticVars, qTrans, batch, objVars, coreVars, history>>
    BY <1>3 DEF MakeFails, DequeueCount
  <2>2. ReqType' /\ StepType'
    BY <2>1, ReturnType DEF objVars
  <2>3. MapType' /\ TransType' /\ ObjType' /\ HandleType' /\ FileType' /\ DeqType'
        /\ HistoryType'
    BY <2>1 DEF MapType, TransType, ObjType, HandleType, FileType, DeqType,
                HistoryType, objVars, staticVars, coreVars, history
  <2> QED
    BY <2>2, <2>3
<1>4. CASE Register(c)
  <2>1. /\ pc[c] = "created" /\ pc' = [pc EXCEPT ![c] = "ready"]
        /\ mapKeyQueue' = [mapKeyQueue EXCEPT ![req[c].key] = p[c]]
        /\ UNCHANGED <<clients, qTrans, batch, req, p, objVars, coreVars, history>>
    BY <1>4 DEF Register
  <2>2. ReqType' /\ StepType'
    <3>1. \A d \in Clients : d # c => pc'[d] = pc[d]
      BY <2>1 DEF ReqType
    <3>2. pc'[c] = "ready" /\ ReqType'
      BY <2>1 DEF ReqType, Steps, objVars
    <3> QED
      BY <1>1, <2>1, <3>1, <3>2 DEF StepType
  <2>3. MapType'
    BY <1>1, <2>1 DEF MapType, ReqType, objVars
  <2>4. TransType' /\ ObjType' /\ HandleType' /\ FileType' /\ DeqType' /\ HistoryType'
    BY <2>1 DEF TransType, ObjType, HandleType, FileType, DeqType,
                HistoryType, objVars, coreVars, history
  <2> QED
    BY <2>2, <2>3, <2>4
<1>5. CASE Enqueue(c)
  <2>1. /\ pc[c] = "ready" /\ Return(c)
        /\ UNCHANGED <<staticVars, qTrans, objVars, handle, handles, deq, msgs,
                       joins, keyOf, delivered, deleted>>
    BY <1>5 DEF Enqueue
  <2>2. ReqType' /\ StepType'
    BY <2>1, ReturnType DEF objVars
  <2>3. MapType' /\ ObjType' /\ HandleType' /\ DeqType'
    BY <2>1 DEF MapType, ObjType, HandleType, DeqType, objVars, staticVars
  <2>4. TransType'
    <3>1. batch[c] \o req[c].msgs \in Seq(Msg)
      BY <1>1, <2>1, ConcatProperties DEF TransType
    <3> QED
      BY <1>5, <2>1, <3>1 DEF Enqueue, TransType, objVars
  <2>5. FileType'
    <3>1. \/ UNCHANGED <<job, file>>
          \/ CoreEnqueue(objs[p[c]].key, req[c].msgs)
      BY <1>5 DEF Enqueue
    <3> QED
      BY <1>1, <2>1, <3>1, CoreEnqueueType DEF FileType
  <2>6. HistoryType'
    <3>1. Range(req[c].msgs) \subseteq Msg
      BY <1>1, <2>1, RangeOfSeq
    <3>2. acked' = acked \/ acked' = acked \union Range(req[c].msgs)
      BY <1>5 DEF Enqueue
    <3> QED
      BY <2>1, <3>1, <3>2 DEF HistoryType
  <2> QED
    BY <2>2, <2>3, <2>4, <2>5, <2>6
<1>6. CASE Dequeue(c)
  <2>1. /\ pc[c] = "ready" /\ pc' = [pc EXCEPT ![c] = "counting"]
        /\ UNCHANGED <<staticVars, qTrans, batch, req, p, objVars, handle, handles,
                       job, file, history>>
    BY <1>6 DEF Dequeue
  <2>2. ReqType' /\ StepType'
    <3>1. \A d \in Clients : d # c => pc'[d] = pc[d]
      BY <2>1 DEF ReqType
    <3>2. pc'[c] = "counting" /\ ReqType'
      BY <2>1 DEF ReqType, Steps, objVars
    <3> QED
      BY <1>1, <2>1, <3>1, <3>2 DEF StepType
  <2>3. DeqType'
    <3> DEFINE q == file[objs[p[c]].key]
    <3>1. q \in Seq(Msg)
      BY <1>1, <2>1 DEF FileType
    <3>2. \/ deq' = deq
          \/ \E i \in 1 .. Len(q) : deq' = [deq EXCEPT ![c] = @ \union {q[i]}]
      BY <1>6 DEF Dequeue
    <3>3. \A i \in 1 .. Len(q) : q[i] \in Msg
      BY <3>1, ElementOfSeq
    <3> QED
      BY <3>2, <3>3 DEF DeqType
  <2>4. MapType' /\ TransType' /\ ObjType' /\ HandleType' /\ FileType' /\ HistoryType'
    BY <2>1 DEF MapType, TransType, ObjType, HandleType, FileType,
                HistoryType, objVars, staticVars, history
  <2> QED
    BY <2>2, <2>3, <2>4
<1>7. CASE Confirm(c)
  <2>0. PICK m \in deq[c], k \in Keys :
            /\ deq' = [deq EXCEPT ![c] = @ \ {m}]
            /\ \E i \in 1 .. Len(file[k]) :
                file[k][i] = m /\ file' = [file EXCEPT ![k] = RemoveAt(@, i)]
            /\ delivered' = delivered \union {m}
    BY <1>7 DEF Confirm
  <2>1. PICK i \in 1 .. Len(file[k]) : file' = [file EXCEPT ![k] = RemoveAt(@, i)]
    BY <2>0
  <2>2. UNCHANGED <<staticVars, clientVars, objVars, handle, handles, job, msgs,
                    joins, keyOf, acked, deleted>>
    BY <1>7 DEF Confirm
  <2>3. RemoveAt(file[k], i) \in Seq(Msg)
    BY RemoveAtProperties DEF FileType
  <2>4. FileType' /\ DeqType' /\ HistoryType'
    <3>1. FileType'
      BY <2>1, <2>2, <2>3 DEF FileType
    <3>2. DeqType' /\ m \in Msg
      BY <2>0 DEF DeqType
    <3>3. HistoryType'
      BY <2>0, <2>2, <3>2 DEF HistoryType
    <3> QED
      BY <3>1, <3>2, <3>3
  <2>5. MapType' /\ TransType' /\ ReqType' /\ StepType' /\ ObjType' /\ HandleType'
    BY <2>2 DEF MapType, TransType, ReqType, StepType, ObjType, HandleType,
                objVars, staticVars, clientVars
  <2> QED
    BY <2>4, <2>5
<1> QED
    BY <1>2, <1>3, <1>4, <1>5, <1>6, <1>7

(* Transactions that are committed, and queues that are closed.            *)
LEMMA CommitType ==
    ASSUME TypeOK, NEW c \in Clients,
           \/ EndTransOne(c) \/ EndTransJob(c) \/ JobFill(c) \/ JobFillPart(c)
           \/ JobAbort(c) \/ JobEnd(c) \/ JobEndFails(c)
           \/ \E permanent \in BOOLEAN : Close(c, permanent)
    PROVE  TypeOK'
<1> USE TypeParts, Constants DEF TypedParts
<1> DEFINE k == objs[qTrans[c]].key
<1>1. qTrans[c] # 0 => /\ qTrans[c] \in Obj /\ k \in Keys
                       /\ job[k].msgs \in Seq(Msg) /\ job[k].on \in BOOLEAN
                       /\ file[k] \in Seq(Msg)
  <2>1. SUFFICES ASSUME qTrans[c] # 0
                 PROVE  /\ qTrans[c] \in Obj /\ k \in Keys
                        /\ job[k].msgs \in Seq(Msg) /\ job[k].on \in BOOLEAN
                        /\ file[k] \in Seq(Msg)
    OBVIOUS
  <2>2. qTrans[c] \in 1 .. Len(objs) /\ qTrans[c] \in Obj
    BY <2>1 DEF TransType, ObjType
  <2>3. k \in Keys
    BY <2>2, ObjProperties
  <2> QED
    BY <2>2, <2>3 DEF FileType
<1>2. /\ batch[c] \in Seq(Msg) /\ Range(batch[c]) \subseteq Msg
      /\ NoJob \in [on : BOOLEAN, msgs : Seq(Msg)]
    BY RangeOfSeq, EmptySeq DEF TransType, NoJob
<1>3. DropTrans(c) => \A d \in Clients : d # c => qTrans'[d] = qTrans[d]
    BY DEF DropTrans, TransType
<1> HIDE DEF k
<1>4. CASE EndTransOne(c)
  <2>1. /\ qTrans[c] # 0 /\ pc[c] = "idle" /\ DropTrans(c)
        /\ UNCHANGED <<staticVars, pc, req, p, objVars, handle, handles, deq, msgs,
                       joins, keyOf, delivered, deleted>>
    BY <1>4 DEF EndTransOne, InTrans
  <2>2. FileType'
    <3>1. UNCHANGED <<job, file>> \/ CoreEnqueue(k, batch[c])
      BY <1>4 DEF EndTransOne, k
    <3> QED
      BY <1>1, <1>2, <2>1, <3>1, CoreEnqueueType DEF FileType
  <2>3. HistoryType'
    <3>1. acked' = acked \/ acked' = acked \union Range(batch[c])
      BY <1>4 DEF EndTransOne
    <3> QED
      BY <1>2, <2>1, <3>1 DEF HistoryType
  <2>4. TransType' /\ StepType'
    BY <1>3, <2>1, DropTransType DEF StepType, objVars
  <2>5. MapType' /\ ReqType' /\ ObjType' /\ HandleType' /\ DeqType'
    BY <2>1 DEF MapType, ReqType, ObjType, HandleType, DeqType, objVars, staticVars
  <2> QED
    BY <2>2, <2>3, <2>4, <2>5
<1>5. CASE EndTransJob(c)
  <2>1. /\ qTrans[c] # 0 /\ pc[c] = "idle"
        /\ UNCHANGED <<staticVars, req, p, objs, handle, handles, file, deq, history>>
    BY <1>5 DEF EndTransJob, InTrans
  <2>2. /\ MapType' /\ HandleType' /\ DeqType' /\ HistoryType'
    BY <2>1 DEF MapType, HandleType, DeqType, HistoryType, staticVars, history
  <2>3. CASE /\ job' = [job EXCEPT ![k].on = TRUE]
             /\ lockedBy' = [lockedBy EXCEPT ![qTrans[c]] = c]
             /\ pc' = [pc EXCEPT ![c] = "job"]
             /\ UNCHANGED <<qTrans, batch>>
    <3>1. FileType'
      BY <1>1, <2>1, <2>3 DEF FileType
    <3>2. ObjType'
      BY <1>1, <2>1, <2>3 DEF ObjType
    <3>3. TransType' /\ ReqType'
      BY <2>1, <2>3 DEF TransType, ReqType, Steps
    <3>4. pc'[c] = "job" /\ \A d \in Clients : d # c => pc'[d] = pc[d]
      BY <2>3 DEF ReqType
    <3>5. StepType'
      BY <2>1, <2>3, <3>4 DEF StepType
    <3> QED
      BY <2>2, <3>1, <3>2, <3>3, <3>5
  <2>4. CASE DropTrans(c) /\ UNCHANGED <<job, lockedBy, pc>>
    <3>1. TransType' /\ StepType'
      BY <1>3, <2>1, <2>4, DropTransType DEF StepType
    <3>2. FileType' /\ ObjType' /\ ReqType'
      BY <2>1, <2>4 DEF FileType, ObjType, ReqType
    <3> QED
      BY <2>2, <3>1, <3>2
  <2> QED
    BY <1>5, <2>3, <2>4 DEF EndTransJob, k
<1>6. CASE JobFill(c) \/ JobFillPart(c)
  <2>1. /\ pc[c] = "job"
        /\ UNCHANGED <<staticVars, qTrans, batch, req, p, objVars, handle, handles,
                       file, deq, history>>
    BY <1>6 DEF JobFill, JobFillPart
  <2>2. qTrans[c] # 0
    BY <2>1 DEF StepType
  <2>3. PICK ms \in Seq(Msg) : job' = [job EXCEPT ![k].msgs = @ \o ms]
    <3>1. CASE JobFill(c)
      BY <1>2, <3>1 DEF JobFill, k
    <3>2. CASE JobFillPart(c)
      <4>1. PICK n \in 0 .. Len(batch[c]) - 1 :
                job' = [job EXCEPT ![k].msgs = @ \o SubSeq(batch[c], 1, n)]
        BY <3>2 DEF JobFillPart, k
      <4>2. \A i \in 1 .. n : batch[c][i] \in Msg
        <5> SUFFICES ASSUME NEW i \in 1 .. n
                     PROVE  batch[c][i] \in Msg
          OBVIOUS
        <5>1. batch[c] \in Seq(Msg)
          BY <1>2
        <5>2. Len(batch[c]) \in Nat
          BY <5>1, LenProperties
        <5>3. i \in 1 .. Len(batch[c])
          BY <5>2
        <5> QED
          BY <5>1, <5>3, ElementOfSeq
      <4>3. SubSeq(batch[c], 1, n) \in Seq(Msg)
        BY <4>2, SubSeqProperties
      <4> QED
        BY <4>1, <4>3
    <3> QED
      BY <1>6, <3>1, <3>2
  <2>4. FileType'
    <3>1. job[k].msgs \o ms \in Seq(Msg)
      BY <1>1, <2>2, ConcatProperties
    <3> QED
      BY <1>1, <2>1, <2>2, <2>3, <3>1 DEF FileType
  <2>5. PICK s \in {"filled", "failed"} : pc' = [pc EXCEPT ![c] = s]
    BY <1>6 DEF JobFill, JobFillPart
  <2>6. pc'[c] = s /\ \A d \in Clients : d # c => pc'[d] = pc[d]
    BY <2>5 DEF ReqType
  <2>7. StepType'
    BY <2>1, <2>2, <2>6 DEF StepType
  <2>8. ReqType'
    BY <2>1, <2>5 DEF ReqType, Steps, objVars
  <2>9. MapType' /\ TransType' /\ ObjType' /\ HandleType' /\ DeqType' /\ HistoryType'
    BY <2>1 DEF MapType, TransType, ObjType, HandleType, DeqType, HistoryType,
                objVars, staticVars, history
  <2> QED
    BY <2>4, <2>7, <2>8, <2>9
<1>7. CASE JobAbort(c) \/ JobEndFails(c) \/ JobEnd(c)
  <2>1. /\ pc[c] \in {"filled", "failed"} /\ Unlock(c)
        /\ job' = [job EXCEPT ![k] = NoJob]
        /\ UNCHANGED <<staticVars, req, p, objs, handle, handles, deq, msgs,
                       joins, keyOf, delivered, deleted>>
    BY <1>7 DEF JobAbort, JobEndFails, JobEnd, k, history
  <2>2. qTrans[c] # 0
    BY <2>1 DEF StepType
  <2>3. TransType' /\ \A d \in Clients : d # c => qTrans'[d] = qTrans[d]
    BY <1>3, <2>1, DropTransType DEF Unlock
  <2>4. pc'[c] = "idle" /\ \A d \in Clients : d # c => pc'[d] = pc[d]
    BY <2>1 DEF ReqType, Unlock
  <2>5. StepType'
    BY <2>1, <2>3, <2>4 DEF StepType
  <2>6. ReqType'
    BY <2>1 DEF ReqType, Steps, Unlock
  <2>7. ObjType'
    BY <1>1, <2>1, <2>2 DEF ObjType, Unlock
  <2>8. FileType'
    <3>1. file[k] \o job[k].msgs \in Seq(Msg)
      BY <1>1, <2>2, ConcatProperties
    <3>2. file' = file \/ file' = [file EXCEPT ![k] = @ \o job[k].msgs]
      BY <1>7 DEF JobAbort, JobEndFails, JobEnd, k
    <3> QED
      BY <1>2, <2>1, <3>1, <3>2 DEF FileType
  <2>9. HistoryType'
    <3>1. acked' = acked \/ acked' = acked \union Range(batch[c])
      BY <1>7 DEF JobAbort, JobEndFails, JobEnd, history
    <3> QED
      BY <1>2, <2>1, <3>1 DEF HistoryType
  <2>10. MapType' /\ HandleType' /\ DeqType'
    BY <2>1 DEF MapType, HandleType, DeqType, staticVars
  <2> QED
    BY <2>3, <2>5, <2>6, <2>7, <2>8, <2>9, <2>10
<1>8. CASE \E permanent \in BOOLEAN : Close(c, permanent)
  <2>1. PICK permanent \in BOOLEAN : Close(c, permanent)
    BY <1>8
  <2> DEFINE r == req[c].key
  <2>2. /\ pc[c] = "closing" /\ Return(c)
        /\ UNCHANGED <<clients, qTrans, batch, objVars, handles, deq, msgs, joins,
                       keyOf, acked, delivered>>
    BY <2>1 DEF Close
  <2>3. r \in Keys /\ file[r] \in Seq(Msg) /\ <<>> \in Seq(Msg)
    BY <2>2, EmptySeq DEF StepType, Requests, FileType
  <2>4. ReqType' /\ StepType'
    BY <2>2, ReturnType DEF objVars
  <2>5. \/ UNCHANGED <<handle, mapKeyQueue, job, file, deleted>>
        \/ /\ handle' = [handle EXCEPT ![r] = 0]
           /\ mapKeyQueue' = [mapKeyQueue EXCEPT ![r] = 0]
           /\ job' = [job EXCEPT ![r] = NoJob]
           /\ file' = file \/ file' = [file EXCEPT ![r] = <<>>]
           /\ deleted' = deleted \/ deleted' = deleted \union Range(file[r])
    BY <2>1 DEF Close
  <2> HIDE DEF r
  <2>6. MapType' /\ HandleType'
    <3>1. /\ handle' = handle \/ handle' = [handle EXCEPT ![r] = 0]
          /\ mapKeyQueue' = mapKeyQueue
                \/ mapKeyQueue' = [mapKeyQueue EXCEPT ![r] = 0]
      BY <2>5
    <3>2. 0 \in 0 .. Len(objs) /\ 0 \in 0 .. handles
      BY DEF ObjType, HandleType
    <3>3. HandleType'
      BY <2>2, <3>1, <3>2 DEF HandleType
    <3> QED
      BY <2>2, <3>1, <3>2, <3>3 DEF MapType, objVars
  <2>7. FileType'
    <3>1. /\ job' = job \/ job' = [job EXCEPT ![r] = NoJob]
          /\ file' = file \/ file' = [file EXCEPT ![r] = <<>>]
      BY <2>5
    <3>2. job' \in [Keys -> [on : BOOLEAN, msgs : Seq(Msg)]]
      BY <1>2, <3>1 DEF FileType
    <3> QED
      BY <2>3, <3>1, <3>2 DEF FileType
  <2>8. HistoryType'
    <3>1. Range(file[r]) \subseteq Msg
      BY <2>3, RangeOfSeq
    <3> QED
      BY <2>2, <2>5, <3>1 DEF HistoryType
  <2>9. TransType' /\ ObjType' /\ DeqType'
    BY <2>2 DEF TransType, ObjType, DeqType, objVars
  <2> QED
    BY <2>4, <2>6, <2>7, <2>8, <2>9
<1> QED
    BY <1>4, <1>5, <1>6, <1>7, <1>8

LEMMA NextType == TypeOK /\ [Next]_vars => TypeOK'
<1> SUFFICES ASSUME TypeOK, [Next]_vars
             PROVE  TypeOK'
    OBVIOUS
<1>1. CASE UNCHANGED vars
    BY <1>1 DEF vars, staticVars, clientVars, objVars, coreVars, history, TypeOK
<1>2. CASE Next
  <2>1. PICK c \in Clients :
            \/ Request(c) \/ GoOn(c) \/ Confirm(c) \/ OnSwitchFrom(c)
            \/ OnReleaseSource(c)
    BY <1>2 DEF Next
  <2> QED
    BY <2>1, SwitchType, RequestType, GoOnType, CommitType DEF Request, GoOn
<1> QED
    BY <1>1, <1>2

(* The state of the queue service keeps its types: a request that has      *)
(* found or made its object holds one, and so does a transaction whose job *)
(* goes on.                                                                *)
THEOREM TypeCorrect == Spec => []TypeOK
<1>1. Init => TypeOK
    BY InitType
<1>2. TypeOK /\ [Next]_vars => TypeOK'
    BY NextType
<1> QED
    BY <1>1, <1>2, PTL DEF Spec
----------------------------------------------------------------------------
(* Enqueued messages go to the end of the file of the queue, or into its   *)
(* open job.                                                               *)
LEMMA CoreEnqueueProperties ==
    ASSUME FileType, NEW k \in Keys, NEW ms \in Seq(Msg), CoreEnqueue(k, ms)
    PROVE  /\ \A j \in Keys : j # k => file'[j] = file[j] /\ job'[j] = job[j]
           /\ job'[k].on = job[k].on
           /\ IF job[k].on
              THEN /\ file'[k] = file[k]
                   /\ Range(job'[k].msgs) = Range(job[k].msgs) \union Range(ms)
              ELSE /\ job'[k] = job[k]
                   /\ Range(file'[k]) = Range(file[k]) \union Range(ms)
<1>1. /\ job[k].on \in BOOLEAN /\ job[k].msgs \in Seq(Msg) /\ file[k] \in Seq(Msg)
    BY DEF FileType
<1>2. Range(job[k].msgs \o ms) = Range(job[k].msgs) \union Range(ms)
    BY <1>1, RangeConcatenation
<1>3. Range(file[k] \o ms) = Range(file[k]) \union Range(ms)
    BY <1>1, RangeConcatenation
<1>4. CASE job[k].on
  <2>1. job' = [job EXCEPT ![k].msgs = @ \o ms] /\ file' = file
    BY <1>4 DEF CoreEnqueue
  <2>2. job'[k].msgs = job[k].msgs \o ms /\ job'[k].on = job[k].on
    BY <2>1 DEF FileType
  <2>3. \A j \in Keys : j # k => job'[j] = job[j]
    BY <2>1 DEF FileType
  <2> QED
    BY <1>2, <1>4, <2>1, <2>2, <2>3
<1>5. CASE ~job[k].on
  <2>1. file' = [file EXCEPT ![k] = @ \o ms] /\ job' = job
    BY <1>5 DEF CoreEnqueue
  <2>2. /\ file'[k] = file[k] \o ms
        /\ \A j \in Keys : j # k => file'[j] = file[j]
    BY <2>1 DEF FileType
  <2> QED
    BY <1>3, <1>5, <2>1, <2>2
<1> QED
    BY <1>4, <1>5

LEMMA StillKept ==
    ASSUME DequeuedKept, Apart,
           \A c \in Clients : deq'[c] \subseteq deq[c],
           \A k \in Keys : Range(file[k]) \subseteq Range(file'[k])
    PROVE  DequeuedKept' /\ Apart'
<1>1. Taken' \subseteq Taken
    BY DEF Taken
<1> QED
    BY <1>1 DEF DequeuedKept, Apart

(* The actions that only add to the files.                                 *)
LEMMA EnqueueKept ==
    ASSUME DequeueInv, NEW c \in Clients, Enqueue(c) \/ EndTransOne(c) \/ JobEnd(c)
    PROVE  DequeuedKept' /\ Apart'
<1> USE TypeParts DEF TypedParts, DequeueInv
<1>1. deq' = deq
    BY DEF Enqueue, EndTransOne, JobEnd
<1>2. CASE Enqueue(c)
  <2>1. /\ p[c] \in 1 .. Len(objs) /\ objs[p[c]].key \in Keys
        /\ req[c].msgs \in Seq(Msg)
    BY <1>2, ObjProperties DEF Enqueue, StepType, ReqType, Requests, ObjType
  <2>2. file' = file \/ CoreEnqueue(objs[p[c]].key, req[c].msgs)
    BY <1>2 DEF Enqueue
  <2>3. \A k \in Keys : Range(file[k]) \subseteq Range(file'[k])
    BY <2>1, <2>2, CoreEnqueueProperties
  <2> QED
    BY <1>1, <2>3, StillKept
<1>3. CASE EndTransOne(c)
  <2>1. /\ qTrans[c] \in 1 .. Len(objs) /\ objs[qTrans[c]].key \in Keys
        /\ batch[c] \in Seq(Msg)
    BY <1>3, ObjProperties DEF EndTransOne, InTrans, TransType, ObjType
  <2>2. file' = file \/ CoreEnqueue(objs[qTrans[c]].key, batch[c])
    BY <1>3 DEF EndTransOne
  <2>3. \A k \in Keys : Range(file[k]) \subseteq Range(file'[k])
    BY <2>1, <2>2, CoreEnqueueProperties
  <2> QED
    BY <1>1, <2>3, StillKept
<1>4. CASE JobEnd(c)
  <2> DEFINE k == objs[qTrans[c]].key
  <2>1. k \in Keys
    BY <1>4, ObjProperties DEF JobEnd, StepType, TransType, ObjType
  <2>2. file' = [file EXCEPT ![k] = @ \o job[k].msgs]
    BY <1>4 DEF JobEnd
  <2> HIDE DEF k
  <2>3. file[k] \in Seq(Msg) /\ job[k].msgs \in Seq(Msg)
    BY <2>1 DEF FileType
  <2>4. Range(file[k] \o job[k].msgs) = Range(file[k]) \union Range(job[k].msgs)
    BY <2>3, RangeConcatenation
  <2>5. \A j \in Keys : Range(file[j]) \subseteq Range(file'[j])
    BY <2>1, <2>2, <2>4 DEF FileType
  <2> QED
    BY <1>1, <2>5, StillKept
<1> QED
    BY <1>2, <1>3, <1>4

(* A consumer is sent a message that nobody has.                           *)
LEMMA DequeueKept ==
    ASSUME DequeueInv, NEW c \in Clients, Dequeue(c)
    PROVE  DequeuedKept' /\ Apart'
<1> USE TypeParts DEF TypedParts, DequeueInv
<1> DEFINE k == objs[p[c]].key
           q == file[k]
<1>1. k \in Keys /\ q \in Seq(Msg) /\ DOMAIN q = 1 .. Len(q)
  <2>1. k \in Keys
    BY ObjProperties DEF Dequeue, StepType, ReqType, ObjType
  <2> QED
    BY <2>1, LenProperties DEF FileType
<1>2. file' = file
    BY DEF Dequeue
<1>3. CASE deq' = deq
    BY <1>2, <1>3, StillKept
<1>4. CASE \E i \in 1 .. Len(q) :
                q[i] \notin Taken /\ deq' = [deq EXCEPT ![c] = @ \union {q[i]}]
  <2>1. PICK i \in 1 .. Len(q) :
                q[i] \notin Taken /\ deq' = [deq EXCEPT ![c] = @ \union {q[i]}]
    BY <1>4
  <2>2. q[i] \in Range(file[k])
    BY <1>1 DEF Range
  <2> HIDE DEF k, q
  <2>3. /\ deq'[c] = deq[c] \union {q[i]}
        /\ \A d \in Clients : d # c => deq'[d] = deq[d]
    BY <2>1 DEF DeqType
  <2>4. Taken' = Taken \union {q[i]}
    BY <2>3 DEF Taken
  <2>5. DequeuedKept'
    BY <1>1, <1>2, <2>2, <2>4 DEF DequeuedKept
  <2>6. \A d \in Clients : q[i] \notin deq[d]
    BY <2>1 DEF Taken
  <2>7. Apart'
    BY <2>3, <2>6 DEF Apart
  <2> QED
    BY <2>5, <2>7
<1> QED
    BY <1>3, <1>4 DEF Dequeue

(* A consumer confirms its own message; the others' stay in the files.     *)
LEMMA ConfirmKept ==
    ASSUME DequeueInv, NEW c \in Clients, Confirm(c)
    PROVE  DequeuedKept' /\ Apart'
<1> USE TypeParts DEF TypedParts, DequeueInv
<1>1. PICK m \in deq[c], k \in Keys :
            /\ deq' = [deq EXCEPT ![c] = @ \ {m}]
            /\ \E i \in 1 .. Len(file[k]) :
                file[k][i] = m /\ file' = [file EXCEPT ![k] = RemoveAt(@, i)]
    BY DEF Confirm
<1>2. PICK i \in 1 .. Len(file[k]) :
            file[k][i] = m /\ file' = [file EXCEPT ![k] = RemoveAt(@, i)]
    BY <1>1
<1>3. Range(file[k]) \subseteq Range(RemoveAt(file[k], i)) \union {m}
    BY <1>2, RemoveAtRange DEF FileType
<1>4. \A j \in Keys : Range(file[j]) \subseteq Range(file'[j]) \union {m}
    BY <1>2, <1>3 DEF FileType
<1>5. /\ deq'[c] = deq[c] \ {m}
      /\ \A d \in Clients : d # c => deq'[d] = deq[d]
    BY <1>1 DEF DeqType
<1>6. \A d \in Clients : d # c => m \notin deq[d]
    BY DEF Apart
<1>7. Taken' \subseteq Taken \ {m}
    BY <1>5, <1>6 DEF Taken
<1>8. DequeuedKept'
    BY <1>4, <1>7 DEF DequeuedKept
<1>9. Apart'
    BY <1>5 DEF Apart
<1> QED
    BY <1>8, <1>9

(* Close deletes no file that is being dequeued.                           *)
LEMMA CloseKept ==
    ASSUME DequeueInv, NEW c \in Clients, NEW permanent \in BOOLEAN,
           Close(c, permanent)
    PROVE  DequeuedKept' /\ Apart'
<1> USE TypeParts DEF TypedParts, DequeueInv
<1> DEFINE k == req[c].key
<1>1. deq' = deq
    BY DEF Close
<1>2. k \in Keys
    BY DEF Close, StepType, Requests
<1>3. CASE file' = file
    BY <1>1, <1>3, StillKept
<1>4. CASE file' = [file EXCEPT ![k] = <<>>] /\ ~Dequeuing(k)
  <2>1. \A j \in Keys : j # k => file'[j] = file[j]
    BY <1>2, <1>4 DEF FileType
  <2>2. \A m \in Taken : m \notin Range(file[k])
    BY <1>4 DEF Dequeuing
  <2>3. Taken' = Taken
    BY <1>1 DEF Taken
  <2> HIDE DEF k
  <2>4. DequeuedKept'
    BY <2>1, <2>2, <2>3 DEF DequeuedKept
  <2> QED
    BY <1>1, <2>4 DEF Apart
<1> QED
    BY <1>3, <1>4 DEF Close, MayStop

LEMMA NextKept == DequeueInv /\ [Next]_vars => DequeueInv'
<1> SUFFICES ASSUME DequeueInv, [Next]_vars
             PROVE  DequeueInv'
    OBVIOUS
<1>1. TypeOK'
    BY NextType DEF DequeueInv
<1>2. CASE UNCHANGED <<deq, file>>
    BY <1>1, <1>2, StillKept DEF DequeueInv
<1>3. CASE \E c \in Clients : OnReleaseSource(c)
  <2>1. PICK c \in Clients : OnReleaseSource(c)
    BY <1>3
  <2>2. file' = file /\ \A d \in Clients : deq'[d] \subseteq deq[d]
    BY <2>1, TypeParts DEF OnReleaseSource, DequeueInv, TypedParts, DeqType
  <2> QED
    BY <1>1, <2>2, StillKept DEF DequeueInv
<1>4. CASE \E c \in Clients : Enqueue(c) \/ EndTransOne(c) \/ JobEnd(c)
    BY <1>1, <1>4, EnqueueKept DEF DequeueInv
<1>5. CASE \E c \in Clients : Dequeue(c)
    BY <1>1, <1>5, DequeueKept DEF DequeueInv
<1>6. CASE \E c \in Clients : Confirm(c)
    BY <1>1, <1>6, ConfirmKept DEF DequeueInv
<1>7. CASE \E c \in Clients, permanent \in BOOLEAN : Close(c, permanent)
    BY <1>1, <1>7, CloseKept DEF DequeueInv
<1>8. CASE \E c \in Clients :
            \/ \E k \in Keys : \/ \E n \in 1 .. 2 : EnqueueFind(c, k, n)
                               \/ DequeueFind(c, k) \/ StartTrans(c, k)
                               \/ CloseDrop(c, k)
            \/ EndTransDrop(c) \/ EndTransJob(c) \/ OnBaseRequestArrive(c)
            \/ Make(c) \/ MakeFails(c) \/ Register(c) \/ DequeueCount(c)
            \/ JobFill(c) \/ JobFillPart(c) \/ JobAbort(c) \/ JobEndFails(c)
            \/ OnSwitchFrom(c)
  <2>1. ASSUME NEW c \in Clients, NEW k \in Keys,
               \/ \E n \in 1 .. 2 : EnqueueFind(c, k, n)
               \/ DequeueFind(c, k) \/ StartTrans(c, k) \/ CloseDrop(c, k)
        PROVE  UNCHANGED <<deq, file>>
    BY <2>1 DEF EnqueueFind, DequeueFind, StartTrans, CloseDrop, coreVars
  <2>2. ASSUME NEW c \in Clients,
               \/ EndTransDrop(c) \/ EndTransJob(c) \/ OnBaseRequestArrive(c)
               \/ Make(c) \/ MakeFails(c) \/ Register(c) \/ DequeueCount(c)
               \/ JobFill(c) \/ JobFillPart(c) \/ JobAbort(c) \/ JobEndFails(c)
               \/ OnSwitchFrom(c)
        PROVE  UNCHANGED <<deq, file>>
    BY <2>2 DEF EndTransDrop, EndTransJob, OnBaseRequestArrive, Make, MakeFails,
                Register, DequeueCount, JobFill, JobFillPart, JobAbort,
                JobEndFails, OnSwitchFrom, coreVars
  <2> QED
    BY <1>2, <1>8, <2>1, <2>2
<1>9. CASE UNCHANGED vars
    BY <1>2, <1>9 DEF vars, coreVars
<1> QED
    BY <1>3, <1>4, <1>5, <1>6, <1>7, <1>8, <1>9 DEF Next, Request, GoOn

(* What a consumer is being sent stays in a queue file until it confirms   *)
(* it, for every timing of the clients and also when the disk fails: no    *)
(* Close takes it away, and no other consumer gets it.                     *)
THEOREM DequeuedStays == Spec => []DequeuedKept
<1>1. Init => DequeueInv
  <2>1. Init => DequeuedKept /\ Apart
    BY DEF Init, DequeuedKept, Apart, Taken
  <2> QED
    BY <2>1, InitType DEF DequeueInv
<1>2. DequeueInv /\ [Next]_vars => DequeueInv'
    BY NextKept
<1>3. DequeueInv => DequeuedKept
    BY DEF DequeueInv
<1> QED
    BY <1>1, <1>2, <1>3, PTL DEF Spec
----------------------------------------------------------------------------
(* When use_count of the object in the map is 1, nobody else has it.       *)
LEMMA OnlyTheMap ==
    ASSUME TypeOK, NEW k \in Keys, UseCount(mapKeyQueue[k]) = 1
    PROVE  \A c \in Clients : qTrans[c] # mapKeyQueue[k] /\ p[c] # mapKeyQueue[k]
<1> DEFINE o == mapKeyQueue[k]
           A == {j \in Keys : mapKeyQueue[j] = o}
           B == {c \in Clients : qTrans[c] = o}
           C == {c \in Clients : p[c] = o}
<1>1. IsFiniteSet(A) /\ IsFiniteSet(B) /\ IsFiniteSet(C)
    BY Constants, FS_Subset
<1>2. Cardinality(A) \in Nat /\ Cardinality(B) \in Nat /\ Cardinality(C) \in Nat
    BY <1>1, FS_CardinalityType
<1>3. Cardinality(A) # 0
    BY <1>1, FS_EmptySet
<1>4. Cardinality(A) + Cardinality(B) + Cardinality(C) = 1
    BY DEF UseCount
<1> HIDE DEF A, B, C
<1>5. Cardinality(B) = 0 /\ Cardinality(C) = 0
    BY <1>2, <1>3, <1>4
<1>6. B = {} /\ C = {}
    BY <1>1, <1>5, FS_EmptySet
<1> QED
    BY <1>6 DEF B, C

(* A step that makes and registers nothing, and after which every client   *)
(* has at most what it had, keeps the invariant.                           *)
LessUsed ==
    /\ UNCHANGED <<mapKeyQueue, objs, handle>>
    /\ clients \subseteq clients'
    /\ \A d \in Clients :
        /\ qTrans'[d] \in {0, qTrans[d]}
        /\ \/ pc'[d] = pc[d] /\ p'[d] = p[d] /\ req'[d] = req[d]
           \/ /\ d \in clients /\ p'[d] = 0
              /\ pc'[d] \in {"idle", "closing", "job", "filled", "failed"}
           \/ pc[d] = "ready" /\ pc'[d] = "counting" /\ p'[d] = p[d]

LEMMA LessUsedOpen ==
    ASSUME OpenInv, LessUsed
    PROVE  Pointers' /\ Registered'
<1> USE DEF OpenInv, LessUsed
<1>1. Pointers'
    BY DEF Pointers
<1>2. \A o : IsOpen(o)' <=> IsOpen(o)
    BY DEF IsOpen
<1>3. \A k \in Keys : mapKeyQueue'[k] # 0 =>
            objs'[mapKeyQueue'[k]].key = k /\ IsOpen(mapKeyQueue[k])'
    BY <1>2 DEF Registered
<1>4. \A c \in Clients : qTrans'[c] # 0 =>
            mapKeyQueue'[objs'[qTrans'[c]].key] = qTrans'[c]
    BY DEF Registered
<1>5. \A c \in Clients : pc'[c] \in {"ready", "counting"} =>
            mapKeyQueue'[objs'[p'[c]].key] = p'[c]
    BY DEF Registered
<1>6. \A c \in Clients : pc'[c] \in {"missing", "created"} =>
            pc[c] = pc'[c] /\ p[c] = p'[c] /\ req[c] = req'[c]
    OBVIOUS
<1>7. \A c \in Clients : pc'[c] = "created" =>
            objs'[p'[c]].key = req'[c].key /\ IsOpen(p[c])'
    BY <1>2, <1>6 DEF Registered, IsOpen
<1>8. \A k \in Keys : Opening(k)' \subseteq Opening(k)
    BY <1>6 DEF Opening
<1> QED
    BY <1>1, <1>3, <1>4, <1>5, <1>6, <1>7, <1>8 DEF Registered

(* The actions of this kind.                                               *)
LEMMA LessUsedActions ==
    ASSUME TypeOK, Pointers, NEW c \in Clients,
           \/ OnSwitchFrom(c) \/ OnBaseRequestArrive(c) \/ EndTransDrop(c)
           \/ EndTransOne(c) \/ EndTransJob(c) \/ (\E k \in Keys : CloseDrop(c, k))
           \/ MakeFails(c) \/ Enqueue(c) \/ Dequeue(c) \/ DequeueCount(c)
           \/ JobFill(c) \/ JobFillPart(c) \/ JobAbort(c) \/ JobEnd(c)
           \/ JobEndFails(c) \/ Confirm(c)
    PROVE  LessUsed
<1> USE TypeParts DEF TypedParts
<1>1. qTrans \in [Clients -> 0 .. Len(objs)] /\ p \in [Clients -> 0 .. Len(objs)]
      /\ pc \in [Clients -> Steps] /\ req \in [Clients -> Requests \union {NoReq}]
    BY DEF TransType, ReqType
<1>2. DropTrans(c) => /\ qTrans'[c] = 0
                      /\ \A d \in Clients : d # c => qTrans'[d] = qTrans[d]
    BY <1>1 DEF DropTrans
<1>3. Return(c) => /\ pc'[c] = "idle" /\ p'[c] = 0
                   /\ \A d \in Clients : d # c =>
                        pc'[d] = pc[d] /\ p'[d] = p[d] /\ req'[d] = req[d]
    BY <1>1 DEF Return
<1>4. pc[c] # "idle" => c \in clients
    BY DEF Pointers
<1>5. CASE OnSwitchFrom(c) \/ Confirm(c)
    BY <1>5 DEF OnSwitchFrom, Confirm, LessUsed, staticVars, clientVars, objVars,
                coreVars
<1>6. CASE OnBaseRequestArrive(c) \/ EndTransDrop(c) \/ EndTransOne(c)
  <2>1. /\ DropTrans(c)
        /\ UNCHANGED <<staticVars, pc, req, p, objVars, handle>>
    BY <1>6 DEF OnBaseRequestArrive, EndTransDrop, EndTransOne, coreVars
  <2> QED
    BY <1>2, <2>1 DEF LessUsed, staticVars, objVars
<1>7. CASE EndTransJob(c)
  <2>1. /\ c \in clients /\ pc[c] = "idle"
        /\ UNCHANGED <<staticVars, req, p, objs, handle>>
    BY <1>7 DEF EndTransJob, InTrans
  <2>2. p[c] = 0
    BY <2>1 DEF Pointers
  <2>3. CASE DropTrans(c) /\ UNCHANGED pc
    BY <1>2, <2>1, <2>3 DEF LessUsed, staticVars
  <2>4. CASE pc' = [pc EXCEPT ![c] = "job"] /\ UNCHANGED qTrans
    <3>1. pc'[c] = "job" /\ \A d \in Clients : d # c => pc'[d] = pc[d]
      BY <1>1, <2>4
    <3> QED
      BY <2>1, <2>2, <2>4, <3>1 DEF LessUsed, staticVars
  <2> QED
    BY <1>7, <2>3, <2>4 DEF EndTransJob
<1>8. CASE \E k \in Keys : CloseDrop(c, k)
  <2>1. PICK k \in Keys : CloseDrop(c, k)
    BY <1>8
  <2>2. /\ c \in clients /\ pc[c] = "idle" /\ DropTrans(c)
        /\ pc' = [pc EXCEPT ![c] = "closing"]
        /\ UNCHANGED <<staticVars, p, objVars, coreVars>>
    BY <2>1 DEF CloseDrop, Arrives
  <2>3. \A d \in Clients : d # c => req'[d] = req[d]
    BY <1>1, <2>1 DEF CloseDrop
  <2>4. p[c] = 0
    BY <2>2 DEF Pointers
  <2>5. pc'[c] = "closing" /\ \A d \in Clients : d # c => pc'[d] = pc[d]
    BY <1>1, <2>2
  <2> QED
    BY <1>2, <2>2, <2>3, <2>4, <2>5 DEF LessUsed, staticVars, objVars, coreVars
<1>9. CASE MakeFails(c) \/ Enqueue(c) \/ DequeueCount(c)
  <2>1. /\ pc[c] # "idle" /\ Return(c)
        /\ UNCHANGED <<staticVars, qTrans, objVars, handle>>
    BY <1>9 DEF MakeFails, Enqueue, DequeueCount, coreVars
  <2> QED
    BY <1>3, <1>4, <2>1 DEF LessUsed, staticVars, objVars
<1>10. CASE Dequeue(c)
  <2>1. /\ pc[c] = "ready" /\ pc' = [pc EXCEPT ![c] = "counting"]
        /\ UNCHANGED <<staticVars, qTrans, req, p, objVars, handle>>
    BY <1>10 DEF Dequeue
  <2>2. pc'[c] = "counting" /\ \A d \in Clients : d # c => pc'[d] = pc[d]
    BY <1>1, <2>1
  <2> QED
    BY <2>1, <2>2 DEF LessUsed, staticVars, objVars
<1>11. CASE JobFill(c) \/ JobFillPart(c)
  <2>1. /\ pc[c] = "job"
        /\ pc' = [pc EXCEPT ![c] = "filled"] \/ pc' = [pc EXCEPT ![c] = "failed"]
        /\ UNCHANGED <<staticVars, qTrans, req, p, objVars, handle>>
    BY <1>11 DEF JobFill, JobFillPart
  <2>2. p[c] = 0
    BY <2>1 DEF Pointers
  <2>3. /\ pc'[c] \in {"filled", "failed"}
        /\ \A d \in Clients : d # c => pc'[d] = pc[d]
    BY <1>1, <2>1
  <2> QED
    BY <1>4, <2>1, <2>2, <2>3 DEF LessUsed, staticVars, objVars
<1>12. CASE JobAbort(c) \/ JobEnd(c) \/ JobEndFails(c)
  <2>1. /\ pc[c] \in {"filled", "failed"} /\ DropTrans(c)
        /\ pc' = [pc EXCEPT ![c] = "idle"]
        /\ UNCHANGED <<staticVars, req, p, objs, handle>>
    BY <1>12 DEF JobAbort, JobEnd, JobEndFails, Unlock
  <2>2. p[c] = 0
    BY <2>1 DEF Pointers
  <2>3. pc'[c] = "idle" /\ \A d \in Clients : d # c => pc'[d] = pc[d]
    BY <1>1, <2>1
  <2> QED
    BY <1>2, <1>4, <2>1, <2>2, <2>3 DEF LessUsed, staticVars
<1> QED
    BY <1>5, <1>6, <1>7, <1>8, <1>9, <1>10, <1>11, <1>12

(* The last client leaves: the map is emptied, and nobody has an object.   *)
LEMMA ReleaseOpen ==
    ASSUME OpenInv, NEW c \in Clients, OnReleaseSource(c)
    PROVE  Pointers' /\ Registered'
<1> USE TypeParts DEF TypedParts, OpenInv
<1>1. /\ pc[c] = "idle" /\ c \in clients /\ clients' = clients \ {c}
      /\ mapKeyQueue' = IF clients' = {} THEN [k \in Keys |-> 0] ELSE mapKeyQueue
      /\ UNCHANGED <<pc, req, p, objs, handle>>
    BY DEF OnReleaseSource, objVars
<1>2. qTrans'[c] = 0 /\ \A d \in Clients : d # c => qTrans'[d] = qTrans[d]
    BY DEF OnReleaseSource, DropTrans, TransType
<1>3. Pointers'
    BY <1>1, <1>2 DEF Pointers
<1>4. \A o : IsOpen(o)' <=> IsOpen(o)
    BY <1>1 DEF IsOpen
<1>5. \A k \in Keys : Opening(k)' = Opening(k)
    BY <1>1 DEF Opening
<1>6. CASE clients' # {}
  <2>1. mapKeyQueue' = mapKeyQueue
    BY <1>1, <1>6
  <2> QED
    BY <1>1, <1>2, <1>3, <1>4, <1>5, <2>1 DEF Registered, IsOpen
<1>7. CASE clients' = {}
  <2>1. \A d \in Clients : d # c => d \notin clients
    BY <1>1, <1>7
  <2>2. \A d \in Clients : pc[d] = "idle" /\ qTrans'[d] = 0
    BY <1>1, <1>2, <2>1 DEF Pointers
  <2>3. \A k \in Keys : mapKeyQueue'[k] = 0
    BY <1>1, <1>7
  <2> QED
    BY <1>1, <1>3, <1>5, <2>2, <2>3 DEF Registered
<1> QED
    BY <1>6, <1>7

(* Requests find the object of their key, or none.                         *)
LEMMA FindOpen ==
    ASSUME SoloCreate, OpenInv, NEW c \in Clients, NEW k \in Keys,
           (\E n \in 1 .. 2 : EnqueueFind(c, k, n)) \/ DequeueFind(c, k)
    PROVE  Pointers' /\ Registered'
<1> USE TypeParts DEF TypedParts, OpenInv
<1>1. PICK o \in 0 .. Len(objs) :
        /\ Find(c, o)
        /\ o # 0 => mapKeyQueue[objs[o].key] = o
        /\ o = 0 => mapKeyQueue[k] = 0
  <2>1. CASE \E n \in 1 .. 2 : EnqueueFind(c, k, n)
    <3> DEFINE o == IF qTrans[c] # 0 THEN qTrans[c] ELSE mapKeyQueue[k]
    <3>1. o \in 0 .. Len(objs) /\ Find(c, o)
      BY <2>1 DEF EnqueueFind, MapType, TransType
    <3>2. o # 0 => mapKeyQueue[objs[o].key] = o
      BY DEF Registered
    <3> QED
      BY <3>1, <3>2
  <2>2. CASE DequeueFind(c, k)
    <3>1. mapKeyQueue[k] \in 0 .. Len(objs) /\ Find(c, mapKeyQueue[k])
      BY <2>2 DEF DequeueFind, MapType
    <3>2. mapKeyQueue[k] # 0 => objs[mapKeyQueue[k]].key = k
      BY DEF Registered
    <3> QED
      BY <3>1, <3>2
  <2> QED
    BY <2>1, <2>2
<1>2. /\ c \in clients /\ pc[c] = "idle" /\ Opening(k) = {}
      /\ req'[c].key = k /\ \A d \in Clients : d # c => req'[d] = req[d]
      /\ UNCHANGED <<clients, mapKeyQueue, qTrans, objs, handle>>
    BY DEF EnqueueFind, DequeueFind, Arrives, ReqType, staticVars, objVars, coreVars
<1>3. /\ p'[c] = o /\ pc'[c] = IF o # 0 THEN "ready" ELSE "missing"
      /\ \A d \in Clients : d # c => p'[d] = p[d] /\ pc'[d] = pc[d]
    BY <1>1 DEF Find, ReqType
<1>4. Pointers'
    BY <1>2, <1>3 DEF Pointers
<1>5. \A i : IsOpen(i)' <=> IsOpen(i)
    BY <1>2 DEF IsOpen
<1>6. \A j \in Keys : Opening(j)' \subseteq IF j = k THEN {c} ELSE Opening(j)
    BY <1>2, <1>3 DEF Opening
<1>7. \A j \in Keys : \A d, e \in Opening(j)' : d = e
    BY <1>6 DEF Registered
<1>8. \A d \in Clients : pc'[d] = "created" =>
        pc[d] = "created" /\ p'[d] = p[d] /\ req'[d] = req[d]
    BY <1>3, <1>2
<1>9. \A d \in Clients : pc'[d] = "created" =>
        objs'[p'[d]].key = req'[d].key /\ IsOpen(p[d])'
    BY <1>2, <1>5, <1>8 DEF Registered, IsOpen
<1>10. \A d \in Clients : pc'[d] \in {"ready", "counting"} =>
        mapKeyQueue'[objs'[p'[d]].key] = p'[d]
    BY <1>1, <1>2, <1>3 DEF Registered
<1>11. \A d \in Clients : pc'[d] \in {"missing", "created"} =>
        mapKeyQueue'[req'[d].key] = 0
    BY <1>1, <1>2, <1>3 DEF Registered
<1>12. \A j \in Keys : mapKeyQueue'[j] # 0 =>
            objs'[mapKeyQueue'[j]].key = j /\ IsOpen(mapKeyQueue[j])'
    BY <1>2, <1>5 DEF Registered, IsOpen
<1> QED
    BY <1>2, <1>4, <1>7, <1>9, <1>10, <1>11, <1>12 DEF Registered

(* Making an object for a key that nobody uses disturbs no other object.   *)
LEMMA ConstructOpen ==
    ASSUME OpenInv, NEW k \in Keys, NEW o \in Obj, Construct(k, o)
    PROVE  /\ o = Len(objs) + 1 /\ objs'[o].key = k /\ IsOpen(o)'
           /\ \A i \in 1 .. Len(objs) : objs'[i] = objs[i]
           /\ \A i \in 1 .. Len(objs) :
                objs[i].key # k => (IsOpen(i)' <=> IsOpen(i))
<1> USE TypeParts DEF TypedParts, OpenInv
<1>1. /\ o = Len(objs) + 1
      /\ \A i \in 1 .. Len(objs) : objs'[i] = objs[i]
      /\ objs'[o].key = k /\ objs'[o].handle = handle'[k]
      /\ handle' = [handle EXCEPT ![k] = handle'[k]]
    BY ConstructProperties
<1>2. \A j \in Keys : j # k => handle'[j] = handle[j]
    BY <1>1 DEF HandleType
<1>3. \A i \in 1 .. Len(objs) : objs[i].key \in Keys
    BY ObjProperties
<1> QED
    BY <1>1, <1>2, <1>3 DEF IsOpen

LEMMA MakeOpen ==
    ASSUME OpenInv, NEW c \in Clients, Make(c)
    PROVE  Pointers' /\ Registered'
<1> USE TypeParts DEF TypedParts, OpenInv
<1> DEFINE k == req[c].key
<1>1. PICK o \in Obj : Construct(k, o) /\ p' = [p EXCEPT ![c] = o]
    BY DEF Make
<1>2. /\ pc[c] = "missing" /\ pc' = [pc EXCEPT ![c] = "created"]
      /\ UNCHANGED <<clients, mapKeyQueue, qTrans, req>>
    BY DEF Make, staticVars
<1>3. k \in Keys /\ mapKeyQueue[k] = 0 /\ c \in Opening(k)
    BY <1>2 DEF StepType, Requests, Registered, Opening
<1> HIDE DEF k
<1>4. /\ o = Len(objs) + 1 /\ objs'[o].key = k /\ IsOpen(o)'
      /\ \A i \in 1 .. Len(objs) : objs'[i] = objs[i]
      /\ \A i \in 1 .. Len(objs) : objs[i].key # k => (IsOpen(i)' <=> IsOpen(i))
    BY <1>1, <1>3, ConstructOpen
<1>5. /\ pc'[c] = "created" /\ p'[c] = o
      /\ \A d \in Clients : d # c => pc'[d] = pc[d] /\ p'[d] = p[d]
    BY <1>1, <1>2 DEF ReqType
<1>6. Pointers'
    BY <1>2, <1>5 DEF Pointers
<1>7. \A j \in Keys : mapKeyQueue'[j] # 0 =>
            objs'[mapKeyQueue'[j]].key = j /\ IsOpen(mapKeyQueue[j])'
  <2>1. SUFFICES ASSUME NEW j \in Keys, mapKeyQueue[j] # 0
                 PROVE  objs'[mapKeyQueue[j]].key = j /\ IsOpen(mapKeyQueue[j])'
    BY <1>2
  <2>2. /\ mapKeyQueue[j] \in 1 .. Len(objs) /\ j # k
        /\ objs[mapKeyQueue[j]].key = j /\ IsOpen(mapKeyQueue[j])
    BY <1>3, <2>1 DEF MapType, ObjType, Registered
  <2> QED
    BY <1>2, <1>4, <2>2 DEF IsOpen
<1>8. \A d \in Clients : qTrans'[d] # 0 =>
            mapKeyQueue'[objs'[qTrans'[d]].key] = qTrans'[d]
  <2>1. \A d \in Clients : qTrans[d] # 0 => qTrans[d] \in 1 .. Len(objs)
    BY DEF TransType, ObjType
  <2> QED
    BY <1>2, <1>4, <2>1 DEF Registered
<1>9. \A d \in Clients : pc[d] \in {"created", "ready", "counting"} =>
            p[d] \in 1 .. Len(objs)
    BY DEF ReqType, StepType, ObjType
<1>10. \A d \in Clients : pc'[d] \in {"ready", "counting"} =>
            mapKeyQueue'[objs'[p'[d]].key] = p'[d]
    BY <1>2, <1>4, <1>5, <1>9 DEF Registered
<1>11. \A d \in Clients : pc'[d] \in {"missing", "created"} =>
            mapKeyQueue'[req'[d].key] = 0
    BY <1>2, <1>3, <1>5 DEF Registered, k
<1>12. \A d \in Clients : pc'[d] = "created" =>
            objs'[p'[d]].key = req'[d].key /\ IsOpen(p[d])'
  <2>1. SUFFICES ASSUME NEW d \in Clients, pc'[d] = "created"
                 PROVE  objs'[p'[d]].key = req'[d].key /\ IsOpen(p[d])'
    OBVIOUS
  <2>2. CASE d = c
    BY <1>2, <1>4, <1>5, <2>2 DEF IsOpen, k
  <2>3. CASE d # c
    <3>1. pc[d] = "created" /\ p'[d] = p[d] /\ p[d] \in 1 .. Len(objs)
      BY <1>5, <1>9, <2>1, <2>3
    <3>2. req[d].key # k
      BY <1>3, <2>3, <3>1 DEF Registered, Opening
    <3>3. objs[p[d]].key = req[d].key /\ IsOpen(p[d])
      BY <3>1 DEF Registered
    <3> QED
      BY <1>2, <1>4, <3>1, <3>2, <3>3 DEF IsOpen
  <2> QED
    BY <2>2, <2>3
<1>13. \A j \in Keys : Opening(j)' \subseteq Opening(j)
    BY <1>2, <1>5 DEF Opening
<1> QED
    BY <1>6, <1>7, <1>8, <1>10, <1>11, <1>12, <1>13 DEF Registered

(* The client that opens the key puts its object into the map.             *)
LEMMA RegisterOpen ==
    ASSUME OpenInv, NEW c \in Clients, Register(c)
    PROVE  Pointers' /\ Registered'
<1> USE TypeParts DEF TypedParts, OpenInv
<1> DEFINE k == req[c].key
<1>1. /\ pc[c] = "created" /\ pc' = [pc EXCEPT ![c] = "ready"]
      /\ mapKeyQueue' = [mapKeyQueue EXCEPT ![k] = p[c]]
      /\ UNCHANGED <<clients, qTrans, req, p, objs, handle>>
    BY DEF Register, objVars, coreVars
<1>2. /\ k \in Keys /\ mapKeyQueue[k] = 0 /\ c \in Opening(k)
      /\ objs[p[c]].key = k /\ IsOpen(p[c])
    BY <1>1 DEF StepType, Requests, Registered, Opening
<1> HIDE DEF k
<1>3. /\ mapKeyQueue'[k] = p[c]
      /\ \A j \in Keys : j # k => mapKeyQueue'[j] = mapKeyQueue[j]
    BY <1>1, <1>2 DEF MapType
<1>4. pc'[c] = "ready" /\ \A d \in Clients : d # c => pc'[d] = pc[d]
    BY <1>1 DEF ReqType
<1>5. Pointers'
    BY <1>1, <1>4 DEF Pointers
<1>6. \A i : IsOpen(i)' <=> IsOpen(i)
    BY <1>1 DEF IsOpen
<1>7. \A j \in Keys : mapKeyQueue'[j] # 0 =>
            objs'[mapKeyQueue'[j]].key = j /\ IsOpen(mapKeyQueue[j])'
    BY <1>1, <1>2, <1>3 DEF Registered, IsOpen
<1>8. \A i \in 1 .. Len(objs) : mapKeyQueue[objs[i].key] = i =>
            mapKeyQueue'[objs[i].key] = i
    BY <1>2, <1>3, ObjProperties
<1>9. \A d \in Clients : qTrans'[d] # 0 =>
            mapKeyQueue'[objs'[qTrans'[d]].key] = qTrans'[d]
  <2>1. \A d \in Clients : qTrans[d] # 0 => qTrans[d] \in 1 .. Len(objs)
    BY DEF TransType, ObjType
  <2> QED
    BY <1>1, <1>8, <2>1 DEF Registered
<1>10. \A d \in Clients : pc'[d] \in {"ready", "counting"} =>
            mapKeyQueue'[objs'[p'[d]].key] = p'[d]
  <2>1. \A d \in Clients : pc[d] \in {"ready", "counting"} => p[d] \in 1 .. Len(objs)
    BY DEF ReqType, StepType, ObjType
  <2> QED
    BY <1>1, <1>2, <1>3, <1>4, <1>8, <2>1 DEF Registered
<1>11. \A d \in Clients : pc'[d] \in {"missing", "created"} =>
            d # c /\ pc[d] = pc'[d] /\ req[d].key # k /\ req[d].key \in Keys
    BY <1>2, <1>4 DEF Registered, Opening, StepType, Requests
<1>12. \A d \in Clients : pc'[d] \in {"missing", "created"} =>
            mapKeyQueue'[req'[d].key] = 0
    BY <1>1, <1>3, <1>11 DEF Registered
<1>13. \A d \in Clients : pc'[d] = "created" =>
            objs'[p'[d]].key = req'[d].key /\ IsOpen(p[d])'
    BY <1>1, <1>11 DEF Registered, IsOpen
<1>14. \A j \in Keys : Opening(j)' \subseteq Opening(j)
    BY <1>1, <1>4 DEF Opening
<1> QED
    BY <1>5, <1>7, <1>9, <1>10, <1>12, <1>13, <1>14 DEF Registered

(* StartTrans finds the object in the map, or makes and registers it in    *)
(* one step.                                                               *)
LEMMA StartTransOpen ==
    ASSUME SoloCreate, OpenInv, NEW c \in Clients, NEW k \in Keys, StartTrans(c, k)
    PROVE  Pointers' /\ Registered'
<1> USE TypeParts DEF TypedParts, OpenInv
<1>1. PICK o \in Obj :
        /\ \/ mapKeyQueue[k] = o /\ UNCHANGED <<mapKeyQueue, objs, handle>>
           \/ /\ mapKeyQueue[k] = 0 /\ Construct(k, o)
              /\ mapKeyQueue' = [mapKeyQueue EXCEPT ![k] = o]
        /\ qTrans' = [qTrans EXCEPT ![c] = o]
    BY DEF StartTrans
<1>2. /\ c \in clients /\ Opening(k) = {}
      /\ UNCHANGED <<clients, pc, req, p>>
    BY DEF StartTrans, Arrives
<1>3. qTrans'[c] = o /\ \A d \in Clients : d # c => qTrans'[d] = qTrans[d]
    BY <1>1 DEF TransType
<1>4. Pointers'
    BY <1>2, <1>3 DEF Pointers
<1>5. \A j \in Keys : Opening(j)' = Opening(j)
    BY <1>2 DEF Opening
<1>6. CASE mapKeyQueue[k] = o /\ UNCHANGED <<mapKeyQueue, objs, handle>>
  <2>1. \A i : IsOpen(i)' <=> IsOpen(i)
    BY <1>6 DEF IsOpen
  <2>2. \A d \in Clients : qTrans'[d] # 0 =>
            mapKeyQueue'[objs'[qTrans'[d]].key] = qTrans'[d]
    BY <1>3, <1>6 DEF Registered
  <2>3. \A j \in Keys : mapKeyQueue'[j] # 0 =>
            objs'[mapKeyQueue'[j]].key = j /\ IsOpen(mapKeyQueue[j])'
    BY <1>6 DEF Registered, IsOpen
  <2>4. \A d \in Clients : pc'[d] = "created" =>
            objs'[p'[d]].key = req'[d].key /\ IsOpen(p[d])'
    BY <1>2, <1>6 DEF Registered, IsOpen
  <2> QED
    BY <1>2, <1>4, <1>5, <1>6, <2>2, <2>3, <2>4 DEF Registered
<1>7. CASE /\ mapKeyQueue[k] = 0 /\ Construct(k, o)
           /\ mapKeyQueue' = [mapKeyQueue EXCEPT ![k] = o]
  <2>1. /\ o = Len(objs) + 1 /\ objs'[o].key = k /\ IsOpen(o)'
        /\ \A i \in 1 .. Len(objs) : objs'[i] = objs[i]
        /\ \A i \in 1 .. Len(objs) : objs[i].key # k => (IsOpen(i)' <=> IsOpen(i))
    BY <1>7, ConstructOpen
  <2>2. /\ mapKeyQueue'[k] = o
        /\ \A j \in Keys : j # k => mapKeyQueue'[j] = mapKeyQueue[j]
    BY <1>7 DEF MapType
  <2>3. \A j \in Keys : mapKeyQueue'[j] # 0 =>
            objs'[mapKeyQueue'[j]].key = j /\ IsOpen(mapKeyQueue[j])'
    <3>1. SUFFICES ASSUME NEW j \in Keys, mapKeyQueue'[j] # 0
                   PROVE  objs'[mapKeyQueue'[j]].key = j /\ IsOpen(mapKeyQueue[j])'
      OBVIOUS
    <3>2. CASE j = k
      BY <2>1, <2>2, <3>2 DEF IsOpen
    <3>3. CASE j # k
      <4>1. /\ mapKeyQueue'[j] = mapKeyQueue[j] /\ mapKeyQueue[j] \in 1 .. Len(objs)
            /\ objs[mapKeyQueue[j]].key = j /\ IsOpen(mapKeyQueue[j])
        BY <2>2, <3>1, <3>3 DEF MapType, ObjType, Registered
      <4> QED
        BY <2>1, <3>3, <4>1 DEF IsOpen
    <3> QED
      BY <3>2, <3>3
  <2>4. \A i \in 1 .. Len(objs) : mapKeyQueue[objs[i].key] = i =>
            mapKeyQueue'[objs'[i].key] = i
    BY <1>7, <2>1, <2>2, ObjProperties
  <2>5. \A d \in Clients : qTrans'[d] # 0 =>
            mapKeyQueue'[objs'[qTrans'[d]].key] = qTrans'[d]
    <3>1. \A d \in Clients : qTrans[d] # 0 => qTrans[d] \in 1 .. Len(objs)
      BY DEF TransType, ObjType
    <3> QED
      BY <1>3, <2>1, <2>2, <2>4, <3>1 DEF Registered
  <2>6. \A d \in Clients : pc[d] \in {"created", "ready", "counting"} =>
            p[d] \in 1 .. Len(objs)
    BY DEF ReqType, StepType, ObjType
  <2>7. \A d \in Clients : pc'[d] \in {"ready", "counting"} =>
            mapKeyQueue'[objs'[p'[d]].key] = p'[d]
    BY <1>2, <2>4, <2>6 DEF Registered
  <2>8. \A d \in Clients : pc'[d] \in {"missing", "created"} =>
            pc[d] = pc'[d] /\ req[d].key # k /\ req[d].key \in Keys
    BY <1>2 DEF Opening, StepType, Requests
  <2>9. \A d \in Clients : pc'[d] \in {"missing", "created"} =>
            mapKeyQueue'[req'[d].key] = 0
    BY <1>2, <2>2, <2>8 DEF Registered
  <2>10. \A d \in Clients : pc'[d] = "created" =>
            objs'[p'[d]].key = req'[d].key /\ IsOpen(p[d])'
    BY <1>2, <2>1, <2>6, <2>8 DEF Registered, IsOpen
  <2> QED
    BY <1>4, <1>5, <2>3, <2>5, <2>7, <2>9, <2>10 DEF Registered
<1> QED
    BY <1>1, <1>6, <1>7

(* Close stops the queue of a key only when nobody has its object, and the *)
(* object is the only one of its key.                                      *)
LEMMA CloseOpen ==
    ASSUME OpenInv, NEW c \in Clients, NEW permanent \in BOOLEAN,
           Close(c, permanent)
    PROVE  Pointers' /\ Registered'
<1> USE TypeParts DEF TypedParts, OpenInv
<1> DEFINE k == req[c].key
<1>1. /\ pc[c] = "closing" /\ Return(c)
      /\ UNCHANGED <<clients, qTrans, objs>>
    BY DEF Close, objVars
<1>2. k \in Keys /\ c \in clients
    BY <1>1 DEF StepType, Requests, Pointers
<1>3. /\ pc'[c] = "idle" /\ p'[c] = 0
      /\ \A d \in Clients : d # c =>
            pc'[d] = pc[d] /\ p'[d] = p[d] /\ req'[d] = req[d]
    BY <1>1 DEF Return, ReqType
<1>4. CASE UNCHANGED <<handle, mapKeyQueue>>
  <2>1. LessUsed
    BY <1>1, <1>2, <1>3, <1>4 DEF LessUsed
  <2> QED
    BY <2>1, LessUsedOpen
<1>5. CASE /\ mapKeyQueue[k] # 0 /\ MayStop(k)
           /\ handle' = [handle EXCEPT ![k] = 0]
           /\ mapKeyQueue' = [mapKeyQueue EXCEPT ![k] = 0]
  <2> HIDE DEF k
  <2>1. \A d \in Clients : qTrans[d] # mapKeyQueue[k] /\ p[d] # mapKeyQueue[k]
    BY <1>2, <1>5, OnlyTheMap DEF MayStop
  <2>2. /\ mapKeyQueue'[k] = 0 /\ handle'[k] = 0
        /\ \A j \in Keys : j # k => mapKeyQueue'[j] = mapKeyQueue[j]
                                    /\ handle'[j] = handle[j]
    BY <1>2, <1>5 DEF MapType, HandleType
  <2>3. Pointers'
    BY <1>1, <1>2, <1>3 DEF Pointers
  <2>4. \A j \in Keys : mapKeyQueue'[j] # 0 =>
            objs'[mapKeyQueue'[j]].key = j /\ IsOpen(mapKeyQueue[j])'
    BY <1>1, <2>2 DEF Registered, IsOpen
  <2>5. \A i \in 1 .. Len(objs) :
            mapKeyQueue[objs[i].key] = i /\ i # mapKeyQueue[k] =>
                mapKeyQueue'[objs[i].key] = i
    BY <2>2, ObjProperties
  <2>6. \A d \in Clients : qTrans'[d] # 0 =>
            mapKeyQueue'[objs'[qTrans'[d]].key] = qTrans'[d]
    <3>1. \A d \in Clients : qTrans[d] # 0 => qTrans[d] \in 1 .. Len(objs)
      BY DEF TransType, ObjType
    <3> QED
      BY <1>1, <2>1, <2>5, <3>1 DEF Registered
  <2>7. \A d \in Clients : pc'[d] \in {"ready", "counting"} =>
            mapKeyQueue'[objs'[p'[d]].key] = p'[d]
    <3>1. \A d \in Clients : pc[d] \in {"ready", "counting"} => p[d] \in 1 .. Len(objs)
      BY DEF ReqType, StepType, ObjType
    <3> QED
      BY <1>1, <1>3, <2>1, <2>5, <3>1 DEF Registered
  <2>8. \A d \in Clients : pc'[d] \in {"missing", "created"} =>
            /\ d # c /\ pc'[d] = pc[d] /\ req[d].key \in Keys
            /\ mapKeyQueue[req[d].key] = 0 /\ req[d].key # k
    BY <1>3, <1>5 DEF StepType, Requests, Registered
  <2>9. \A d \in Clients : pc'[d] \in {"missing", "created"} =>
            mapKeyQueue'[req'[d].key] = 0
    BY <1>3, <2>2, <2>8
  <2>10. \A d \in Clients : pc'[d] = "created" =>
            objs'[p'[d]].key = req'[d].key /\ IsOpen(p[d])'
    BY <1>1, <1>3, <2>2, <2>8 DEF Registered, IsOpen
  <2>11. \A j \in Keys : Opening(j)' \subseteq Opening(j)
    BY <1>3 DEF Opening
  <2> QED
    BY <2>3, <2>4, <2>6, <2>7, <2>9, <2>10, <2>11 DEF Registered
<1> QED
    BY <1>4, <1>5 DEF Close

LEMMA NextOpen == SoloCreate /\ OpenInv /\ [Next]_vars => OpenInv'
<1> SUFFICES ASSUME SoloCreate, OpenInv, [Next]_vars
             PROVE  OpenInv'
    OBVIOUS
<1>1. TypeOK'
    BY NextType DEF OpenInv
<1>2. SUFFICES Pointers' /\ Registered'
    BY <1>1 DEF OpenInv
<1>3. CASE UNCHANGED vars
    BY <1>3, LessUsedOpen DEF LessUsed, vars, staticVars, clientVars, objVars,
                              coreVars
<1>4. ASSUME NEW c \in Clients, Request(c)
      PROVE  Pointers' /\ Registered'
  <2>1. CASE \E k \in Keys : \/ \E n \in 1 .. 2 : EnqueueFind(c, k, n)
                             \/ DequeueFind(c, k)
    BY <2>1, FindOpen
  <2>2. CASE \E k \in Keys : StartTrans(c, k)
    BY <2>2, StartTransOpen
  <2>3. CASE \/ \E k \in Keys : CloseDrop(c, k)
             \/ EndTransDrop(c) \/ EndTransOne(c) \/ EndTransJob(c)
             \/ OnBaseRequestArrive(c)
    BY <2>3, LessUsedActions, LessUsedOpen DEF OpenInv
  <2> QED
    BY <1>4, <2>1, <2>2, <2>3 DEF Request
<1>5. ASSUME NEW c \in Clients, GoOn(c)
      PROVE  Pointers' /\ Registered'
  <2>1. CASE \/ MakeFails(c) \/ Enqueue(c) \/ Dequeue(c) \/ DequeueCount(c)
             \/ JobFill(c) \/ JobFillPart(c) \/ JobAbort(c) \/ JobEnd(c)
             \/ JobEndFails(c)
    BY <2>1, LessUsedActions, LessUsedOpen DEF OpenInv
  <2> QED
    BY <1>5, <2>1, MakeOpen, RegisterOpen, CloseOpen DEF GoOn
<1>6. ASSUME NEW c \in Clients, Confirm(c) \/ OnSwitchFrom(c)
      PROVE  Pointers' /\ Registered'
    BY <1>6, LessUsedActions, LessUsedOpen DEF OpenInv
<1> QED
    BY <1>3, <1>4, <1>5, <1>6, ReleaseOpen DEF Next

LEMMA InitOpen == Init => OpenInv
<1> SUFFICES ASSUME Init
             PROVE  OpenInv
    OBVIOUS
<1>1. TypeOK
    BY InitType
<1>2. Pointers /\ Registered
    BY DEF Init, Pointers, Registered, Opening
<1> QED
    BY <1>1, <1>2 DEF OpenInv

LEMMA OpenInvImplies == OpenInv => UsedQueuesOpen
<1> SUFFICES ASSUME OpenInv
             PROVE  UsedQueuesOpen
    OBVIOUS
<1> USE TypeParts DEF TypedParts, OpenInv
<1>1. \A k \in Keys : mapKeyQueue[k] # 0 => IsOpen(mapKeyQueue[k])
    BY DEF Registered
<1>2. \A i \in 1 .. Len(objs) : mapKeyQueue[objs[i].key] = i => IsOpen(i)
    BY ObjProperties DEF Registered, ObjType
<1>3. \A c \in Clients : qTrans[c] # 0 => IsOpen(qTrans[c])
  <2>1. \A c \in Clients : qTrans[c] # 0 => qTrans[c] \in 1 .. Len(objs)
    BY DEF TransType, ObjType
  <2> QED
    BY <1>2, <2>1 DEF Registered
<1>4. ASSUME NEW c \in Clients, p[c] # 0
      PROVE  IsOpen(p[c])
  <2>1. pc[c] \in {"created", "ready", "counting"} /\ p[c] \in 1 .. Len(objs)
    BY <1>4 DEF Pointers, ReqType, ObjType
  <2>2. CASE pc[c] = "created"
    BY <2>2 DEF Registered
  <2>3. CASE pc[c] \in {"ready", "counting"}
    BY <1>2, <2>1, <2>3 DEF Registered
  <2> QED
    BY <2>1, <2>2, <2>3
<1> QED
    BY <1>1, <1>3, <1>4 DEF UsedQueuesOpen

LEMMA ObjectsOpen ==
    ASSUME SoloCreate
    PROVE  Spec => []OpenInv
<1>1. Init => OpenInv
    BY InitOpen
<1>2. OpenInv /\ [Next]_vars => OpenInv'
    BY NextOpen
<1> QED
    BY <1>1, <1>2, PTL DEF Spec

(* As long as a key is opened by one client at a time, Close never stops a *)
(* queue under a transaction or a running request, and no stopped queue    *)
(* stays in the map: use_count says the truth.                             *)
THEOREM QueuesStayOpen ==
    ASSUME SoloCreate
    PROVE  Spec => []UsedQueuesOpen
<1>1. OpenInv => UsedQueuesOpen
    BY OpenInvImplies
<1> QED
    BY <1>1, ObjectsOpen, PTL
----------------------------------------------------------------------------
(* A step that leaves the clients that commit, and their messages, alone.  *)
SameJobs ==
    /\ \A d \in Clients : Committing(d)' <=> Committing(d)
    /\ \A d \in Clients : Committing(d) => JobKey(d)' = JobKey(d)
                                           /\ batch'[d] = batch[d]
    /\ acked \subseteq acked'

LEMMA CommittingKeys ==
    ASSUME TypeOK, NEW c \in Clients, Committing(c)
    PROVE  /\ qTrans[c] \in 1 .. Len(objs) /\ qTrans[c] \in Obj
           /\ JobKey(c) \in Keys /\ job[JobKey(c)].msgs \in Seq(Msg)
           /\ job[JobKey(c)].on \in BOOLEAN /\ file[JobKey(c)] \in Seq(Msg)
<1> USE TypeParts DEF TypedParts
<1>1. qTrans[c] \in 1 .. Len(objs) /\ qTrans[c] \in Obj
    BY Constants DEF Committing, StepType, TransType, ObjType
<1>2. JobKey(c) \in Keys
    BY <1>1, ObjProperties DEF JobKey
<1> QED
    BY <1>1, <1>2 DEF FileType

LEMMA JobsFrame ==
    ASSUME TypeOK, JobsOwned, NothingFromFailed, SameJobs,
           \A k \in Keys : job'[k] = job[k] /\ Range(file'[k]) \subseteq Range(file[k])
    PROVE  JobsOwned' /\ NothingFromFailed'
<1>1. NothingFromFailed'
    BY DEF NothingFromFailed, SameJobs
<1>2. \A d \in Clients : Committing(d)' => job'[JobKey(d)'].on
    BY CommittingKeys DEF JobsOwned, SameJobs
<1>3. ASSUME NEW k \in Keys, job'[k] # NoJob
      PROVE  \E d \in Clients :
                /\ Committing(d)' /\ JobKey(d)' = k
                /\ Range(job'[k].msgs) \subseteq acked' \union Range(batch'[d])
  <2>1. PICK d \in Clients : /\ Committing(d) /\ JobKey(d) = k
                             /\ Range(job[k].msgs) \subseteq acked \union Range(batch[d])
    BY <1>3 DEF JobsOwned
  <2> QED
    BY <2>1 DEF SameJobs
<1>4. \A c, d \in Clients :
        Committing(c)' /\ Committing(d)' /\ JobKey(c)' = JobKey(d)' => c = d
    BY DEF JobsOwned, SameJobs
<1> QED
    BY <1>1, <1>2, <1>3, <1>4 DEF JobsOwned

(* Messages that are enqueued and reported in one step.                    *)
LEMMA EnqueueOwned ==
    ASSUME TypeOK, JobsOwned, NothingFromFailed, SameJobs, NEW k \in Keys,
           NEW ms \in Seq(Msg), CoreEnqueue(k, ms), acked' = acked \union Range(ms)
    PROVE  JobsOwned' /\ NothingFromFailed'
<1>1. /\ \A j \in Keys : j # k => file'[j] = file[j] /\ job'[j] = job[j]
      /\ job'[k].on = job[k].on
      /\ IF job[k].on
         THEN /\ file'[k] = file[k]
              /\ Range(job'[k].msgs) = Range(job[k].msgs) \union Range(ms)
         ELSE /\ job'[k] = job[k]
              /\ Range(file'[k]) = Range(file[k]) \union Range(ms)
    BY CoreEnqueueProperties, TypeParts DEF TypedParts
<1>2. NothingFromFailed'
    BY <1>1 DEF NothingFromFailed
<1>3. \A d \in Clients : Committing(d)' => job'[JobKey(d)'].on
    BY <1>1, CommittingKeys DEF JobsOwned, SameJobs
<1>4. ASSUME NEW j \in Keys, job'[j] # NoJob
      PROVE  \E d \in Clients :
                /\ Committing(d)' /\ JobKey(d)' = j
                /\ Range(job'[j].msgs) \subseteq acked' \union Range(batch'[d])
  <2>1. job[j] # NoJob /\ Range(job'[j].msgs) \subseteq Range(job[j].msgs) \union Range(ms)
    <3>1. CASE j = k /\ job[k].on
      BY <1>1, <3>1 DEF NoJob
    <3>2. CASE ~(j = k /\ job[k].on)
      BY <1>1, <1>4, <3>2
    <3> QED
      BY <3>1, <3>2
  <2>2. PICK d \in Clients : /\ Committing(d) /\ JobKey(d) = j
                             /\ Range(job[j].msgs) \subseteq acked \union Range(batch[d])
    BY <2>1 DEF JobsOwned
  <2> QED
    BY <2>1, <2>2 DEF SameJobs
<1>5. \A c, d \in Clients :
        Committing(c)' /\ Committing(d)' /\ JobKey(c)' = JobKey(d)' => c = d
    BY DEF JobsOwned, SameJobs
<1> QED
    BY <1>2, <1>3, <1>4, <1>5 DEF JobsOwned

(* The actions that leave jobs, files and reports as they are.             *)
LEMMA OtherOwned ==
    ASSUME FileInv, NEW c \in Clients,
           \/ \E k \in Keys : \/ \E n \in 1 .. 2 : EnqueueFind(c, k, n)
                              \/ DequeueFind(c, k) \/ StartTrans(c, k)
                              \/ CloseDrop(c, k)
           \/ EndTransDrop(c) \/ OnBaseRequestArrive(c) \/ Make(c) \/ MakeFails(c)
           \/ Register(c) \/ Dequeue(c) \/ DequeueCount(c) \/ OnSwitchFrom(c)
           \/ OnReleaseSource(c)
    PROVE  SameJobs /\ UNCHANGED <<job, file, acked>>
<1> USE TypeParts DEF TypedParts, FileInv, OpenInv
<1>0. /\ qTrans \in [Clients -> 0 .. Len(objs)] /\ pc \in [Clients -> Steps]
      /\ batch \in [Clients -> Seq(Msg)]
    BY DEF TransType, ReqType
<1>1. DropTrans(c) => \A d \in Clients : d # c =>
                        qTrans'[d] = qTrans[d] /\ batch'[d] = batch[d]
    BY <1>0 DEF DropTrans
<1>2. SUFFICES /\ ~Committing(c) /\ ~Committing(c)'
               /\ \A d \in Clients : d # c =>
                    pc'[d] = pc[d] /\ qTrans'[d] = qTrans[d] /\ batch'[d] = batch[d]
               /\ \A i \in 1 .. Len(objs) : objs'[i] = objs[i]
               /\ UNCHANGED <<job, file, acked>>
  <2>1. \A d \in Clients : Committing(d)' <=> Committing(d)
    BY <1>2 DEF Committing
  <2>2. ASSUME NEW d \in Clients, Committing(d)
        PROVE  JobKey(d)' = JobKey(d) /\ batch'[d] = batch[d]
    BY <1>2, <2>2, CommittingKeys DEF JobKey
  <2> QED
    BY <1>2, <2>1, <2>2 DEF SameJobs
<1>3. CASE \E k \in Keys : (\E n \in 1 .. 2 : EnqueueFind(c, k, n)) \/ DequeueFind(c, k)
  <2>1. PICK o : Find(c, o)
    BY <1>3 DEF EnqueueFind, DequeueFind
  <2>2. pc[c] = "idle" /\ UNCHANGED <<qTrans, batch, objs, job, file, acked>>
    BY <1>3 DEF EnqueueFind, DequeueFind, Arrives, objVars, coreVars, history
  <2>3. /\ pc'[c] \in {"ready", "missing"}
        /\ \A d \in Clients : d # c => pc'[d] = pc[d]
    BY <1>0, <2>1 DEF Find
  <2> QED
    BY <2>2, <2>3 DEF Committing
<1>4. CASE \E k \in Keys : StartTrans(c, k)
  <2>1. PICK k \in Keys : StartTrans(c, k)
    BY <1>4
  <2>2. PICK o \in Obj : /\ UNCHANGED objs \/ Construct(k, o)
                         /\ qTrans' = [qTrans EXCEPT ![c] = o]
    BY <2>1 DEF StartTrans
  <2>3. pc[c] = "idle" /\ UNCHANGED <<pc, batch, job, file, acked>>
    BY <2>1 DEF StartTrans, Arrives, history
  <2>4. \A i \in 1 .. Len(objs) : objs'[i] = objs[i]
    BY <2>2, ConstructProperties
  <2>5. \A d \in Clients : d # c => qTrans'[d] = qTrans[d]
    BY <1>0, <2>2
  <2> QED
    BY <2>3, <2>4, <2>5 DEF Committing
<1>5. CASE \E k \in Keys : CloseDrop(c, k)
  <2>1. /\ pc[c] = "idle" /\ DropTrans(c) /\ pc' = [pc EXCEPT ![c] = "closing"]
        /\ UNCHANGED <<objs, job, file, acked>>
    BY <1>5 DEF CloseDrop, Arrives, objVars, coreVars, history
  <2>2. pc'[c] = "closing" /\ \A d \in Clients : d # c => pc'[d] = pc[d]
    BY <1>0, <2>1
  <2> QED
    BY <1>1, <2>1, <2>2 DEF Committing
<1>6. CASE EndTransDrop(c) \/ OnBaseRequestArrive(c) \/ OnReleaseSource(c)
  <2>1. /\ pc[c] = "idle" /\ DropTrans(c)
        /\ UNCHANGED <<pc, objs, job, file, acked>>
    BY <1>6 DEF EndTransDrop, InTrans, OnBaseRequestArrive, OnReleaseSource,
                objVars, coreVars, history
  <2> QED
    BY <1>1, <2>1 DEF Committing
<1>7. CASE Make(c)
  <2>1. PICK o \in Obj : Construct(req[c].key, o)
    BY <1>7 DEF Make
  <2>2. /\ pc[c] = "missing" /\ pc' = [pc EXCEPT ![c] = "created"]
        /\ UNCHANGED <<qTrans, batch, job, file, acked>>
    BY <1>7 DEF Make, history
  <2>3. req[c].key \in Keys
    BY <2>2 DEF StepType, Requests
  <2>4. \A i \in 1 .. Len(objs) : objs'[i] = objs[i]
    BY <2>1, <2>3, ConstructProperties
  <2>5. pc'[c] = "created" /\ \A d \in Clients : d # c => pc'[d] = pc[d]
    BY <1>0, <2>2
  <2> QED
    BY <2>2, <2>4, <2>5 DEF Committing
<1>8. CASE MakeFails(c) \/ DequeueCount(c)
  <2>1. /\ pc[c] \in {"missing", "counting"} /\ pc' = [pc EXCEPT ![c] = "idle"]
        /\ UNCHANGED <<qTrans, batch, objs, job, file, acked>>
    BY <1>8 DEF MakeFails, DequeueCount, Return, objVars, coreVars, history
  <2>2. pc'[c] = "idle" /\ \A d \in Clients : d # c => pc'[d] = pc[d]
    BY <1>0, <2>1
  <2> QED
    BY <2>1, <2>2 DEF Committing
<1>9. CASE Register(c) \/ Dequeue(c)
  <2>1. /\ pc[c] \in {"created", "ready"}
        /\ pc' = [pc EXCEPT ![c] = "ready"] \/ pc' = [pc EXCEPT ![c] = "counting"]
        /\ UNCHANGED <<qTrans, batch, objs, job, file, acked>>
    BY <1>9 DEF Register, Dequeue, objVars, coreVars, history
  <2>2. /\ pc'[c] \in {"ready", "counting"}
        /\ \A d \in Clients : d # c => pc'[d] = pc[d]
    BY <1>0, <2>1
  <2> QED
    BY <2>1, <2>2 DEF Committing
<1>10. CASE OnSwitchFrom(c)
  <2>1. pc[c] = "idle" /\ UNCHANGED <<pc, qTrans, batch, objs, job, file, acked>>
    BY <1>10 DEF OnSwitchFrom, Pointers, clientVars, objVars, coreVars
  <2> QED
    BY <2>1 DEF Committing
<1> QED
    BY <1>3, <1>4, <1>5, <1>6, <1>7, <1>8, <1>9, <1>10

LEMMA EnqueueJobs ==
    ASSUME FileInv, NEW c \in Clients, Enqueue(c) \/ EndTransOne(c) \/ Confirm(c)
    PROVE  /\ SameJobs
           /\ JobsOwned' /\ NothingFromFailed'
<1> USE TypeParts DEF TypedParts, FileInv, OpenInv
<1>0. /\ qTrans \in [Clients -> 0 .. Len(objs)] /\ pc \in [Clients -> Steps]
      /\ batch \in [Clients -> Seq(Msg)]
    BY DEF TransType, ReqType
<1>1. CASE Enqueue(c)
  <2>1. /\ pc[c] = "ready" /\ pc' = [pc EXCEPT ![c] = "idle"]
        /\ UNCHANGED <<qTrans, objs>> /\ acked \subseteq acked'
        /\ batch' = batch \/ batch' = [batch EXCEPT ![c] = @ \o req[c].msgs]
    BY <1>1 DEF Enqueue, Return, objVars
  <2>2. /\ pc'[c] = "idle"
        /\ \A d \in Clients : d # c => pc'[d] = pc[d] /\ batch'[d] = batch[d]
    BY <1>0, <2>1
  <2>3. SameJobs
    BY <2>1, <2>2 DEF SameJobs, Committing, JobKey
  <2>4. CASE UNCHANGED <<job, file, acked>>
    BY <2>3, <2>4, JobsFrame
  <2>5. CASE /\ CoreEnqueue(objs[p[c]].key, req[c].msgs)
             /\ acked' = acked \union Range(req[c].msgs)
    <3>1. objs[p[c]].key \in Keys /\ req[c].msgs \in Seq(Msg)
      BY <2>1, ObjProperties DEF StepType, ReqType, Requests, ObjType
    <3> QED
      BY <2>3, <2>5, <3>1, EnqueueOwned
  <2> QED
    BY <1>1, <2>3, <2>4, <2>5 DEF Enqueue
<1>2. CASE EndTransOne(c)
  <2>1. /\ pc[c] = "idle" /\ qTrans[c] # 0 /\ DropTrans(c)
        /\ UNCHANGED <<pc, objs>> /\ acked \subseteq acked'
    BY <1>2 DEF EndTransOne, InTrans, objVars
  <2>2. \A d \in Clients : d # c => qTrans'[d] = qTrans[d] /\ batch'[d] = batch[d]
    BY <1>0, <2>1 DEF DropTrans
  <2>3. SameJobs
    BY <2>1, <2>2 DEF SameJobs, Committing, JobKey
  <2>4. CASE UNCHANGED <<job, file, acked>>
    BY <2>3, <2>4, JobsFrame
  <2>5. CASE /\ CoreEnqueue(objs[qTrans[c]].key, batch[c])
             /\ acked' = acked \union Range(batch[c])
    <3>1. objs[qTrans[c]].key \in Keys /\ batch[c] \in Seq(Msg)
      BY <2>1, ObjProperties DEF TransType, ObjType
    <3> QED
      BY <2>3, <2>5, <3>1, EnqueueOwned
  <2> QED
    BY <1>2, <2>3, <2>4, <2>5 DEF EndTransOne
<1>3. CASE Confirm(c)
  <2>1. UNCHANGED <<pc, qTrans, batch, objs, job, acked>>
    BY <1>3 DEF Confirm, clientVars, objVars
  <2>2. SameJobs
    BY <2>1 DEF SameJobs, Committing, JobKey
  <2>3. \A k \in Keys : Range(file'[k]) \subseteq Range(file[k])
    <3>1. PICK k \in Keys : \E i \in 1 .. Len(file[k]) :
                file' = [file EXCEPT ![k] = RemoveAt(@, i)]
      BY <1>3 DEF Confirm
    <3>2. PICK i \in 1 .. Len(file[k]) : file' = [file EXCEPT ![k] = RemoveAt(@, i)]
      BY <3>1
    <3>3. Range(RemoveAt(file[k], i)) \subseteq Range(file[k])
      BY RemoveAtRange DEF FileType
    <3> QED
      BY <3>2, <3>3 DEF FileType
  <2> QED
    BY <2>1, <2>2, <2>3, JobsFrame
<1> QED
    BY <1>1, <1>2, <1>3

(* A job begins on a queue that has none.                                  *)
LEMMA JobBegins ==
    ASSUME FileInv, NEW c \in Clients, EndTransJob(c)
    PROVE  JobsOwned' /\ NothingFromFailed'
<1> USE TypeParts DEF TypedParts, FileInv, OpenInv
<1> DEFINE k == JobKey(c)
<1>0. /\ qTrans \in [Clients -> 0 .. Len(objs)] /\ pc \in [Clients -> Steps]
      /\ batch \in [Clients -> Seq(Msg)]
    BY DEF TransType, ReqType
<1>1. pc[c] = "idle" /\ qTrans[c] # 0 /\ UNCHANGED <<objs, file, acked>>
    BY DEF EndTransJob, InTrans, history
<1>2. k \in Keys
    BY <1>0, <1>1, ObjProperties DEF JobKey, ObjType
<1>3. CASE DropTrans(c) /\ UNCHANGED <<job, pc>>
  <2>1. \A d \in Clients : d # c => qTrans'[d] = qTrans[d] /\ batch'[d] = batch[d]
    BY <1>0, <1>3 DEF DropTrans
  <2>2. SameJobs
    BY <1>1, <1>3, <2>1 DEF SameJobs, Committing, JobKey
  <2> QED
    BY <1>1, <1>3, <2>2, JobsFrame
<1>4. CASE /\ ~job[k].on /\ job' = [job EXCEPT ![k].on = TRUE]
           /\ pc' = [pc EXCEPT ![c] = "job"] /\ UNCHANGED <<qTrans, batch>>
  <2>1. /\ pc'[c] = "job" /\ Committing(c)' /\ ~Committing(c)
        /\ \A d \in Clients : d # c => (Committing(d)' <=> Committing(d))
    BY <1>0, <1>1, <1>4 DEF Committing
  <2>2. \A d \in Clients : JobKey(d)' = JobKey(d) /\ batch'[d] = batch[d]
    BY <1>1, <1>4 DEF JobKey
  <2>3. \A d \in Clients : Committing(d) => JobKey(d) # k
    BY <1>4 DEF JobsOwned
  <2>4. job[k] = NoJob
    BY <1>2, <2>3 DEF JobsOwned
  <2> HIDE DEF k
  <2>5. /\ job'[k].on /\ job'[k].msgs = <<>>
        /\ \A j \in Keys : j # k => job'[j] = job[j]
    BY <1>2, <1>4, <2>4 DEF FileType, NoJob
  <2>6. Range(<<>>) = {}
    BY DEF Range
  <2>7. \A d \in Clients : Committing(d)' => job'[JobKey(d)'].on
    BY <2>1, <2>2, <2>3, <2>5, CommittingKeys DEF JobsOwned, k
  <2>8. \A d, e \in Clients :
            Committing(d)' /\ Committing(e)' /\ JobKey(d)' = JobKey(e)' => d = e
    BY <2>1, <2>2, <2>3 DEF JobsOwned, k
  <2>9. ASSUME NEW j \in Keys, job'[j] # NoJob
        PROVE  \E d \in Clients :
                /\ Committing(d)' /\ JobKey(d)' = j
                /\ Range(job'[j].msgs) \subseteq acked' \union Range(batch'[d])
    <3>1. CASE j = k
      BY <2>1, <2>2, <2>5, <2>6, <3>1 DEF k
    <3>2. CASE j # k
      <4>1. PICK d \in Clients :
                /\ Committing(d) /\ JobKey(d) = j
                /\ Range(job[j].msgs) \subseteq acked \union Range(batch[d])
        BY <2>5, <2>9, <3>2 DEF JobsOwned
      <4> QED
        BY <1>1, <2>1, <2>2, <2>5, <3>2, <4>1
    <3> QED
      BY <3>1, <3>2
  <2> QED
    BY <1>1, <2>7, <2>8, <2>9 DEF JobsOwned, NothingFromFailed
<1> QED
    BY <1>3, <1>4 DEF EndTransJob, JobKey

(* The client that commits is the only owner of its job.                   *)
LEMMA OwnJob ==
    ASSUME FileInv, NEW c \in Clients, Committing(c)
    PROVE  /\ Range(job[JobKey(c)].msgs) \subseteq acked \union Range(batch[c])
           /\ \A d \in Clients : d # c /\ Committing(d) => JobKey(d) # JobKey(c)
<1> USE DEF FileInv, OpenInv
<1>1. JobKey(c) \in Keys /\ job[JobKey(c)] # NoJob
    BY CommittingKeys DEF JobsOwned, NoJob
<1> QED
    BY <1>1 DEF JobsOwned

LEMMA JobFills ==
    ASSUME FileInv, NEW c \in Clients, JobFill(c) \/ JobFillPart(c)
    PROVE  JobsOwned' /\ NothingFromFailed'
<1> USE TypeParts DEF TypedParts, FileInv, OpenInv
<1> DEFINE k == JobKey(c)
<1>0. /\ pc \in [Clients -> Steps] /\ batch[c] \in Seq(Msg)
    BY DEF TransType, ReqType
<1>1. /\ pc[c] = "job" /\ Committing(c)
      /\ pc' = [pc EXCEPT ![c] = "filled"] \/ pc' = [pc EXCEPT ![c] = "failed"]
      /\ UNCHANGED <<qTrans, batch, objs, file, acked>>
    BY DEF JobFill, JobFillPart, Committing, objVars, history
<1>2. /\ k \in Keys /\ job[k].msgs \in Seq(Msg) /\ job[k].on
      /\ Range(job[k].msgs) \subseteq acked \union Range(batch[c])
    BY <1>1, CommittingKeys, OwnJob DEF JobsOwned
<1>3. PICK ms \in Seq(Msg) :
        Range(ms) \subseteq Range(batch[c]) /\ job' = [job EXCEPT ![k].msgs = @ \o ms]
  <2>1. CASE JobFill(c)
    BY <1>0, <2>1 DEF JobFill, JobKey
  <2>2. CASE JobFillPart(c)
    <3>1. PICK n \in 0 .. Len(batch[c]) - 1 :
            job' = [job EXCEPT ![k].msgs = @ \o SubSeq(batch[c], 1, n)]
      BY <2>2 DEF JobFillPart, JobKey
    <3> DEFINE b == batch[c]
               t == SubSeq(b, 1, n)
    <3>2. /\ Len(b) \in Nat /\ DOMAIN b = 1 .. Len(b)
          /\ \A i \in 1 .. n : b[i] \in Msg /\ i \in DOMAIN b
      BY <1>0, LenProperties
    <3>3. (IF 1 <= n THEN n - 1 + 1 ELSE 0) = n /\ n \in Nat
      BY <3>2
    <3>4. t \in Seq(Msg) /\ Len(t) = n /\ \A i \in 1 .. n : t[i] = b[i]
      BY <3>2, <3>3, SubSeqProperties
    <3> HIDE DEF t
    <3>5. DOMAIN t = 1 .. n
      BY <3>4, LenProperties
    <3>6. Range(t) \subseteq Range(b)
      BY <3>2, <3>4, <3>5 DEF Range
    <3> QED
      BY <3>1, <3>4, <3>6 DEF t
  <2> QED
    BY <2>1, <2>2
<1>4. \A d \in Clients : Committing(d)' <=> Committing(d)
  <2>1. /\ pc'[c] \in {"filled", "failed"}
        /\ \A d \in Clients : d # c => pc'[d] = pc[d]
    BY <1>0, <1>1
  <2> QED
    BY <1>1, <2>1 DEF Committing
<1>5. \A d \in Clients : JobKey(d)' = JobKey(d) /\ batch'[d] = batch[d]
    BY <1>1 DEF JobKey
<1> HIDE DEF k
<1>6. /\ job'[k].on /\ job'[k].msgs = job[k].msgs \o ms
      /\ \A j \in Keys : j # k => job'[j] = job[j]
    BY <1>2, <1>3 DEF FileType
<1>7. Range(job'[k].msgs) \subseteq acked \union Range(batch[c])
  <2>1. Range(job[k].msgs \o ms) = Range(job[k].msgs) \union Range(ms)
    BY <1>2, RangeConcatenation
  <2> QED
    BY <1>2, <1>3, <1>6, <2>1
<1>8. \A d \in Clients : Committing(d)' => job'[JobKey(d)'].on
    BY <1>4, <1>5, <1>6, CommittingKeys DEF JobsOwned
<1>9. ASSUME NEW j \in Keys, job'[j] # NoJob
      PROVE  \E d \in Clients :
                /\ Committing(d)' /\ JobKey(d)' = j
                /\ Range(job'[j].msgs) \subseteq acked' \union Range(batch'[d])
  <2>1. CASE j = k
    BY <1>1, <1>4, <1>5, <1>7, <2>1 DEF k
  <2>2. CASE j # k
    <3>1. PICK d \in Clients :
                /\ Committing(d) /\ JobKey(d) = j
                /\ Range(job[j].msgs) \subseteq acked \union Range(batch[d])
      BY <1>6, <1>9, <2>2 DEF JobsOwned
    <3> QED
      BY <1>1, <1>4, <1>5, <1>6, <2>2, <3>1
  <2> QED
    BY <2>1, <2>2
<1>10. \A d, e \in Clients :
        Committing(d)' /\ Committing(e)' /\ JobKey(d)' = JobKey(e)' => d = e
    BY <1>4, <1>5 DEF JobsOwned
<1> QED
    BY <1>1, <1>8, <1>9, <1>10 DEF JobsOwned, NothingFromFailed

(* A job ends, by EndJob or by AbortJob: what EndJob commits is reported.  *)
LEMMA JobEnds ==
    ASSUME FileInv, NEW c \in Clients, JobAbort(c) \/ JobEnd(c) \/ JobEndFails(c)
    PROVE  JobsOwned' /\ NothingFromFailed'
<1> USE TypeParts DEF TypedParts, FileInv, OpenInv
<1> DEFINE k == JobKey(c)
<1>0. /\ qTrans \in [Clients -> 0 .. Len(objs)] /\ pc \in [Clients -> Steps]
      /\ batch \in [Clients -> Seq(Msg)]
    BY DEF TransType, ReqType
<1>1. /\ Committing(c) /\ Unlock(c) /\ job' = [job EXCEPT ![k] = NoJob]
      /\ UNCHANGED objs
    BY DEF JobAbort, JobEnd, JobEndFails, JobKey, Committing
<1>2. /\ k \in Keys /\ job[k].msgs \in Seq(Msg) /\ file[k] \in Seq(Msg)
      /\ Range(job[k].msgs) \subseteq acked \union Range(batch[c])
      /\ \A d \in Clients : d # c /\ Committing(d) => JobKey(d) # k
    BY <1>1, CommittingKeys, OwnJob
<1>3. \A d \in Clients : d # c =>
            pc'[d] = pc[d] /\ qTrans'[d] = qTrans[d] /\ batch'[d] = batch[d]
    BY <1>0, <1>1 DEF Unlock, DropTrans
<1>4. pc'[c] = "idle" /\ ~Committing(c)'
    BY <1>0, <1>1 DEF Unlock, Committing
<1>5. \A d \in Clients : d # c =>
            (Committing(d)' <=> Committing(d)) /\ JobKey(d)' = JobKey(d)
    BY <1>1, <1>3 DEF Committing, JobKey
<1> HIDE DEF k
<1>6. job'[k] = NoJob /\ \A j \in Keys : j # k => job'[j] = job[j]
    BY <1>1, <1>2 DEF FileType
<1>7. NothingFromFailed' /\ acked \subseteq acked'
  <2>1. CASE UNCHANGED <<file, acked>>
    BY <2>1 DEF NothingFromFailed
  <2>2. CASE /\ file' = [file EXCEPT ![k] = @ \o job[k].msgs]
             /\ acked' = acked \union Range(batch[c])
    <3>1. Range(file[k] \o job[k].msgs) = Range(file[k]) \union Range(job[k].msgs)
      BY <1>2, RangeConcatenation
    <3> QED
      BY <1>2, <2>2, <3>1 DEF NothingFromFailed, FileType
  <2> QED
    BY <2>1, <2>2 DEF JobAbort, JobEnd, JobEndFails, history, k, JobKey
<1>8. \A d \in Clients : Committing(d)' => job'[JobKey(d)'].on
    BY <1>2, <1>4, <1>5, <1>6, CommittingKeys DEF JobsOwned
<1>9. ASSUME NEW j \in Keys, job'[j] # NoJob
      PROVE  \E d \in Clients :
                /\ Committing(d)' /\ JobKey(d)' = j
                /\ Range(job'[j].msgs) \subseteq acked' \union Range(batch'[d])
  <2>1. j # k /\ job'[j] = job[j]
    BY <1>6, <1>9
  <2>2. PICK d \in Clients :
                /\ Committing(d) /\ JobKey(d) = j
                /\ Range(job[j].msgs) \subseteq acked \union Range(batch[d])
    BY <1>9, <2>1 DEF JobsOwned
  <2>3. d # c
    BY <2>1, <2>2 DEF k
  <2> QED
    BY <1>3, <1>5, <1>7, <2>1, <2>2, <2>3
<1>10. \A d, e \in Clients :
        Committing(d)' /\ Committing(e)' /\ JobKey(d)' = JobKey(e)' => d = e
    BY <1>4, <1>5 DEF JobsOwned
<1> QED
    BY <1>7, <1>8, <1>9, <1>10 DEF JobsOwned

(* Close stops no queue with a job.                                        *)
LEMMA CloseNoJob ==
    ASSUME FileInv, NEW k \in Keys, mapKeyQueue[k] # 0, MayStop(k)
    PROVE  job[k] = NoJob /\ \A d \in Clients : Committing(d) => JobKey(d) # k
<1> USE DEF FileInv, OpenInv
<1>1. \A d \in Clients : qTrans[d] # mapKeyQueue[k]
    BY OnlyTheMap DEF MayStop
<1>2. \A d \in Clients : Committing(d) => JobKey(d) # k
  <2>1. \A d \in Clients : Committing(d) => mapKeyQueue[JobKey(d)] = qTrans[d]
    BY CommittingKeys DEF Registered, JobKey
  <2> QED
    BY <1>1, <2>1
<1> QED
    BY <1>2 DEF JobsOwned

LEMMA CloseJobs ==
    ASSUME FileInv, NEW c \in Clients, NEW permanent \in BOOLEAN,
           Close(c, permanent)
    PROVE  JobsOwned' /\ NothingFromFailed'
<1> USE TypeParts DEF TypedParts, FileInv, OpenInv
<1> DEFINE k == req[c].key
<1>1. /\ pc[c] = "closing" /\ pc' = [pc EXCEPT ![c] = "idle"]
      /\ UNCHANGED <<qTrans, batch, objs, acked>>
    BY DEF Close, Return, objVars
<1>2. pc'[c] = "idle" /\ \A d \in Clients : d # c => pc'[d] = pc[d]
    BY <1>1 DEF ReqType
<1>3. SameJobs
    BY <1>1, <1>2 DEF SameJobs, Committing, JobKey
<1>4. k \in Keys
    BY <1>1 DEF StepType, Requests
<1>5. CASE UNCHANGED <<job, file>>
    BY <1>3, <1>5, JobsFrame
<1>6. CASE /\ mapKeyQueue[k] # 0 /\ MayStop(k) /\ job' = [job EXCEPT ![k] = NoJob]
           /\ file' = file \/ file' = [file EXCEPT ![k] = <<>>]
  <2>1. job[k] = NoJob
    BY <1>4, <1>6, CloseNoJob
  <2> HIDE DEF k
  <2>2. \A j \in Keys : job'[j] = job[j]
    BY <1>4, <1>6, <2>1 DEF FileType
  <2>3. Range(<<>>) = {}
    BY DEF Range
  <2>4. \A j \in Keys : Range(file'[j]) \subseteq Range(file[j])
    BY <1>4, <1>6, <2>3 DEF FileType
  <2> QED
    BY <1>3, <2>2, <2>4, JobsFrame
<1> QED
    BY <1>5, <1>6 DEF Close

LEMMA NextFile == SoloCreate /\ FileInv /\ [Next]_vars => FileInv'
<1> SUFFICES ASSUME SoloCreate, FileInv, [Next]_vars
             PROVE  FileInv'
    OBVIOUS
<1>1. OpenInv'
    BY NextOpen DEF FileInv
<1>2. SUFFICES JobsOwned' /\ NothingFromFailed'
    BY <1>1 DEF FileInv
<1>3. CASE UNCHANGED vars
  <2>1. UNCHANGED <<pc, qTrans, batch, objs, job, file, acked>>
    BY <1>3 DEF vars, clientVars, objVars, coreVars, history
  <2>2. SameJobs
    BY <2>1 DEF SameJobs, Committing, JobKey
  <2> QED
    BY <2>1, <2>2, JobsFrame DEF FileInv, OpenInv
<1>4. ASSUME SameJobs, UNCHANGED <<job, file, acked>>
      PROVE  JobsOwned' /\ NothingFromFailed'
    BY <1>4, JobsFrame DEF FileInv, OpenInv
<1>5. ASSUME NEW c \in Clients, Request(c)
      PROVE  JobsOwned' /\ NothingFromFailed'
  <2>1. CASE EndTransOne(c) \/ EndTransJob(c)
    BY <2>1, EnqueueJobs, JobBegins
  <2>2. CASE \/ \E k \in Keys : \/ \E n \in 1 .. 2 : EnqueueFind(c, k, n)
                                \/ DequeueFind(c, k) \/ StartTrans(c, k)
                                \/ CloseDrop(c, k)
             \/ EndTransDrop(c) \/ OnBaseRequestArrive(c)
    BY <1>4, <2>2, OtherOwned
  <2> QED
    BY <1>5, <2>1, <2>2 DEF Request
<1>6. ASSUME NEW c \in Clients, GoOn(c)
      PROVE  JobsOwned' /\ NothingFromFailed'
  <2>1. CASE Make(c) \/ MakeFails(c) \/ Register(c) \/ Dequeue(c) \/ DequeueCount(c)
    BY <1>4, <2>1, OtherOwned
  <2>2. CASE Enqueue(c)
    BY <2>2, EnqueueJobs
  <2>3. CASE JobFill(c) \/ JobFillPart(c) \/ JobAbort(c) \/ JobEnd(c) \/ JobEndFails(c)
    BY <2>3, JobFills, JobEnds
  <2> QED
    BY <1>6, <2>1, <2>2, <2>3, CloseJobs DEF GoOn
<1>7. ASSUME NEW c \in Clients, Confirm(c)
      PROVE  JobsOwned' /\ NothingFromFailed'
    BY <1>7, EnqueueJobs
<1>8. ASSUME NEW c \in Clients, OnSwitchFrom(c) \/ OnReleaseSource(c)
      PROVE  JobsOwned' /\ NothingFromFailed'
    BY <1>4, <1>8, OtherOwned
<1> QED
    BY <1>3, <1>5, <1>6, <1>7, <1>8 DEF Next

LEMMA InitFile == Init => FileInv
<1> SUFFICES ASSUME Init
             PROVE  FileInv
    OBVIOUS
<1>1. OpenInv
    BY InitOpen
<1>2. Range(<<>>) = {}
    BY DEF Range
<1>3. JobsOwned /\ NothingFromFailed
    BY <1>2 DEF Init, JobsOwned, NothingFromFailed, Committing
<1> QED
    BY <1>1, <1>3 DEF FileInv

LEMMA FilesOwned ==
    ASSUME SoloCreate
    PROVE  Spec => []FileInv
<1>1. Init => FileInv
    BY InitFile
<1>2. FileInv /\ [Next]_vars => FileInv'
    BY NextFile
<1> QED
    BY <1>1, <1>2, PTL DEF Spec

(* Also when the disk fails, and whatever other clients enqueue into a job *)
(* that goes on, a transaction that was rolled back, canceled or reported  *)
(* as failed leaves nothing in a queue file.                               *)
THEOREM FailedLeavesNothing ==
    ASSUME SoloCreate
    PROVE  Spec => []NothingFromFailed
<1>1. FileInv => NothingFromFailed
    BY DEF FileInv
<1> QED
    BY <1>1, FilesOwned, PTL
----------------------------------------------------------------------------
(* What a step leaves alone of a client, and of what is stored.            *)
Untouched(d) ==
    /\ pc'[d] = pc[d] /\ req'[d] = req[d] /\ p'[d] = p[d]
    /\ qTrans'[d] = qTrans[d] /\ batch'[d] = batch[d]

LEMMA KeysFrame ==
    ASSUME TypeOK, NEW d \in Clients, KeysOf(d), Untouched(d), keyOf' = keyOf,
           \A i \in 1 .. Len(objs) : objs'[i] = objs[i],
           pc[d] = "filled" => Range(job[JobKey(d)].msgs)
                                    \subseteq Range(job'[JobKey(d)].msgs)
    PROVE  KeysOf(d)'
<1> USE TypeParts DEF TypedParts
<1>1. /\ qTrans[d] # 0 => qTrans[d] \in 1 .. Len(objs)
      /\ pc[d] = "ready" => p[d] \in 1 .. Len(objs)
      /\ pc[d] = "filled" => qTrans[d] # 0
    BY DEF TransType, ReqType, StepType, ObjType
<1>2. qTrans[d] # 0 => JobKey(d)' = JobKey(d)
    BY <1>1 DEF JobKey, Untouched
<1> QED
    BY <1>1, <1>2 DEF KeysOf, Untouched

LEMMA AckFrame ==
    ASSUME TypeOK, AckedKept, acked' = acked, keyOf' = keyOf,
           delivered \subseteq delivered', deleted \subseteq deleted',
           \A k \in Keys : Range(file[k]) \union Range(job[k].msgs) \subseteq
                Range(file'[k]) \union Range(job'[k].msgs)
                    \union delivered' \union deleted'
    PROVE  AckedKept'
<1>1. \A m \in acked : keyOf[m] \in Keys
    BY TypeParts DEF TypedParts, HistoryType
<1> QED
    BY <1>1 DEF AckedKept

(* The steps that store and report nothing.                                *)
LEMMA OtherKeys ==
    ASSUME OneKeyTrans, AckInv, NEW c \in Clients,
           \/ \E k \in Keys : \/ \E n \in 1 .. 2 : EnqueueFind(c, k, n)
                              \/ DequeueFind(c, k) \/ StartTrans(c, k)
                              \/ CloseDrop(c, k)
           \/ EndTransDrop(c) \/ OnBaseRequestArrive(c) \/ Make(c) \/ MakeFails(c)
           \/ Register(c) \/ Dequeue(c) \/ DequeueCount(c) \/ OnSwitchFrom(c)
           \/ OnReleaseSource(c)
    PROVE  KeysKept' /\ AckedKept'
<1> USE TypeParts DEF TypedParts, AckInv, FileInv, OpenInv
<1>0. /\ qTrans \in [Clients -> 0 .. Len(objs)] /\ pc \in [Clients -> Steps]
      /\ batch \in [Clients -> Seq(Msg)] /\ p \in [Clients -> 0 .. Len(objs)]
      /\ req \in [Clients -> Requests \union {NoReq}]
    BY DEF TransType, ReqType
<1>1. /\ UNCHANGED <<job, file, acked>>
      /\ \A i \in 1 .. Len(objs) : objs'[i] = objs[i]
  <2>1. UNCHANGED <<job, file, acked>>
    BY OtherOwned
  <2>2. CASE Make(c) \/ \E k \in Keys : StartTrans(c, k)
    <3>1. PICK k \in Keys, o \in Obj : UNCHANGED objs \/ Construct(k, o)
      <4>1. CASE Make(c)
        <5>1. req[c].key \in Keys
          BY <4>1 DEF Make, StepType, Requests
        <5> QED
          BY <4>1, <5>1 DEF Make
      <4>2. CASE \E k \in Keys : StartTrans(c, k)
        BY <4>2 DEF StartTrans
      <4> QED
        BY <2>2, <4>1, <4>2
    <3> QED
      BY <2>1, <3>1, ConstructProperties
  <2>3. CASE ~(Make(c) \/ \E k \in Keys : StartTrans(c, k))
    <3>1. UNCHANGED objs
      BY <2>3 DEF EnqueueFind, DequeueFind, CloseDrop, EndTransDrop,
                  OnBaseRequestArrive, MakeFails, Register, Dequeue,
                  DequeueCount, OnSwitchFrom, OnReleaseSource, objVars
    <3> QED
      BY <2>1, <3>1
  <2> QED
    BY <2>2, <2>3
<1>2. UNCHANGED <<keyOf, delivered, deleted>>
  <2>1. ASSUME NEW k \in Keys,
               \/ \E n \in 1 .. 2 : EnqueueFind(c, k, n)
               \/ DequeueFind(c, k) \/ StartTrans(c, k) \/ CloseDrop(c, k)
        PROVE  UNCHANGED <<keyOf, delivered, deleted>>
    BY <2>1 DEF EnqueueFind, DequeueFind, StartTrans, CloseDrop, history
  <2>2. CASE \/ EndTransDrop(c) \/ OnBaseRequestArrive(c) \/ Make(c) \/ MakeFails(c)
             \/ Register(c) \/ Dequeue(c) \/ DequeueCount(c) \/ OnSwitchFrom(c)
             \/ OnReleaseSource(c)
    BY <2>2 DEF EndTransDrop, OnBaseRequestArrive, Make, MakeFails, Register,
                Dequeue, DequeueCount, OnSwitchFrom, OnReleaseSource, history
  <2> QED
    BY <2>1, <2>2
<1>3. AckedKept'
    BY <1>1, <1>2, AckFrame
<1>4. SUFFICES (\A d \in Clients : d # c => Untouched(d)) /\ KeysOf(c)'
  <2>1. \A d \in Clients : d # c => KeysOf(d)'
    BY <1>1, <1>2, <1>4, KeysFrame DEF KeysKept
  <2> QED
    BY <1>3, <1>4, <2>1 DEF KeysKept
<1>5. KeysOf(c)
    BY DEF KeysKept
<1>6. DropTrans(c) => /\ qTrans'[c] = 0 /\ batch'[c] = <<>>
                      /\ \A d \in Clients : d # c =>
                            qTrans'[d] = qTrans[d] /\ batch'[d] = batch[d]
    BY <1>0 DEF DropTrans
<1>7. CASE \E k \in Keys, n \in 1 .. 2 : EnqueueFind(c, k, n)
  <2>1. PICK k \in Keys, n \in 1 .. 2 : EnqueueFind(c, k, n)
    BY <1>7
  <2> DEFINE o == IF qTrans[c] # 0 THEN qTrans[c] ELSE mapKeyQueue[k]
             ms == [i \in 1 .. n |-> msgs + i]
             r == [op |-> "enqueue", key |-> k, msgs |-> ms]
  <2>2. /\ pc[c] = "idle" /\ (qTrans[c] # 0 => objs[qTrans[c]].key = k)
        /\ \A i \in 1 .. n : keyOf[msgs + i] = k
        /\ req' = [req EXCEPT ![c] = r] /\ Find(c, o)
        /\ UNCHANGED <<qTrans, batch, objs>>
    BY <2>1 DEF EnqueueFind, Arrives, objVars
  <2>3. /\ req'[c].msgs = ms /\ req'[c].key = k /\ p'[c] = o
        /\ pc'[c] = IF o # 0 THEN "ready" ELSE "missing"
        /\ \A d \in Clients : d # c => Untouched(d)
    BY <1>0, <2>2 DEF Find, Untouched
  <2>4. \A m \in Range(ms) : keyOf[m] = k
    BY <2>2 DEF Range
  <2>5. o # 0 => objs[o].key = k
    BY <2>2 DEF Registered
  <2>6. JobKey(c)' = JobKey(c)
    BY <2>2 DEF JobKey
  <2> HIDE DEF ms, o
  <2>7. qTrans[c] # 0 => o = qTrans[c]
    BY DEF o
  <2> QED
    BY <1>2, <1>5, <2>2, <2>3, <2>4, <2>5, <2>6, <2>7 DEF KeysOf
<1>8. CASE \E k \in Keys : DequeueFind(c, k)
  <2>1. PICK k \in Keys : DequeueFind(c, k)
    BY <1>8
  <2>2. /\ req' = [req EXCEPT ![c] = [op |-> "dequeue", key |-> k, msgs |-> <<>>]]
        /\ Find(c, mapKeyQueue[k]) /\ UNCHANGED <<qTrans, batch, objs>>
    BY <2>1 DEF DequeueFind, objVars
  <2>3. /\ req'[c].op = "dequeue" /\ pc'[c] \in {"ready", "missing"}
        /\ \A d \in Clients : d # c => Untouched(d)
    BY <1>0, <2>2 DEF Find, Untouched
  <2>4. JobKey(c)' = JobKey(c)
    BY <2>2 DEF JobKey
  <2> QED
    BY <1>2, <1>5, <2>2, <2>3, <2>4 DEF KeysOf
<1>9. CASE \E k \in Keys : StartTrans(c, k)
  <2>1. /\ pc[c] = "idle" /\ qTrans[c] = 0 /\ UNCHANGED <<pc, req, p, batch>>
        /\ \E o \in Obj : qTrans' = [qTrans EXCEPT ![c] = o]
    BY <1>9 DEF StartTrans, Arrives
  <2>2. \A d \in Clients : d # c => Untouched(d)
    BY <1>0, <2>1 DEF Untouched
  <2>3. batch'[c] = <<>> /\ Range(<<>>) = {}
    BY <1>5, <2>1 DEF KeysOf, Range
  <2> QED
    BY <2>1, <2>2, <2>3 DEF KeysOf
<1>10. CASE \E k \in Keys : CloseDrop(c, k)
  <2>1. PICK k \in Keys : CloseDrop(c, k)
    BY <1>10
  <2>2. /\ DropTrans(c) /\ pc' = [pc EXCEPT ![c] = "closing"] /\ UNCHANGED p
        /\ req' = [req EXCEPT ![c] = [op |-> "close", key |-> k, msgs |-> <<>>]]
    BY <2>1 DEF CloseDrop
  <2>3. pc'[c] = "closing" /\ \A d \in Clients : d # c => Untouched(d)
    BY <1>0, <1>6, <2>2 DEF Untouched
  <2> QED
    BY <1>6, <2>2, <2>3 DEF KeysOf
<1>11. CASE EndTransDrop(c) \/ OnBaseRequestArrive(c) \/ OnReleaseSource(c)
  <2>1. pc[c] = "idle" /\ DropTrans(c) /\ UNCHANGED <<pc, req, p>>
    BY <1>11 DEF EndTransDrop, InTrans, OnBaseRequestArrive, OnReleaseSource
  <2> QED
    BY <1>6, <2>1 DEF Untouched, KeysOf
<1>12. CASE Make(c)
  <2>1. PICK o \in Obj : p' = [p EXCEPT ![c] = o]
    BY <1>12 DEF Make
  <2>2. /\ pc[c] = "missing" /\ pc' = [pc EXCEPT ![c] = "created"]
        /\ UNCHANGED <<qTrans, batch, req>>
    BY <1>12 DEF Make
  <2>3. pc'[c] = "created" /\ \A d \in Clients : d # c => Untouched(d)
    BY <1>0, <2>1, <2>2 DEF Untouched
  <2>4. qTrans[c] # 0 => JobKey(c)' = JobKey(c)
    <3>1. qTrans[c] # 0 => qTrans[c] \in 1 .. Len(objs)
      BY <1>0 DEF ObjType
    <3> QED
      BY <1>1, <2>2, <3>1 DEF JobKey
  <2> QED
    BY <1>2, <1>5, <2>2, <2>3, <2>4 DEF KeysOf
<1>13. CASE MakeFails(c) \/ DequeueCount(c)
  <2>1. Return(c) /\ UNCHANGED <<qTrans, batch, objs>>
    BY <1>13 DEF MakeFails, DequeueCount, objVars
  <2>2. pc'[c] = "idle" /\ \A d \in Clients : d # c => Untouched(d)
    BY <1>0, <2>1 DEF Untouched, Return
  <2>3. JobKey(c)' = JobKey(c)
    BY <2>1 DEF JobKey
  <2> QED
    BY <1>2, <1>5, <2>1, <2>2, <2>3 DEF KeysOf
<1>14. CASE Register(c)
  <2>1. /\ pc[c] = "created" /\ pc' = [pc EXCEPT ![c] = "ready"]
        /\ UNCHANGED <<qTrans, batch, req, p, objs>>
    BY <1>14 DEF Register, objVars
  <2>2. pc'[c] = "ready" /\ \A d \in Clients : d # c => Untouched(d)
    BY <1>0, <2>1 DEF Untouched
  <2>3. objs[p[c]].key = req[c].key
    BY <2>1 DEF Registered
  <2>4. JobKey(c)' = JobKey(c)
    BY <2>1 DEF JobKey
  <2> QED
    BY <1>2, <1>5, <2>1, <2>2, <2>3, <2>4 DEF KeysOf
<1>15. CASE Dequeue(c)
  <2>1. /\ pc' = [pc EXCEPT ![c] = "counting"]
        /\ UNCHANGED <<qTrans, batch, req, p, objs>>
    BY <1>15 DEF Dequeue, objVars
  <2>2. pc'[c] = "counting" /\ \A d \in Clients : d # c => Untouched(d)
    BY <1>0, <2>1 DEF Untouched
  <2>3. JobKey(c)' = JobKey(c)
    BY <2>1 DEF JobKey
  <2> QED
    BY <1>2, <1>5, <2>1, <2>2, <2>3 DEF KeysOf
<1>16. CASE OnSwitchFrom(c)
  <2>1. UNCHANGED <<pc, req, p, qTrans, batch, objs>>
    BY <1>16 DEF OnSwitchFrom, clientVars, objVars
  <2> QED
    BY <1>1, <1>2, <1>5, <2>1, KeysFrame DEF Untouched
<1> QED
    BY <1>7, <1>8, <1>9, <1>10, <1>11, <1>12, <1>13, <1>14, <1>15, <1>16

(* Messages of key k that are enqueued and reported are stored, and jobs   *)
(* lose nothing.                                                           *)
LEMMA StoreKept ==
    ASSUME TypeOK, AckedKept, NEW k \in Keys, NEW ms \in Seq(Msg),
           CoreEnqueue(k, ms), acked' = acked \union Range(ms),
           \A m \in Range(ms) : keyOf[m] = k,
           UNCHANGED <<keyOf, delivered, deleted>>
    PROVE  /\ AckedKept'
           /\ \A j \in Keys : Range(job[j].msgs) \subseteq Range(job'[j].msgs)
<1>1. /\ \A j \in Keys : j # k => file'[j] = file[j] /\ job'[j] = job[j]
      /\ IF job[k].on
         THEN /\ file'[k] = file[k]
              /\ Range(job'[k].msgs) = Range(job[k].msgs) \union Range(ms)
         ELSE /\ job'[k] = job[k]
              /\ Range(file'[k]) = Range(file[k]) \union Range(ms)
    BY CoreEnqueueProperties, TypeParts DEF TypedParts
<1>2. \A j \in Keys : /\ Range(job[j].msgs) \subseteq Range(job'[j].msgs)
                      /\ Range(file[j]) \subseteq Range(file'[j])
    BY <1>1
<1>3. \A m \in acked : keyOf[m] \in Keys
    BY TypeParts DEF TypedParts, HistoryType
<1>4. ASSUME NEW m \in Range(ms)
      PROVE  m \in Range(file'[k]) \union Range(job'[k].msgs)
    BY <1>1
<1>5. ASSUME NEW m \in acked'
      PROVE  \/ m \in delivered' \union deleted'
             \/ m \in Range(file'[keyOf'[m]]) \union Range(job'[keyOf'[m]].msgs)
  <2>1. CASE m \in Range(ms)
    BY <1>4, <2>1
  <2>2. CASE m \in acked
    BY <1>2, <1>3, <2>2 DEF AckedKept
  <2> QED
    BY <1>5, <2>1, <2>2
<1> QED
    BY <1>2, <1>5 DEF AckedKept

LEMMA EnqueueAck ==
    ASSUME AckInv, NEW c \in Clients, Enqueue(c)
    PROVE  KeysKept' /\ AckedKept'
<1> USE TypeParts DEF TypedParts, AckInv, FileInv, OpenInv
<1>0. /\ qTrans \in [Clients -> 0 .. Len(objs)] /\ pc \in [Clients -> Steps]
      /\ batch \in [Clients -> Seq(Msg)] /\ p \in [Clients -> 0 .. Len(objs)]
      /\ req \in [Clients -> Requests \union {NoReq}]
    BY DEF TransType, ReqType
<1>1. /\ pc[c] = "ready" /\ req[c].op = "enqueue" /\ Return(c)
      /\ UNCHANGED <<qTrans, objs, keyOf, delivered, deleted>>
    BY DEF Enqueue, objVars
<1>2. /\ req[c].msgs \in Seq(Msg) /\ p[c] \in 1 .. Len(objs)
      /\ objs[p[c]].key \in Keys
    BY <1>1, ObjProperties DEF StepType, ReqType, Requests, ObjType
<1>3. /\ KeysOf(c) /\ \A m \in Range(req[c].msgs) : keyOf[m] = objs[p[c]].key
      /\ qTrans[c] # 0 => objs[p[c]].key = JobKey(c)
    BY <1>1 DEF KeysKept, KeysOf, JobKey
<1>4. /\ pc'[c] = "idle" /\ JobKey(c)' = JobKey(c)
      /\ \A d \in Clients : d # c => pc'[d] = pc[d] /\ req'[d] = req[d] /\ p'[d] = p[d]
    BY <1>0, <1>1 DEF Return, JobKey
<1>5. CASE qTrans[c] # 0
  <2>1. batch' = [batch EXCEPT ![c] = @ \o req[c].msgs] /\ UNCHANGED <<job, file, acked>>
    BY <1>5 DEF Enqueue
  <2>2. AckedKept'
    BY <1>1, <2>1, AckFrame
  <2>3. \A d \in Clients : d # c => Untouched(d)
    BY <1>0, <1>1, <1>4, <2>1 DEF Untouched
  <2>4. \A d \in Clients : d # c => KeysOf(d)'
    BY <1>1, <2>1, <2>3, KeysFrame DEF KeysKept
  <2>5. Range(batch'[c]) = Range(batch[c]) \union Range(req[c].msgs)
    <3>1. batch[c] \in Seq(Msg) /\ batch'[c] = batch[c] \o req[c].msgs
      BY <1>0, <2>1
    <3> QED
      BY <1>2, <3>1, RangeConcatenation
  <2>6. KeysOf(c)'
    BY <1>1, <1>3, <1>4, <1>5, <2>5 DEF KeysOf
  <2> QED
    BY <2>2, <2>4, <2>6 DEF KeysKept
<1>6. CASE qTrans[c] = 0
  <2>1. /\ batch' = batch
        /\ \/ UNCHANGED <<job, file, acked>>
           \/ /\ CoreEnqueue(objs[p[c]].key, req[c].msgs)
              /\ acked' = acked \union Range(req[c].msgs)
    BY <1>6 DEF Enqueue
  <2>2. /\ AckedKept'
        /\ \A j \in Keys : Range(job[j].msgs) \subseteq Range(job'[j].msgs)
    <3>1. CASE UNCHANGED <<job, file, acked>>
      BY <1>1, <3>1, AckFrame
    <3>2. CASE /\ CoreEnqueue(objs[p[c]].key, req[c].msgs)
               /\ acked' = acked \union Range(req[c].msgs)
      BY <1>1, <1>2, <1>3, <3>2, StoreKept
    <3> QED
      BY <2>1, <3>1, <3>2
  <2>3. \A d \in Clients : d # c => Untouched(d)
    BY <1>1, <1>4, <2>1 DEF Untouched
  <2>4. \A d \in Clients : pc[d] = "filled" => JobKey(d) \in Keys
    BY CommittingKeys DEF Committing
  <2>5. \A d \in Clients : d # c => KeysOf(d)'
    BY <1>1, <2>2, <2>3, <2>4, KeysFrame DEF KeysKept
  <2>6. KeysOf(c)'
    BY <1>1, <1>3, <1>4, <1>6, <2>1 DEF KeysOf
  <2> QED
    BY <2>2, <2>5, <2>6 DEF KeysKept
<1> QED
    BY <1>5, <1>6

LEMMA EndTransOneAck ==
    ASSUME AckInv, NEW c \in Clients, EndTransOne(c)
    PROVE  KeysKept' /\ AckedKept'
<1> USE TypeParts DEF TypedParts, AckInv, FileInv, OpenInv
<1>0. /\ qTrans \in [Clients -> 0 .. Len(objs)] /\ batch \in [Clients -> Seq(Msg)]
    BY DEF TransType
<1>1. /\ pc[c] = "idle" /\ qTrans[c] # 0 /\ DropTrans(c)
      /\ UNCHANGED <<pc, req, p, objs, keyOf, delivered, deleted>>
    BY DEF EndTransOne, InTrans, objVars
<1>2. batch[c] \in Seq(Msg) /\ JobKey(c) \in Keys
    BY <1>0, <1>1, ObjProperties DEF JobKey, ObjType
<1>3. \A m \in Range(batch[c]) : keyOf[m] = JobKey(c)
    BY <1>1 DEF KeysKept, KeysOf
<1>4. /\ AckedKept'
      /\ \A j \in Keys : Range(job[j].msgs) \subseteq Range(job'[j].msgs)
  <2>1. CASE UNCHANGED <<job, file, acked>>
    BY <1>1, <2>1, AckFrame
  <2>2. CASE /\ CoreEnqueue(JobKey(c), batch[c])
             /\ acked' = acked \union Range(batch[c])
    BY <1>1, <1>2, <1>3, <2>2, StoreKept
  <2> QED
    BY <2>1, <2>2 DEF EndTransOne, JobKey
<1>5. /\ qTrans'[c] = 0 /\ batch'[c] = <<>>
      /\ \A d \in Clients : d # c => Untouched(d)
    BY <1>0, <1>1 DEF Untouched, DropTrans
<1>6. \A d \in Clients : pc[d] = "filled" => JobKey(d) \in Keys
    BY CommittingKeys DEF Committing
<1>7. \A d \in Clients : d # c => KeysOf(d)'
    BY <1>1, <1>4, <1>5, <1>6, KeysFrame DEF KeysKept
<1>8. KeysOf(c)'
    BY <1>1, <1>5 DEF KeysOf
<1> QED
    BY <1>4, <1>7, <1>8 DEF KeysKept

(* A confirmed message leaves its file as delivered.                       *)
LEMMA ConfirmAck ==
    ASSUME AckInv, NEW c \in Clients, Confirm(c)
    PROVE  KeysKept' /\ AckedKept'
<1> USE TypeParts DEF TypedParts, AckInv, FileInv, OpenInv
<1>1. UNCHANGED <<pc, req, p, qTrans, batch, objs, job, keyOf, acked, deleted>>
    BY DEF Confirm, clientVars, objVars
<1>2. KeysKept'
    BY <1>1, KeysFrame DEF KeysKept, Untouched
<1>3. PICK m \in deq[c] :
        /\ \E k \in Keys : \E i \in 1 .. Len(file[k]) :
            file[k][i] = m /\ file' = [file EXCEPT ![k] = RemoveAt(@, i)]
        /\ delivered' = delivered \union {m}
    BY DEF Confirm
<1>4. PICK k \in Keys : \E i \in 1 .. Len(file[k]) :
            file[k][i] = m /\ file' = [file EXCEPT ![k] = RemoveAt(@, i)]
    BY <1>3
<1>5. PICK i \in 1 .. Len(file[k]) :
            file[k][i] = m /\ file' = [file EXCEPT ![k] = RemoveAt(@, i)]
    BY <1>4
<1>6. Range(file[k]) \subseteq Range(RemoveAt(file[k], i)) \union {m}
    BY <1>5, RemoveAtRange DEF FileType
<1>7. \A j \in Keys : Range(file[j]) \subseteq Range(file'[j]) \union delivered'
  <2>1. file'[k] = RemoveAt(file[k], i) /\ \A j \in Keys : j # k => file'[j] = file[j]
    BY <1>5 DEF FileType
  <2> QED
    BY <1>3, <1>6, <2>1
<1>8. AckedKept'
  <2>1. delivered \subseteq delivered'
    BY <1>3
  <2>2. \A j \in Keys : Range(file[j]) \union Range(job[j].msgs) \subseteq
                Range(file'[j]) \union Range(job'[j].msgs)
                    \union delivered' \union deleted'
    BY <1>1, <1>7
  <2> QED
    BY <1>1, <2>1, <2>2, AckFrame
<1> QED
    BY <1>2, <1>8

(* The steps of a commit: the job begins, ...                              *)
LEMMA BeginAck ==
    ASSUME AckInv, NEW c \in Clients, EndTransJob(c)
    PROVE  KeysKept' /\ AckedKept'
<1> USE TypeParts DEF TypedParts, AckInv, FileInv, OpenInv
<1>0. /\ qTrans \in [Clients -> 0 .. Len(objs)] /\ batch \in [Clients -> Seq(Msg)]
      /\ pc \in [Clients -> Steps]
    BY DEF TransType, ReqType
<1>1. /\ pc[c] = "idle" /\ qTrans[c] # 0
      /\ UNCHANGED <<req, p, objs, keyOf, file, acked, delivered, deleted>>
    BY DEF EndTransJob, InTrans, history
<1>2. JobKey(c) \in Keys
    BY <1>0, <1>1, ObjProperties DEF JobKey, ObjType
<1>3. \A j \in Keys : job'[j].msgs = job[j].msgs
  <2>1. job' = job \/ job' = [job EXCEPT ![JobKey(c)].on = TRUE]
    BY DEF EndTransJob, JobKey
  <2>2. job' = [job EXCEPT ![JobKey(c)].on = TRUE] =>
            /\ job'[JobKey(c)].msgs = job[JobKey(c)].msgs
            /\ \A j \in Keys : j # JobKey(c) => job'[j] = job[j]
    BY <1>2 DEF FileType
  <2> QED
    BY <2>1, <2>2
<1>4. AckedKept'
    BY <1>1, <1>3, AckFrame
<1>5. KeysOf(c)
    BY DEF KeysKept
<1>6. CASE pc' = [pc EXCEPT ![c] = "job"] /\ UNCHANGED <<qTrans, batch>>
  <2>1. pc'[c] = "job" /\ \A d \in Clients : d # c => Untouched(d)
    BY <1>0, <1>1, <1>6 DEF Untouched
  <2>2. \A d \in Clients : pc[d] = "filled" => JobKey(d) \in Keys
    BY CommittingKeys DEF Committing
  <2>3. \A d \in Clients : d # c => KeysOf(d)'
    BY <1>1, <1>3, <2>1, <2>2, KeysFrame DEF KeysKept
  <2>4. JobKey(c)' = JobKey(c)
    BY <1>1, <1>6 DEF JobKey
  <2>5. KeysOf(c)'
    BY <1>1, <1>5, <1>6, <2>1, <2>4 DEF KeysOf
  <2> QED
    BY <1>4, <2>3, <2>5 DEF KeysKept
<1>7. CASE DropTrans(c) /\ UNCHANGED pc
  <2>1. /\ qTrans'[c] = 0 /\ batch'[c] = <<>>
        /\ \A d \in Clients : d # c => Untouched(d)
    BY <1>0, <1>1, <1>7 DEF Untouched, DropTrans
  <2>2. \A d \in Clients : pc[d] = "filled" => JobKey(d) \in Keys
    BY CommittingKeys DEF Committing
  <2>3. \A d \in Clients : d # c => KeysOf(d)'
    BY <1>1, <1>3, <2>1, <2>2, KeysFrame DEF KeysKept
  <2>4. KeysOf(c)'
    BY <1>1, <1>7, <2>1 DEF KeysOf
  <2> QED
    BY <1>4, <2>3, <2>4 DEF KeysKept
<1> QED
    BY <1>6, <1>7 DEF EndTransJob

(* ... gets the messages of the transaction, ...                           *)
LEMMA FillAck ==
    ASSUME AckInv, NEW c \in Clients, JobFill(c)
    PROVE  KeysKept' /\ AckedKept'
<1> USE TypeParts DEF TypedParts, AckInv, FileInv, OpenInv
<1> DEFINE k == JobKey(c)
<1>0. batch[c] \in Seq(Msg) /\ pc \in [Clients -> Steps]
    BY DEF TransType, ReqType
<1>1. /\ pc[c] = "job" /\ pc' = [pc EXCEPT ![c] = "filled"]
      /\ job' = [job EXCEPT ![k].msgs = @ \o batch[c]]
      /\ UNCHANGED <<qTrans, batch, req, p, objs, keyOf, file, acked, delivered,
                     deleted>>
    BY DEF JobFill, JobKey, objVars, history
<1>2. k \in Keys /\ job[k].msgs \in Seq(Msg) /\ qTrans[c] # 0
    BY <1>1, CommittingKeys DEF Committing
<1>3. JobKey(c)' = k
    BY <1>1 DEF JobKey
<1> HIDE DEF k
<1>4. Range(job'[k].msgs) = Range(job[k].msgs) \union Range(batch[c])
  <2>1. job'[k].msgs = job[k].msgs \o batch[c]
    BY <1>1, <1>2 DEF FileType
  <2> QED
    BY <1>0, <1>2, <2>1, RangeConcatenation
<1>5. \A j \in Keys : Range(job[j].msgs) \subseteq Range(job'[j].msgs)
  <2>1. \A j \in Keys : j # k => job'[j] = job[j]
    BY <1>1, <1>2 DEF FileType
  <2> QED
    BY <1>4, <2>1
<1>6. AckedKept'
    BY <1>1, <1>5, AckFrame
<1>7. pc'[c] = "filled" /\ \A d \in Clients : d # c => Untouched(d)
    BY <1>0, <1>1 DEF Untouched
<1>8. \A d \in Clients : pc[d] = "filled" => JobKey(d) \in Keys
    BY CommittingKeys DEF Committing
<1>9. \A d \in Clients : d # c => KeysOf(d)'
    BY <1>1, <1>5, <1>7, <1>8, KeysFrame DEF KeysKept
<1>10. KeysOf(c)'
  <2>1. \A m \in Range(batch[c]) : keyOf[m] = k
    BY <1>2 DEF KeysKept, KeysOf, k
  <2> QED
    BY <1>1, <1>2, <1>3, <1>4, <1>7, <2>1 DEF KeysOf
<1> QED
    BY <1>6, <1>9, <1>10 DEF KeysKept

(* ... and ends with them in the file.                                     *)
LEMMA EndAck ==
    ASSUME AckInv, NEW c \in Clients, JobEnd(c)
    PROVE  KeysKept' /\ AckedKept'
<1> USE TypeParts DEF TypedParts, AckInv, FileInv, OpenInv
<1> DEFINE k == JobKey(c)
<1>0. /\ qTrans \in [Clients -> 0 .. Len(objs)] /\ batch \in [Clients -> Seq(Msg)]
      /\ pc \in [Clients -> Steps]
    BY DEF TransType, ReqType
<1>1. /\ pc[c] = "filled" /\ pc' = [pc EXCEPT ![c] = "idle"] /\ DropTrans(c)
      /\ file' = [file EXCEPT ![k] = @ \o job[k].msgs]
      /\ job' = [job EXCEPT ![k] = NoJob]
      /\ acked' = acked \union Range(batch[c])
      /\ UNCHANGED <<req, p, objs, keyOf, delivered, deleted>>
    BY DEF JobEnd, Unlock, JobKey
<1>2. /\ k \in Keys /\ job[k].msgs \in Seq(Msg) /\ file[k] \in Seq(Msg)
      /\ qTrans[c] # 0
    BY <1>1, CommittingKeys DEF Committing
<1>3. /\ \A m \in Range(batch[c]) : keyOf[m] = k
      /\ Range(batch[c]) \subseteq Range(job[k].msgs)
    BY <1>1, <1>2 DEF KeysKept, KeysOf
<1>4. \A d \in Clients : d # c /\ pc[d] = "filled" => JobKey(d) \in Keys /\ JobKey(d) # k
    BY <1>1, CommittingKeys DEF Committing, JobsOwned
<1> HIDE DEF k
<1>5. /\ Range(file'[k]) = Range(file[k]) \union Range(job[k].msgs)
      /\ \A j \in Keys : j # k => file'[j] = file[j] /\ job'[j] = job[j]
  <2>1. file'[k] = file[k] \o job[k].msgs
    BY <1>1, <1>2 DEF FileType
  <2>2. \A j \in Keys : j # k => file'[j] = file[j] /\ job'[j] = job[j]
    BY <1>1, <1>2 DEF FileType
  <2> QED
    BY <1>2, <2>1, <2>2, RangeConcatenation
<1>6. ASSUME NEW m \in acked'
      PROVE  \/ m \in delivered' \union deleted'
             \/ m \in Range(file'[keyOf'[m]]) \union Range(job'[keyOf'[m]].msgs)
  <2>1. CASE m \in Range(batch[c])
    BY <1>1, <1>3, <1>5, <2>1
  <2>2. CASE m \in acked
    <3>1. keyOf[m] \in Keys
      BY <2>2 DEF HistoryType
    <3>2. CASE keyOf[m] = k
      BY <1>1, <1>5, <2>2, <3>2 DEF AckedKept
    <3>3. CASE keyOf[m] # k
      BY <1>1, <1>5, <2>2, <3>1, <3>3 DEF AckedKept
    <3> QED
      BY <3>2, <3>3
  <2> QED
    BY <1>1, <1>6, <2>1, <2>2
<1>7. AckedKept'
    BY <1>6 DEF AckedKept
<1>8. /\ pc'[c] = "idle" /\ qTrans'[c] = 0 /\ batch'[c] = <<>>
      /\ \A d \in Clients : d # c => Untouched(d)
    BY <1>0, <1>1 DEF Untouched, DropTrans
<1>9. \A d \in Clients : d # c => KeysOf(d)'
    BY <1>1, <1>4, <1>5, <1>8, KeysFrame DEF KeysKept
<1>10. KeysOf(c)'
    BY <1>8 DEF KeysOf
<1> QED
    BY <1>7, <1>9, <1>10 DEF KeysKept

(* Close stops a queue without a job; what it deletes is deleted for good. *)
LEMMA CloseAck ==
    ASSUME AckInv, NEW c \in Clients, NEW permanent \in BOOLEAN,
           Close(c, permanent)
    PROVE  KeysKept' /\ AckedKept'
<1> USE TypeParts DEF TypedParts, AckInv, FileInv, OpenInv
<1> DEFINE k == req[c].key
<1>0. /\ pc \in [Clients -> Steps] /\ p \in [Clients -> 0 .. Len(objs)]
      /\ req \in [Clients -> Requests \union {NoReq}]
    BY DEF ReqType
<1>1. /\ pc[c] = "closing" /\ Return(c)
      /\ UNCHANGED <<qTrans, batch, objs, keyOf, acked, delivered>>
    BY DEF Close, objVars
<1>2. k \in Keys
    BY <1>1 DEF StepType, Requests
<1>3. /\ \A j \in Keys : job'[j] = job[j]
      /\ deleted \subseteq deleted'
      /\ \A j \in Keys : Range(file[j]) \subseteq Range(file'[j]) \union deleted'
  <2>1. CASE UNCHANGED <<job, file, deleted>>
    BY <2>1
  <2>2. CASE /\ mapKeyQueue[k] # 0 /\ MayStop(k) /\ job' = [job EXCEPT ![k] = NoJob]
             /\ \/ UNCHANGED <<file, deleted>>
                \/ /\ file' = [file EXCEPT ![k] = <<>>]
                   /\ deleted' = deleted \union Range(file[k])
    <3>1. job[k] = NoJob
      BY <1>2, <2>2, CloseNoJob
    <3> HIDE DEF k
    <3>2. \A j \in Keys : job'[j] = job[j]
      BY <1>2, <2>2, <3>1 DEF FileType
    <3>3. \A j \in Keys : j # k => file'[j] = file[j]
      BY <1>2, <2>2 DEF FileType
    <3> QED
      BY <2>2, <3>2, <3>3
  <2> QED
    BY <2>1, <2>2 DEF Close
<1> HIDE DEF k
<1>4. AckedKept'
    BY <1>1, <1>3, AckFrame
<1>5. pc'[c] = "idle" /\ \A d \in Clients : d # c => Untouched(d)
    BY <1>0, <1>1 DEF Untouched, Return
<1>6. \A d \in Clients : pc[d] = "filled" => JobKey(d) \in Keys
    BY CommittingKeys DEF Committing
<1>7. \A d \in Clients : d # c => KeysOf(d)'
    BY <1>1, <1>3, <1>5, <1>6, KeysFrame DEF KeysKept
<1>8. KeysOf(c)'
  <2>1. KeysOf(c) /\ JobKey(c)' = JobKey(c)
    BY <1>1 DEF KeysKept, JobKey
  <2> QED
    BY <1>1, <1>5, <2>1 DEF KeysOf
<1> QED
    BY <1>4, <1>7, <1>8 DEF KeysKept

LEMMA NextAck ==
    ASSUME SoloCreate, OneKeyTrans, ~DiskFails
    PROVE  AckInv /\ [Next]_vars => AckInv'
<1> SUFFICES ASSUME AckInv, [Next]_vars
             PROVE  AckInv'
    OBVIOUS
<1>1. FileInv'
    BY NextFile DEF AckInv
<1>2. SUFFICES KeysKept' /\ AckedKept'
    BY <1>1 DEF AckInv
<1>3. CASE UNCHANGED vars
  <2>1. /\ UNCHANGED <<pc, req, p, qTrans, batch, objs, job, file>>
        /\ UNCHANGED <<keyOf, acked, delivered, deleted>>
    BY <1>3 DEF vars, clientVars, objVars, coreVars, history
  <2>2. \A d \in Clients : KeysOf(d)'
    BY <2>1, KeysFrame DEF AckInv, FileInv, OpenInv, KeysKept, Untouched
  <2>3. AckedKept'
    BY <2>1, AckFrame DEF AckInv, FileInv, OpenInv
  <2> QED
    BY <2>2, <2>3 DEF KeysKept
<1>4. ASSUME NEW c \in Clients, Request(c)
      PROVE  KeysKept' /\ AckedKept'
  <2>1. CASE EndTransOne(c) \/ EndTransJob(c)
    BY <2>1, EndTransOneAck, BeginAck
  <2>2. CASE \/ \E k \in Keys : \/ \E n \in 1 .. 2 : EnqueueFind(c, k, n)
                                \/ DequeueFind(c, k) \/ StartTrans(c, k)
                                \/ CloseDrop(c, k)
             \/ EndTransDrop(c) \/ OnBaseRequestArrive(c)
    BY <2>2, OtherKeys
  <2> QED
    BY <1>4, <2>1, <2>2 DEF Request
<1>5. ASSUME NEW c \in Clients, GoOn(c)
      PROVE  KeysKept' /\ AckedKept'
  <2>1. CASE Make(c) \/ MakeFails(c) \/ Register(c) \/ Dequeue(c) \/ DequeueCount(c)
    BY <2>1, OtherKeys
  <2>2. CASE Enqueue(c) \/ JobFill(c) \/ JobEnd(c)
    BY <2>2, EnqueueAck, FillAck, EndAck
  <2>3. ~JobFillPart(c) /\ ~JobAbort(c) /\ ~JobEndFails(c)
    BY DEF JobFillPart, JobAbort, JobEndFails, AckInv, KeysKept, KeysOf
  <2> QED
    BY <1>5, <2>1, <2>2, <2>3, CloseAck DEF GoOn
<1>6. ASSUME NEW c \in Clients, Confirm(c) \/ OnSwitchFrom(c) \/ OnReleaseSource(c)
      PROVE  KeysKept' /\ AckedKept'
    BY <1>6, ConfirmAck, OtherKeys
<1> QED
    BY <1>3, <1>4, <1>5, <1>6 DEF Next

LEMMA InitAck == Init => AckInv
<1> SUFFICES ASSUME Init
             PROVE  AckInv
    OBVIOUS
<1>1. FileInv
    BY InitFile
<1>2. KeysKept /\ AckedKept
    BY DEF Init, KeysKept, KeysOf, AckedKept
<1> QED
    BY <1>1, <1>2 DEF AckInv

(* No message that was reported as enqueued or committed is lost: it is in *)
(* the file of its queue or in a job that goes on until a consumer         *)
(* confirms it or the queue is deleted for good.                           *)
THEOREM ReportedKept ==
    ASSUME SoloCreate, OneKeyTrans, ~DiskFails
    PROVE  Spec => []AckedKept
<1>1. Init => AckInv
    BY InitAck
<1>2. AckInv /\ [Next]_vars => AckInv'
    BY NextAck
<1>3. AckInv => AckedKept
    BY DEF AckInv
<1> QED
    BY <1>1, <1>2, <1>3, PTL DEF Spec
=============================================================================
