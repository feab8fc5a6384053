--------------------------- MODULE AsyncHandler ---------------------------
(***************************************************************************)
(* The client side of one SocketPro session: how CAsyncServiceHandler      *)
(* (include/aclientw.cpp) pairs the results that come back on a socket     *)
(* with the callbacks that SendRequest registered.                         *)
(*                                                                         *)
(* Application threads share the session.  SendRequest takes a callback    *)
(* pair from a pool (m_rrStack), pushes it on m_vCallback, or on           *)
(* m_vBatching while the session batches, and hands the request to the     *)
(* client core.  The socket's worker thread pops the pair when the result  *)
(* comes back, or discards all of them when the session is closed or the   *)
(* requests are canceled.  m_cs protects both queues, so that what the     *)
(* code does under m_cs is one step here; m_csSend is held from the push   *)
(* of the pair to the return of the core's SendRequest, and is a variable. *)
(*                                                                         *)
(* The client core (usocket) is closed source: connection, batch buffer    *)
(* and the stream of outstanding requests are modelled from how the        *)
(* adapter uses them.                                                      *)
(***************************************************************************)
EXTENDS Integers, Sequences, SequencesExt, FiniteSets

CONSTANTS
    Threads,          \* application threads that share the session
    NoThread,         \* "m_csSend is free"
    ReqIds,           \* ids of the requests sent with callbacks
    MuteIds,          \* ids of the requests sent without any callback
    MaxCalls,         \* bound: SendRequest calls in a behaviour
    MaxCloses,        \* bound: how often the session is closed
    Random,           \* IsRandom: the service answers out of order
    Exclusive,        \* usage: only the thread that batches sends meanwhile
    PatientReconnect, \* timing: no reconnection in the middle of SendRequest
    QuietCancel       \* usage: nobody sends between Cancel and its answer

ASSUME ConstantsAssumption ==
    /\ NoThread \notin Threads
    /\ MaxCalls \in Nat
    /\ MaxCloses \in Nat
    /\ {Random, Exclusive, PatientReconnect, QuietCancel} \subseteq BOOLEAN

Call == 1 .. MaxCalls
Pair == 1 .. MaxCalls      \* pair objects; never more than calls
Id   == ReqIds \union MuteIds

VARIABLES
    \* CAsyncServiceHandler
    vCallback,    \* m_vCallback, pairs that wait for a result
    vBatching,    \* m_vBatching, pairs of the batch that is being built
    rrStack,      \* m_rrStack, the pool of recycled pairs
    made,         \* how many pairs were allocated with new
    content,      \* the call whose id and callbacks a pair holds (0: none)
    csSend,       \* the holder of m_csSend
    \* the threads inside SendRequest, CommitBatching, AbortBatching
    pc, hand,
    batchers,     \* threads between StartBatching and its commit or abort
    \* the worker thread inside CleanCallbacks: sb0, sb1 and the reason
    sb0, sb1, cleaning,
    \* client core (external)
    conn,         \* connection state
    coreBatching, \* IsBatching
    batchBuf,     \* requests of the core's batch
    wire,         \* requests sent whose results are still to come
    canceling,    \* requests ahead of a Cancel that is under way, or -1
    closes,
    \* history of the calls
    calls, idOf, sent, outcome, got,
    fired         \* how many callbacks of a call have run

handlerVars == <<vCallback, vBatching, rrStack, made, content>>
threadVars  == <<csSend, pc, hand, batchers>>
cleanVars   == <<sb0, sb1, cleaning>>
coreVars    == <<conn, coreBatching, batchBuf, wire, canceling, closes>>
callVars    == <<calls, idOf, sent, outcome, got, fired>>
vars == <<handlerVars, threadVars, cleanVars, coreVars, callVars>>

NoHand == [call |-> 0, pair |-> 0, batching |-> FALSE]

(* What became of a call.  "unheard": answered, but no callback of the     *)
(* call was found; "aborted": its pair was dropped by AbortBatching.       *)
Outcomes == {"none", "result", "exception", "closed", "canceled",
             "unheard", "aborted"}

Init ==
    /\ vCallback = <<>> /\ vBatching = <<>>
    /\ rrStack = <<>> /\ made = 0
    /\ content = [p \in Pair |-> 0]
    /\ csSend = NoThread
    /\ pc = [t \in Threads |-> "idle"]
    /\ hand = [t \in Threads |-> NoHand]
    /\ batchers = {}
    /\ sb0 = <<>> /\ sb1 = <<>> /\ cleaning = "no"
    /\ conn = "up" /\ coreBatching = FALSE /\ batchBuf = <<>>
    /\ wire = <<>> /\ canceling = -1 /\ closes = 0
    /\ calls = 0
    /\ idOf \in [Call -> Id]
    /\ sent = {}
    /\ outcome = [c \in Call |-> "none"]
    /\ got = [c \in Call |-> 0]
    /\ fired = [c \in Call |-> 0]
----------------------------------------------------------------------------
(* Helpers on the two callback queues and the pool.                        *)

(* m_rrStack.Recycle pushes in front, Reuse pops from the front.           *)
Recycle(p) == rrStack' = <<p>> \o rrStack

(* Mutant: a pair that SendRequest cannot take back is recycled as well.   *)
RemovePairAlways(q, qNext, p) ==
    /\ Recycle(p)
    /\ qNext = IF p \in Range(q) THEN SelectSeq(q, LAMBDA x : x # p) ELSE q

(* CAsyncServiceHandler::Remove looks for the pair from the back of the    *)
(* queue; a pair that was found is recycled.                               *)
RemovePair(q, qNext, p) ==
    \/ \E i \in DOMAIN q :
        /\ q[i] = p
        /\ \A j \in DOMAIN q : q[j] = p => j <= i
        /\ qNext = RemoveAt(q, i)
        /\ Recycle(p)
    \/ p \notin Range(q) /\ qNext = q /\ UNCHANGED rrStack

(* The calls whose pairs are in q end with the given outcome.              *)
Settle(q, why) ==
    outcome' = [c \in Call |->
        IF \E p \in Range(q) : content[p] = c THEN why ELSE outcome[c]]

(* ... and the Discarded callback of each pair in q runs.                  *)
Discard(q, why) ==
    /\ Settle(q, why)
    /\ fired' = [c \in Call |->
            fired[c] + Cardinality({i \in DOMAIN q : content[q[i]] = c})]

HasCallback(c) == idOf[c] \in ReqIds
----------------------------------------------------------------------------
(* SendRequest, in the steps other threads can come between.               *)

MaySend(t) ==
    /\ pc[t] = "idle"
    /\ Exclusive => batchers \subseteq {t}
    /\ QuietCancel => canceling = -1

(* Take a pair from the pool, or a new one, fill it, and ask the core      *)
(* whether it batches; no lock is held yet.                                *)
SendPrepare(t) ==
    /\ MaySend(t)
    /\ calls < MaxCalls
    /\ calls' = calls + 1
    /\ HasCallback(calls')
    /\ LET p == IF rrStack # <<>> THEN Head(rrStack) ELSE made + 1 IN
        /\ content' = [content EXCEPT ![p] = calls']
        /\ hand' = [hand EXCEPT ![t] =
                [call |-> calls', pair |-> p, batching |-> coreBatching]]
    /\ IF rrStack # <<>>
        THEN rrStack' = Tail(rrStack) /\ made' = made
        ELSE rrStack' = rrStack /\ made' = made + 1
    /\ pc' = [pc EXCEPT ![t] = "prepared"]
    /\ UNCHANGED <<vCallback, vBatching, csSend, batchers, cleanVars,
                   coreVars, idOf, sent, outcome, got, fired>>

(* Mutant: the call is let go of before the core has it.                   *)
SendPushForget(t) ==
    /\ pc[t] = "prepared"
    /\ csSend = NoThread
    /\ csSend' = t
    /\ vCallback' = Append(vCallback, hand[t].pair)
    /\ pc' = [pc EXCEPT ![t] = "pushed"]
    /\ hand' = [hand EXCEPT ![t] = NoHand]
    /\ UNCHANGED <<vBatching, rrStack, made, content, batchers, cleanVars,
                   coreVars, callVars>>

(* Lock m_csSend and push the pair on the queue chosen before.             *)
SendPush(t) ==
    /\ pc[t] = "prepared"
    /\ csSend = NoThread
    /\ csSend' = t
    /\ IF hand[t].batching
        THEN /\ vBatching' = Append(vBatching, hand[t].pair)
             /\ UNCHANGED vCallback
        ELSE /\ vCallback' = Append(vCallback, hand[t].pair)
             /\ UNCHANGED vBatching
    /\ pc' = [pc EXCEPT ![t] = "pushed"]
    /\ UNCHANGED <<rrStack, made, content, hand, batchers, cleanVars,
                   coreVars, callVars>>

(* ClientCoreLoader.SendRequest: a batching core keeps the request, else   *)
(* it goes out; a closed session refuses it.                               *)
CoreSend(c) ==
    IF coreBatching
    THEN batchBuf' = Append(batchBuf, c) /\ UNCHANGED wire
    ELSE wire' = Append(wire, c) /\ UNCHANGED batchBuf

SendCore(t) ==
    /\ pc[t] = "pushed"
    /\ csSend' = NoThread
    /\ IF conn = "up"
        THEN /\ CoreSend(hand[t].call)
             /\ pc' = [pc EXCEPT ![t] = "idle"]
             /\ hand' = [hand EXCEPT ![t] = NoHand]
             /\ sent' = sent \union {hand[t].call}
        ELSE /\ pc' = [pc EXCEPT ![t] = "failed"]
             /\ UNCHANGED <<batchBuf, wire, hand, sent>>
    /\ UNCHANGED <<handlerVars, batchers, cleanVars, conn, coreBatching,
                   canceling, closes, calls, idOf, outcome, got, fired>>

(* The request was not sent: take the pair back from the queue it was      *)
(* pushed on, if it is still there, and recycle it.                        *)
SendUndo(t) ==
    /\ pc[t] = "failed"
    /\ IF hand[t].batching
        THEN RemovePair(vBatching, vBatching', hand[t].pair) /\ UNCHANGED vCallback
        ELSE RemovePair(vCallback, vCallback', hand[t].pair) /\ UNCHANGED vBatching
    /\ pc' = [pc EXCEPT ![t] = "idle"]
    /\ hand' = [hand EXCEPT ![t] = NoHand]
    /\ UNCHANGED <<made, content, csSend, batchers, cleanVars, coreVars,
                   callVars>>

(* ClearResultCallbackPool deletes the pairs behind the first n of the     *)
(* pool; any thread may call it.                                           *)
ClearResultCallbackPool(n) ==
    /\ rrStack' = SubSeq(rrStack, 1, n)
    /\ UNCHANGED <<vCallback, vBatching, made, content, threadVars, cleanVars,
                   coreVars, callVars>>

(* SendRequest without any callback goes straight to the core.             *)
SendMute(t) ==
    /\ MaySend(t)
    /\ calls < MaxCalls
    /\ calls' = calls + 1
    /\ ~HasCallback(calls')
    /\ IF conn = "up"
        THEN CoreSend(calls') /\ sent' = sent \union {calls'}
        ELSE UNCHANGED <<batchBuf, wire, sent>>
    /\ UNCHANGED <<handlerVars, threadVars, cleanVars, conn, coreBatching,
                   canceling, closes, idOf, outcome, got, fired>>
----------------------------------------------------------------------------
(* Batching.                                                               *)

Sending == {t \in Threads : pc[t] \in {"prepared", "pushed", "failed"}}

StartBatching(t) ==
    /\ pc[t] = "idle" /\ t \notin batchers
    /\ Exclusive => Sending = {} /\ batchers = {}
    /\ conn = "up" /\ ~coreBatching
    /\ coreBatching' = TRUE
    /\ batchers' = batchers \union {t}
    /\ UNCHANGED <<handlerVars, csSend, pc, hand, cleanVars, conn, batchBuf,
                   wire, canceling, closes, callVars>>

(* Under m_cs the batch's pairs move behind the pairs that wait.           *)
CommitBatchingMove(t) ==
    /\ pc[t] = "idle" /\ t \in batchers
    /\ vCallback' = vCallback \o vBatching
    /\ vBatching' = <<>>
    /\ pc' = [pc EXCEPT ![t] = "committing"]
    /\ UNCHANGED <<rrStack, made, content, csSend, hand, batchers, cleanVars,
                   coreVars, callVars>>

(* ... then the core sends the batch; after a close there is none left.    *)
CommitBatchingCore(t) ==
    /\ pc[t] = "committing"
    /\ wire' = wire \o batchBuf
    /\ batchBuf' = <<>>
    /\ coreBatching' = FALSE
    /\ batchers' = batchers \ {t}
    /\ pc' = [pc EXCEPT ![t] = "idle"]
    /\ UNCHANGED <<handlerVars, csSend, hand, cleanVars, conn, canceling,
                   closes, callVars>>

(* The batch's pairs are recycled, their callbacks are not called.         *)
AbortBatchingClean(t) ==
    /\ pc[t] = "idle" /\ t \in batchers
    /\ rrStack' = rrStack \o vBatching
    /\ vBatching' = <<>>
    /\ Settle(vBatching, "aborted")
    /\ pc' = [pc EXCEPT ![t] = "aborting"]
    /\ UNCHANGED <<vCallback, made, content, csSend, hand, batchers, cleanVars,
                   coreVars, calls, idOf, sent, got, fired>>

AbortBatchingCore(t) ==
    /\ pc[t] = "aborting"
    /\ batchBuf' = <<>>
    /\ coreBatching' = FALSE
    /\ batchers' = batchers \ {t}
    /\ pc' = [pc EXCEPT ![t] = "idle"]
    /\ UNCHANGED <<handlerVars, csSend, hand, cleanVars, conn, wire,
                   canceling, closes, callVars>>

(* CClientSocket::Cancel asks the server to drop what it has queued.       *)
Cancel(t) ==
    /\ pc[t] = "idle"
    /\ QuietCancel => Sending = {} /\ batchers = {}
    /\ conn = "up" /\ canceling = -1
    /\ canceling' = Len(wire)
    /\ UNCHANGED <<handlerVars, threadVars, cleanVars, conn, coreBatching,
                   batchBuf, wire, closes, callVars>>
----------------------------------------------------------------------------
(* The socket's worker thread.                                             *)

(* Mutant: the answered id is not compared.                                *)
MatchingAny(c) == {i \in DOMAIN vCallback : Random \/ i = 1}

(* GetAsyncResultHandler finds the first pair with the answered id if      *)
(* answers come out of order, else the front pair if it has that id.       *)
Matching(c) ==
    {i \in DOMAIN vCallback : /\ idOf[content[vCallback[i]]] = idOf[c]
                              /\ Random \/ i = 1}

(* Mutant: the pair is not popped.                                         *)
RunCallbackKeep(c, how) ==
    \E i \in Matching(c) :
        /\ \A j \in Matching(c) : i <= j
        /\ outcome' = [outcome EXCEPT ![content[vCallback[i]]] = how]
        /\ got' = [got EXCEPT ![content[vCallback[i]]] = c]
        /\ fired' = [fired EXCEPT ![content[vCallback[i]]] = @ + 1]
        /\ UNCHANGED <<vCallback, rrStack>>

(* OnRR and OnSE: pop the pair, run its callback, recycle the pair, which  *)
(* nobody else can reach in between.                                       *)
RunCallback(c, how) ==
    \E i \in Matching(c) :
        LET p == vCallback[i] IN
        /\ \A j \in Matching(c) : i <= j
        /\ vCallback' = RemoveAt(vCallback, i)
        /\ outcome' = [outcome EXCEPT ![content[p]] = how]
        /\ got' = [got EXCEPT ![content[p]] = c]
        /\ fired' = [fired EXCEPT ![content[p]] = @ + 1]
        /\ Recycle(p)

(* An answer no pair matches goes to OnResultReturned.                     *)
NoCallback(c) ==
    /\ Matching(c) = {}
    /\ outcome' = [outcome EXCEPT ![c] =
            IF @ = "none" /\ HasCallback(c) THEN "unheard" ELSE @]
    /\ UNCHANGED <<vCallback, got, fired, rrStack>>

Answer(how) ==
    /\ cleaning = "no" /\ conn = "up"
    /\ \E k \in DOMAIN wire :
        /\ Random \/ k = 1
        /\ RunCallback(wire[k], how) \/ NoCallback(wire[k])
        /\ wire' = RemoveAt(wire, k)
        /\ canceling' = IF k <= canceling THEN canceling - 1 ELSE canceling
    /\ UNCHANGED <<vBatching, made, content, threadVars, cleanVars, conn,
                   coreBatching, batchBuf, closes, calls, idOf, sent>>

OnRequestProcessed == Answer("result")
OnServerException  == Answer("exception")

(* Mutant: m_vCallback is cleared, not swapped.                            *)
CleanCallbacksLose(why) ==
    /\ sb0' = vBatching /\ vBatching' = <<>>
    /\ sb1' = <<>> /\ vCallback' = <<>>
    /\ cleaning' = why

(* CleanCallbacks, first part: both queues are swapped out under m_cs.     *)
CleanCallbacksSwap(why) ==
    /\ sb0' = vBatching /\ vBatching' = <<>>
    /\ sb1' = vCallback /\ vCallback' = <<>>
    /\ cleaning' = why

(* The answer to Cancel: what was queued before it gets no result.         *)
OnCanceled ==
    /\ cleaning = "no" /\ conn = "up" /\ canceling >= 0
    /\ wire' = SubSeq(wire, canceling + 1, Len(wire))
    /\ canceling' = -1
    /\ CleanCallbacksSwap("canceled")
    /\ UNCHANGED <<rrStack, made, content, threadVars, conn, coreBatching,
                   batchBuf, closes, callVars>>

(* The server, the network or Close ends the session: the core forgets     *)
(* what was under way and will call OnSocketClosed.                        *)
CoreClose ==
    /\ conn = "up" /\ closes < MaxCloses
    /\ conn' = "closing"
    /\ closes' = closes + 1
    /\ wire' = <<>> /\ batchBuf' = <<>>
    /\ coreBatching' = FALSE /\ canceling' = -1
    /\ UNCHANGED <<handlerVars, threadVars, cleanVars, callVars>>

OnSocketClosed ==
    /\ cleaning = "no" /\ conn = "closing"
    /\ conn' = "down"
    /\ CleanCallbacksSwap("closed")
    /\ UNCHANGED <<rrStack, made, content, threadVars, coreBatching, batchBuf,
                   wire, canceling, closes, callVars>>

(* CleanCallbacks, second part: the discarded callbacks of the batch, and  *)
(* then of the waiting requests, run outside m_cs; CleanQueue recycles.    *)
CleanCallbacksBatching ==
    /\ cleaning # "no" /\ sb0 # <<>>
    /\ Discard(sb0, cleaning)
    /\ rrStack' = rrStack \o sb0
    /\ sb0' = <<>>
    /\ UNCHANGED <<vCallback, vBatching, made, content, threadVars, sb1,
                   cleaning, coreVars, calls, idOf, sent, got>>

CleanCallbacksWaiting ==
    /\ cleaning # "no" /\ sb0 = <<>>
    /\ Discard(sb1, cleaning)
    /\ rrStack' = rrStack \o sb1
    /\ sb1' = <<>>
    /\ cleaning' = "no"
    /\ UNCHANGED <<vCallback, vBatching, made, content, threadVars, sb0,
                   coreVars, calls, idOf, sent, got>>

(* The pool's core reconnects a closed session by itself.                  *)
Reconnect ==
    /\ conn = "down" /\ cleaning = "no"
    /\ PatientReconnect => Sending = {}
    /\ conn' = "up"
    /\ UNCHANGED <<handlerVars, threadVars, cleanVars, coreBatching, batchBuf,
                   wire, canceling, closes, callVars>>
----------------------------------------------------------------------------
Send(t) == SendPrepare(t) \/ SendPush(t) \/ SendCore(t) \/ SendUndo(t)

Batch(t) ==
    \/ StartBatching(t)
    \/ CommitBatchingMove(t) \/ CommitBatchingCore(t)
    \/ AbortBatchingClean(t) \/ AbortBatchingCore(t)

Worker ==
    \/ OnRequestProcessed \/ OnServerException
    \/ OnCanceled \/ OnSocketClosed
    \/ CleanCallbacksBatching \/ CleanCallbacksWaiting

Next ==
    \/ \E t \in Threads : Send(t) \/ SendMute(t) \/ Batch(t) \/ Cancel(t)
    \/ Worker
    \/ \E n \in 0 .. Len(rrStack) - 1 : ClearResultCallbackPool(n)
    \/ CoreClose
    \/ Reconnect

Spec == Init /\ [][Next]_vars

(* A thread inside SendRequest, CommitBatching or AbortBatching goes on,   *)
(* the server answers, and the worker thread delivers what has arrived;    *)
(* nobody has to send, batch, cancel or close.                             *)
Fairness ==
    /\ \A t \in Threads :
        WF_vars(SendPush(t) \/ SendCore(t) \/ SendUndo(t)
                \/ CommitBatchingCore(t) \/ AbortBatchingCore(t))
    /\ WF_vars(Worker)

FairSpec == Spec /\ Fairness
----------------------------------------------------------------------------
HandlerType ==
    /\ vCallback \in Seq(Pair) /\ vBatching \in Seq(Pair)
    /\ rrStack \in Seq(Pair)
    /\ made \in Nat
    /\ content \in [Pair -> Call \union {0}]

ThreadType ==
    /\ csSend \in Threads \union {NoThread}
    /\ pc \in [Threads -> {"idle", "prepared", "pushed", "failed",
                           "committing", "aborting"}]
    /\ hand \in [Threads -> [call : 0 .. MaxCalls, pair : 0 .. MaxCalls,
                             batching : BOOLEAN]]
    /\ \A t \in Sending : hand[t].call \in Call /\ hand[t].pair \in Pair
    /\ batchers \in SUBSET Threads

CleanType ==
    /\ sb0 \in Seq(Pair) /\ sb1 \in Seq(Pair)
    /\ cleaning \in {"no", "closed", "canceled"}

CoreType ==
    /\ conn \in {"up", "closing", "down"}
    /\ coreBatching \in BOOLEAN
    /\ batchBuf \in Seq(Call) /\ wire \in Seq(Call)
    /\ canceling \in Nat \union {-1}
    /\ closes \in 0 .. MaxCloses

CallType ==
    /\ calls \in 0 .. MaxCalls /\ made <= calls
    /\ idOf \in [Call -> Id]
    /\ sent \in SUBSET Call
    /\ outcome \in [Call -> Outcomes]
    /\ got \in [Call -> 0 .. MaxCalls]
    /\ fired \in [Call -> Nat]

(* The types of the variables; a thread inside SendRequest has a pair and  *)
(* a call in hand, and there are no more pairs than calls.                 *)
TypeOK == HandlerType /\ ThreadType /\ CleanType /\ CoreType /\ CallType

Held == {hand[t].pair : t \in {u \in Threads : pc[u] = "prepared"}}

QueuesInjective ==
    /\ IsInjective(rrStack) /\ IsInjective(vCallback)
    /\ IsInjective(vBatching) /\ IsInjective(sb0) /\ IsInjective(sb1)

PlacesApart ==
    /\ Range(rrStack) \cap (Range(vCallback) \union Range(vBatching)
            \union Range(sb0) \union Range(sb1) \union Held) = {}
    /\ Range(vCallback) \cap (Range(vBatching) \union Range(sb0)
            \union Range(sb1) \union Held) = {}
    /\ Range(vBatching) \cap (Range(sb0) \union Range(sb1) \union Held) = {}
    /\ Range(sb0) \cap (Range(sb1) \union Held) = {}
    /\ Range(sb1) \cap Held = {}

HandsApart ==
    \A t, u \in Threads :
        pc[t] = "prepared" /\ pc[u] = "prepared"
            /\ hand[t].pair = hand[u].pair => t = u

Allocated ==
    Range(rrStack) \union Range(vCallback) \union Range(vBatching)
        \union Range(sb0) \union Range(sb1) \union Held \subseteq 1 .. made

(* Every pair object is in one place: the pool, one of the queues, one of  *)
(* the swapped queues, or the hand of a thread in SendRequest that is      *)
(* about to push it.  A pair that was recycled twice, or recycled while it *)
(* is still queued, would be given to two requests.                        *)
OnePlace == QueuesInjective /\ PlacesApart /\ HandsApart /\ Allocated

(* A result is handed to the callback its own request registered, also     *)
(* when requests under way have the same id and only the order of queue    *)
(* and answers tells them apart.                                           *)
OwnResult == \A c \in Call : got[c] \in {0, c}

(* A call for which SendRequest returned true keeps its callbacks until    *)
(* one of them runs, or the batch it belongs to is aborted: the answer     *)
(* never comes while the callbacks cannot be found.                        *)
Registered(c) ==
    \E p \in UNION {Range(q) : q \in {vCallback, vBatching, sb0, sb1}} :
        content[p] = c

CallbackKept ==
    \A c \in sent :
        /\ outcome[c] # "unheard"
        /\ HasCallback(c) /\ outcome[c] = "none" => Registered(c)

(* What tells a caller that a call has ended.                              *)
Ended(c) == outcome[c] \in {"result", "exception", "closed", "canceled"}

(* Of the callbacks of a call one runs when the call ends, and no second   *)
(* one, also when a close, a cancel and an answer meet; the callbacks of a *)
(* batch that was aborted never run.                                       *)
FiresOnce == \A c \in Call : fired[c] = IF Ended(c) THEN 1 ELSE 0

(* A caller whose request is on its way hears of it: one of its callbacks  *)
(* runs, with the answer or after a close or a cancel.                     *)
OnWire(c) == c \in Range(wire)

EverySentSettles ==
    \A c \in Call : OnWire(c) /\ HasCallback(c) ~> Ended(c)
=============================================================================
