----------------------------- MODULE ClientJob -----------------------------
(***************************************************************************)
(* A client session with a message queue (CClientSocket::CQueueImpl in     *)
(* include/aclientw.cpp).  The client core saves requests in a local file  *)
(* before it sends them, sends them again after a reconnection, and        *)
(* manages them in transactions ("jobs"): requests between StartJob and    *)
(* EndJob are sent together, AbortJob drops them.                          *)
(*                                                                         *)
(* The adapter has to keep m_vCallback in step with that file: a closed    *)
(* session keeps its callbacks, and AbortJob erases, with EraseBack, the   *)
(* callbacks of the job, found by their number: StartJob remembers in      *)
(* m_nQIndex how many callbacks were waiting.                              *)
(*                                                                         *)
(* All requests have the same id, so that GetAsyncResultHandler always     *)
(* accepts the front pair.  The file, the sending and the server are those *)
(* of the closed core: modelled from how the adapter uses them.            *)
(***************************************************************************)
EXTENDS Integers, Sequences, SequencesExt, FiniteSets

CONSTANTS
    MaxCalls,        \* bound: SendRequest calls in a behaviour
    MaxCloses,       \* bound: how often the session is closed
    MaxRestarts,     \* bound: how often the client process is restarted
    Width,           \* bits of an unsigned int (32 in the code)
    PendingAtStart,  \* usage: StartJob while callbacks are waiting
    NestedStart,     \* usage: StartJob inside a job
    SharedSending,   \* usage: jobs and SendRequest on different threads
    SendToLeftovers  \* usage: SendRequest before the restarted queue is empty

ASSUME ConstantsAssumption ==
    /\ {MaxCalls, MaxCloses, MaxRestarts, Width} \subseteq Nat
    /\ MaxCalls < 2^Width
    /\ {PendingAtStart, NestedStart, SharedSending, SendToLeftovers}
            \subseteq BOOLEAN

Call == 1 .. MaxCalls

VARIABLES
    \* the adapter
    vCallback,   \* m_vCallback: the calls whose callbacks wait, in order
    nQIndex,     \* m_nQIndex
    sending,     \* the call between its push and the core's SendRequest, or 0
    overrun,     \* EraseBack has read behind the end of m_vCallback
    \* the client core (external)
    inJob, job,  \* the open transaction and its requests
    queue,       \* the requests in the file that are to be answered
    sentUp,      \* how many of them went out on this connection
    conn, closes, restarts,
    \* history
    calls, outcome, got,
    aborted,     \* calls whose requests were dropped by AbortJob
    orphans      \* calls of an earlier run of the client process

adapterVars == <<vCallback, nQIndex, sending, overrun>>
coreVars    == <<inJob, job, queue, sentUp, conn, closes, restarts>>
historyVars == <<calls, outcome, got, aborted, orphans>>
vars == <<adapterVars, coreVars, historyVars>>

Init ==
    /\ vCallback = <<>> /\ nQIndex = 0 /\ sending = 0 /\ overrun = FALSE
    /\ inJob = FALSE /\ job = <<>> /\ queue = <<>> /\ sentUp = 0
    /\ conn = "up" /\ closes = 0 /\ restarts = 0
    /\ calls = 0
    /\ outcome = [c \in Call |-> "none"]
    /\ got = [c \in Call |-> 0]
    /\ aborted = {} /\ orphans = {}
----------------------------------------------------------------------------
(* SendRequest pushes the pair and gives the request to the core, both     *)
(* under m_csSend; a session with a queue takes it even when it is closed. *)
SendPush ==
    /\ sending = 0
    /\ calls < MaxCalls
    /\ SendToLeftovers \/ Range(queue) \cap orphans = {}
    /\ calls' = calls + 1
    /\ vCallback' = Append(vCallback, calls')
    /\ sending' = calls'
    /\ UNCHANGED <<nQIndex, overrun, coreVars, outcome, got, aborted, orphans>>

SendCore ==
    /\ sending # 0
    /\ IF inJob THEN job' = Append(job, sending) /\ UNCHANGED queue
                ELSE queue' = Append(queue, sending) /\ UNCHANGED job
    /\ sending' = 0
    /\ UNCHANGED <<vCallback, nQIndex, overrun, inJob, sentUp, conn, closes,
                   restarts, historyVars>>
----------------------------------------------------------------------------
(* Jobs.  Each of the three holds m_cs from its first to its last line.    *)
MayUseJob == sending = 0 \/ SharedSending

(* m_nQIndex is set before the core refuses to start a job inside a job.   *)
StartJob ==
    /\ MayUseJob
    /\ PendingAtStart \/ inJob \/ vCallback = <<>>
    /\ NestedStart \/ ~inJob
    /\ nQIndex' = Len(vCallback)
    /\ inJob' = TRUE
    /\ UNCHANGED <<vCallback, sending, overrun, job, queue, sentUp, conn,
                   closes, restarts, historyVars>>

EndJob ==
    /\ MayUseJob
    /\ inJob
    /\ queue' = queue \o job
    /\ job' = <<>>
    /\ inJob' = FALSE
    /\ UNCHANGED <<adapterVars, sentUp, conn, closes, restarts, historyVars>>

(* Mutant: the last callback of the job is left in the queue.              *)
EraseBackShort(n) ==
    LET total == Len(vCallback)
        count == IF n > total THEN total ELSE n
    IN  /\ vCallback' = SubSeq(vCallback, 1, IF count = 0 THEN total ELSE total - count + 1)
        /\ outcome' = [c \in Call |->
                IF \E i \in total - count + 1 .. count : vCallback[i] = c
                THEN "discarded" ELSE outcome[c]]
        /\ UNCHANGED overrun

(* EraseBack tells the callbacks from index total - count up to the index  *)
(* "count", as its loop does, and then cuts "count" callbacks off.  When   *)
(* total - count is above "count" the loop misses its end and reads on     *)
(* behind the last callback.                                               *)
EraseBack(n) ==
    LET total == Len(vCallback)
        count == IF n > total THEN total ELSE n
        start == total - count
        stop  == IF start > count THEN total ELSE count
    IN  /\ vCallback' = SubSeq(vCallback, 1, total - count)
        /\ outcome' = [c \in Call |->
                IF \E i \in start + 1 .. stop : vCallback[i] = c
                THEN "discarded" ELSE outcome[c]]
        /\ overrun' = (overrun \/ start > count)

(* The number of callbacks to erase is an unsigned difference.             *)
AbortJob ==
    /\ MayUseJob
    /\ inJob
    /\ EraseBack((Len(vCallback) - nQIndex) % 2^Width)
    /\ inJob' = FALSE
    /\ job' = <<>>
    /\ aborted' = aborted \union Range(job)
    /\ UNCHANGED <<nQIndex, sending, queue, sentUp, conn, closes, restarts,
                   calls, got, orphans>>
----------------------------------------------------------------------------
(* The core sends the next request of the file.                            *)
Transmit ==
    /\ conn = "up" /\ sentUp < Len(queue)
    /\ sentUp' = sentUp + 1
    /\ UNCHANGED <<adapterVars, inJob, job, queue, conn, closes, restarts,
                   historyVars>>

(* Mutant: the result is given to the callback of the newest request.      *)
OnRequestProcessedNewest ==
    /\ conn = "up" /\ sentUp > 0
    /\ queue' = Tail(queue)
    /\ sentUp' = sentUp - 1
    /\ IF vCallback = <<>>
        THEN UNCHANGED <<vCallback, outcome, got>>
        ELSE LET c == vCallback[Len(vCallback)] IN
             /\ outcome' = [outcome EXCEPT ![c] = "result"]
             /\ got' = [got EXCEPT ![c] = Head(queue)]
             /\ vCallback' = Tail(vCallback)
    /\ UNCHANGED <<nQIndex, sending, overrun, inJob, job, conn, closes, restarts, calls,
                   aborted, orphans>>

(* Mutant: the pair is recycled before its callback is called.             *)
OnRequestProcessedUnheard ==
    /\ conn = "up" /\ sentUp > 0
    /\ queue' = Tail(queue)
    /\ sentUp' = sentUp - 1
    /\ vCallback' = IF vCallback = <<>> THEN <<>> ELSE Tail(vCallback)
    /\ UNCHANGED <<nQIndex, sending, overrun, inJob, job, conn, closes,
                   restarts, historyVars>>

(* An answer arrives: the core drops the request from the file, and OnRR   *)
(* hands the result to the front callback, if there is one.                *)
OnRequestProcessed ==
    /\ conn = "up" /\ sentUp > 0
    /\ queue' = Tail(queue)
    /\ sentUp' = sentUp - 1
    /\ IF vCallback = <<>>
        THEN UNCHANGED <<vCallback, outcome, got>>
        ELSE /\ outcome' = [outcome EXCEPT ![Head(vCallback)] = "result"]
             /\ got' = [got EXCEPT ![Head(vCallback)] = Head(queue)]
             /\ vCallback' = Tail(vCallback)
    /\ UNCHANGED <<nQIndex, sending, overrun, inJob, job, conn, closes, restarts, calls,
                   aborted, orphans>>

(* A session with a queue keeps its callbacks when it is closed: what was  *)
(* not answered is sent again.                                             *)
OnSocketClosed ==
    /\ conn = "up" /\ closes < MaxCloses
    /\ conn' = "down"
    /\ closes' = closes + 1
    /\ sentUp' = 0
    /\ UNCHANGED <<adapterVars, inJob, job, queue, restarts, historyVars>>

Reconnect ==
    /\ conn = "down"
    /\ conn' = "up"
    /\ UNCHANGED <<adapterVars, inJob, job, queue, sentUp, closes, restarts,
                   historyVars>>

(* The client process ends and starts again: the file is all that is left, *)
(* and a job that was not ended is not in it.                              *)
Restart ==
    /\ restarts < MaxRestarts
    /\ restarts' = restarts + 1
    /\ vCallback' = <<>> /\ nQIndex' = 0 /\ sending' = 0 /\ overrun' = FALSE
    /\ inJob' = FALSE /\ job' = <<>> /\ sentUp' = 0 /\ conn' = "down"
    /\ orphans' = 1 .. calls
    /\ UNCHANGED <<queue, closes, calls, outcome, got, aborted>>

Next ==
    \/ SendPush \/ SendCore
    \/ StartJob \/ EndJob \/ AbortJob
    \/ Transmit \/ OnRequestProcessed
    \/ OnSocketClosed \/ Reconnect \/ Restart

Spec == Init /\ [][Next]_vars

(* The core reconnects and sends, the server answers, a thread inside      *)
(* SendRequest goes on; nobody has to send, or to end a job.               *)
Fairness ==
    /\ WF_vars(SendCore) /\ WF_vars(Transmit)
    /\ WF_vars(OnRequestProcessed) /\ WF_vars(Reconnect)

FairSpec == Spec /\ Fairness
----------------------------------------------------------------------------
(* The state of a session with a queue has its types.                      *)
TypeOK ==
    /\ vCallback \in Seq(Call) /\ job \in Seq(Call) /\ queue \in Seq(Call)
    /\ nQIndex \in 0 .. MaxCalls /\ sending \in 0 .. MaxCalls
    /\ overrun \in BOOLEAN /\ inJob \in BOOLEAN
    /\ sentUp \in 0 .. Len(queue)
    /\ conn \in {"up", "down"}
    /\ closes \in 0 .. MaxCloses /\ restarts \in 0 .. MaxRestarts
    /\ calls \in 0 .. MaxCalls
    /\ outcome \in [Call -> {"none", "result", "discarded"}]
    /\ got \in [Call -> 0 .. MaxCalls]
    /\ aborted \subseteq Call /\ orphans \subseteq Call

(* The callbacks that wait are those of the requests the core keeps, in    *)
(* the same order; only the requests of an earlier process, the first in   *)
(* the file, have none.  AbortJob never reads behind the callbacks.        *)
InStep ==
    /\ ~overrun
    /\ \E n \in 0 .. Len(queue) :
        /\ \A i \in 1 .. Len(queue) : queue[i] \in orphans <=> i <= n
        /\ vCallback = SubSeq(queue, n + 1, Len(queue)) \o job
                            \o (IF sending = 0 THEN <<>> ELSE <<sending>>)

(* The result of a request, also of one that was sent again, goes to the   *)
(* callback of that request and of no other.                               *)
OwnResult == \A c \in Call : got[c] # 0 => got[c] = c

(* When AbortJob drops the requests of a job, their Discarded callbacks are *)
(* called.  The code does not have this property: EraseBack calls too few  *)
(* of them, or none, when callbacks waited as the job started.             *)
AbortTellsJob == \A c \in aborted : outcome[c] = "discarded"

(* A request in the file is answered at last, however often the session is *)
(* closed in between, and its callback hears of it.                        *)
EveryQueuedAnswered ==
    \A c \in Call : c \in Range(queue) ~> outcome[c] = "result" \/ c \in orphans
=============================================================================
