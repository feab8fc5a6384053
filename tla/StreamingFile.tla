--------------------------- MODULE StreamingFile ----------------------------
(***************************************************************************)
(* The client side of file streaming, CStreamingFile in                    *)
(* include/streamingfile.h (Linux branch).  m_vContext is the queue of     *)
(* transfers; results carry no transfer, and are taken for the front one.  *)
(* The application's threads call Upload, Download and Cancel, the worker  *)
(* thread of the socket runs OnPostProcessing and OnResultReturned; both   *)
(* lock m_csFile.  Cancel unlocks it while it runs a Discarded callback,   *)
(* OnPostProcessing while it tells a transfer that it failed.  The other   *)
(* callbacks run unlocked too, with their context still open in the queue, *)
(* where it is safe from Cancel: they are parts of the steps of the worker.*)
(* Sessions with a client message queue are left out: StartJob fails and   *)
(* IsAvailable is false.  So is the Cancel of the socket (idCancel).       *)
(***************************************************************************)
EXTENDS FileChannel

CONSTANTS
    MaxDownloading,  \* m_MaxDownloading
    MaxCancels,      \* bound: Cancel calls in a behaviour
    RacyCancel       \* usage: Cancel and what the worker does overlap at the
                     \* callbacks that each of them runs unlocked

ASSUME ClientAssumption ==
    /\ MaxDownloading \in Nat \ {0}
    /\ MaxCancels \in Nat
    /\ RacyCancel \in BOOLEAN

VARIABLES
    vContext,    \* m_vContext
    m_vCallback, \* how many requests of a transfer wait in m_vCallback of the
                 \* base class, each with the transfer's Discarded callback
    posted,      \* calls of OnPostProcessing that the core has to make
    telling,     \* OnPostProcessing tells this transfer that it failed, or 0
    canceling,   \* Cancel runs the Discarded callback of this transfer, or 0
    calls, cancels,
    ends         \* history: the ends a transfer's callbacks were told, in order

clientVars == <<vContext, m_vCallback, posted, telling, canceling, calls,
                cancels, ends>>

(* mute: the context has no callbacks.                                     *)
Context == [t: Transfer, open: BOOLEAN, err: BOOLEAN, initSize: Int,
            sent: BOOLEAN, read: Nat, mute: BOOLEAN]

ClientTypeOK ==
    /\ vContext \in Seq(Context)
    /\ m_vCallback \in [Transfer -> Nat]
    /\ posted \in Nat
    /\ telling \in Transfer \union {0}
    /\ canceling \in Transfer \union {0}
    /\ calls \in 0 .. MaxTransfers /\ cancels \in 0 .. MaxCancels
    /\ ends \in [Transfer -> Seq({"ok", "failed", "discarded"})]

ClientInit ==
    /\ vContext = <<>> /\ posted = 0 /\ telling = 0 /\ canceling = 0
    /\ m_vCallback = [t \in Transfer |-> 0]
    /\ calls = 0 /\ cancels = 0
    /\ ends = [t \in Transfer |-> <<>>]

NewContext(t) == [t |-> t, open |-> FALSE, err |-> FALSE, initSize |-> -1,
                  sent |-> FALSE, read |-> 0, mute |-> FALSE]
Uploads(c) == param[c.t].up

(* Everybody but Cancel's own thread waits where RacyCancel is FALSE.      *)
Quiet == canceling = 0 \/ RacyCancel

(* The history after the callbacks of a context were told how it ended.    *)
Tell(e, c, how) == IF c.mute THEN e ELSE [e EXCEPT ![c.t] = Append(@, how)]

(* Mutant: CloseFile does not undo a failed download.                      *)
CloseFileOnly(f, c) == f

(* The file that CloseFile leaves: only a failed download is undone.       *)
CloseFile(f, c) ==
    IF c.open /\ c.err /\ ~Uploads(c) THEN Undone(f, c.initSize) ELSE f

(* GetFilesOpened counts open contexts up to the first that waits.         *)
GetFilesOpened(v) ==
    Cardinality({i \in DOMAIN v : /\ v[i].open
                                  /\ \A j \in 1 .. i : v[j].open \/ v[j].err})

(* OpenLocalRead and OpenLocalWrite: the context, and the file written.    *)
(* GetFilePos is 0 after open, with O_APPEND too.                          *)
OpenLocal(c) ==
    [c EXCEPT !.open = param[c.t].local # "open failed",
              !.err = param[c.t].local # "ok",
              !.initSize = IF ~Uploads(c) /\ target[c.t].there THEN 0 ELSE @]
OpensTarget(c) == ~Uploads(c) /\ param[c.t].local # "open failed"
----------------------------------------------------------------------------
(* OnPostProcessing as a function of the queue.                            *)

(* A waiting context sends its request when its file opens and the         *)
(* connection is up.                                                       *)
Sends(c) == ~c.open /\ ~c.err /\ param[c.t].local = "ok" /\ conn = "up"
Streams(c) == c.open \/ Sends(c)

(* The first loop reaches the i-th context: no upload is before it and     *)
(* fewer than m_MaxDownloading downloads are; it opens those that wait.    *)
Reached(v, i) ==
    /\ \A j \in 1 .. i - 1 : ~(Streams(v[j]) /\ Uploads(v[j]))
    /\ Cardinality({j \in 1 .. i - 1 : Streams(v[j])}) < MaxDownloading
Opens(v, i) == Reached(v, i) /\ ~v[i].open /\ ~v[i].err

(* The queue after the first loop.  A request that cannot be sent leaves   *)
(* its context open with an error.                                         *)
AfterOpening(v) ==
    [i \in DOMAIN v |-> IF Opens(v, i)
                        THEN [OpenLocal(v[i]) EXCEPT !.err = ~Sends(v[i])]
                        ELSE v[i]]

(* The requests it sends.                                                  *)
RequestOf(c) ==
    IF Uploads(c) THEN Request("idUpload", c.t, -1)
    ELSE Request("idDownload", c.t, OpenLocal(c).initSize)

RequestsOf(v) ==
    LET sent[n \in 0 .. Len(v)] ==
            IF n = 0 THEN <<>>
            ELSE IF Opens(v, n) /\ Sends(v[n]) THEN Append(sent[n - 1], RequestOf(v[n]))
            ELSE sent[n - 1]
    IN  sent[Len(v)]

(* The files it creates and opens for writing.                             *)
Creates(v, t) ==
    \E i \in DOMAIN v : v[i].t = t /\ Opens(v, i) /\ OpensTarget(v[i])

(* The second loop, one round of it: the front context, when it has an     *)
(* error, is closed, and its Download callback called with m_csFile        *)
(* unlocked.                                                               *)
TellFront(w, f, e) ==
    IF w # <<>> /\ Head(w).err
    THEN LET c == Head(w)
         IN  /\ vContext' = <<[c EXCEPT !.open = FALSE]>> \o Tail(w)
             /\ telling' = c.t
             /\ target' = [f EXCEPT ![c.t] = CloseFile(@, c)]
             /\ ends' = Tell(e, c, "failed")
    ELSE vContext' = w /\ telling' = 0 /\ target' = f /\ ends' = e

(* OnPostProcessing, up to its first callback, for a handler that has sent *)
(* the requests reqs and leaves the queue v, the files f and the ends e.   *)
OnPostProcessing(v, reqs, f, e) ==
    /\ TellFront(AfterOpening(v),
                 [t \in Transfer |-> IF Creates(v, t) THEN Opened(t) ELSE f[t]], e)
    /\ c2s' = c2s \o reqs \o RequestsOf(v)

(* The front transfer ends: its callback is called, its file closed and    *)
(* the context removed.                                                    *)
Ended(f, c) == [f EXCEPT ![c.t] = CloseFile(@, c)]

(* Mutant: OnPostProcessing is not called.                                 *)
EndFrontOnly(ok, reqs) ==
    /\ c2s' = c2s \o reqs /\ UNCHANGED telling
    /\ IF vContext = <<>> THEN UNCHANGED <<vContext, target, ends>>
       ELSE LET c == [Head(vContext) EXCEPT !.err = ~ok]
            IN  /\ vContext' = Tail(vContext)
                /\ target' = Ended(target, c)
                /\ ends' = Tell(ends, c, IF ok THEN "ok" ELSE "failed")

(* The end of the front transfer, after it has sent the requests reqs.     *)
EndFront(ok, reqs) ==
    IF vContext = <<>> THEN OnPostProcessing(vContext, reqs, target, ends)
    ELSE LET c == [Head(vContext) EXCEPT !.err = ~ok]
         IN  OnPostProcessing(Tail(vContext), reqs, Ended(target, c),
                              Tell(ends, c, IF ok THEN "ok" ELSE "failed"))

(* SendRequest registers the callbacks of what a step of the worker sends; *)
(* p is what was registered before.                                        *)
Registers(p) ==
    m_vCallback' =
        [t \in Transfer |->
            p[t] + Cardinality({i \in DOMAIN c2s' : i > Len(c2s) /\ c2s'[i].t = t})]
----------------------------------------------------------------------------
(* Upload and Download.                                                    *)
PostProcess ==
    /\ Quiet
    /\ calls < MaxTransfers
    /\ calls' = calls + 1
    /\ vContext' = Append(vContext, NewContext(calls'))
    /\ posted' = IF MaxDownloading > GetFilesOpened(vContext') THEN posted + 1
                 ELSE posted
    /\ UNCHANGED <<channelVars, m_vCallback, telling, canceling, cancels, ends>>

(* The worker is not inside a callback of OnPostProcessing.                *)
Worker == Quiet /\ telling = 0

(* The call of OnPostProcessing that PostProcess asked for.                *)
PostProcessing ==
    /\ Worker
    /\ posted > 0
    /\ posted' = posted - 1
    /\ OnPostProcessing(vContext, <<>>, target, ends)
    /\ Registers(m_vCallback)
    /\ UNCHANGED <<param, conn, s2c, canceling, calls, cancels>>

(* The callback of the second loop has returned: the context that is the   *)
(* first one now goes (none: undefined behaviour), and the loop goes on.   *)
Told ==
    /\ Quiet
    /\ telling # 0
    /\ TellFront(IF vContext = <<>> THEN <<>> ELSE Tail(vContext), target, ends)
    /\ UNCHANGED <<param, conn, c2s, s2c, m_vCallback, posted, canceling, calls,
                   cancels>>

(* OnResultReturned, one case of its switch for each id.                   *)
Returned(id) == Worker /\ conn # "down" /\ s2c # <<>> /\ Head(s2c).id = id

(* OnRR finds the callbacks of the oldest request when the result has its  *)
(* id: for every result but those that come while a download is executed.  *)
Answered ==
    LET m == Head(s2c)
    IN  IF m.id \in {"idStartDownloading", "idDownloading"} \/ m_vCallback[m.t] = 0
        THEN m_vCallback
        ELSE [m_vCallback EXCEPT ![m.t] = @ - 1]
TakeResult ==
    /\ s2c' = Tail(s2c)
    /\ Registers(Answered)
    /\ UNCHANGED <<param, conn, posted, canceling, calls, cancels>>

OnDownload ==
    /\ Returned("idDownload")
    /\ EndFront(Head(s2c).ok, <<>>)
    /\ TakeResult

(* With no context left (Cancel or an error removed it) a new one, without *)
(* callbacks, takes the file that comes.                                   *)
OnStartDownloading ==
    /\ Returned("idStartDownloading")
    /\ LET t == Head(s2c).t
           c == [OpenLocal(NewContext(t)) EXCEPT !.initSize = Head(s2c).n,
                                                 !.mute = TRUE]
       IN  IF vContext = <<>>
           THEN /\ vContext' = <<c>>
                /\ target' = IF c.open THEN [target EXCEPT ![t] = Opened(t)] ELSE target
           ELSE UNCHANGED <<vContext, target>>
    /\ UNCHANGED <<c2s, telling, ends>>
    /\ TakeResult

(* The chunk is written to the file of the front context.                  *)
OnDownloading ==
    /\ Returned("idDownloading")
    /\ target' = IF /\ vContext # <<>> /\ Head(vContext).open
                    /\ ~Uploads(Head(vContext))
                 THEN [target EXCEPT ![Head(vContext).t].body = Append(@, Head(s2c).n)]
                 ELSE target
    /\ UNCHANGED <<vContext, c2s, telling, ends>>
    /\ TakeResult

(* The result lets the front upload go on: it has a file to read.          *)
GoesOn == Head(s2c).ok /\ Head(vContext).open /\ Uploads(Head(vContext))

(* The chunks of the front upload after those it has read, up to the n-th. *)
ChunksTo(n) ==
    LET c == Head(vContext)
    IN  [i \in 1 .. n - c.read |-> Request("idUploading", c.t, c.read + i)]

(* They are sent; with complete, the read of less than a full chunk was    *)
(* seen and idUploadCompleted follows.                                     *)
SendChunks(n, complete) ==
    LET c == Head(vContext)
        done == IF complete THEN <<Request("idUploadCompleted", c.t, 0)>> ELSE <<>>
    IN  /\ c2s' = c2s \o ChunksTo(n) \o done
        /\ vContext' = <<[c EXCEPT !.read = n, !.sent = complete]>> \o Tail(vContext)
        /\ UNCHANGED <<target, telling, ends>>

(* Mutant: a refused upload is not taken out of the queue.                 *)
OnUploadIgnored(mayFail) ==
    /\ Returned("idUpload")
    /\ IF vContext # <<>> /\ GoesOn /\ conn = "up"
       THEN SendChunks(Chunks(Head(vContext).t), TRUE)
       ELSE UNCHANGED <<vContext, c2s, target, telling, ends>>
    /\ TakeResult

(* idUpload.  Chunks are sent until the file ends or the sending buffer is *)
(* full, which is looked at after a full chunk was read and before it is   *)
(* sent.  The upload has failed when the connection is lost between any    *)
(* two of these requests, or where mayFail allows a read to fail.          *)
OnUpload(mayFail) ==
    /\ Returned("idUpload")
    /\ IF vContext = <<>> THEN UNCHANGED <<vContext, c2s, target, telling, ends>>
       ELSE IF ~GoesOn THEN EndFront(FALSE, <<>>)
       ELSE LET c == Head(vContext)
                full == param[c.t].full
            IN  \/ conn = "up" /\ SendChunks(Chunks(c.t), TRUE)
                \/ conn = "up" /\ \E n \in c.read + 2 .. full : SendChunks(n, FALSE)
                \/ \E n \in c.read .. Chunks(c.t) :
                      /\ conn # "up" \/ (mayFail /\ n <= full)
                      /\ EndFront(FALSE, ChunksTo(n))
    /\ TakeResult

(* idUploading: an answered chunk makes room for the next one.  A read may *)
(* fail (assert(ok), which a release build does not have).                 *)
OnUploading(mayFail) ==
    /\ Returned("idUploading")
    /\ IF vContext = <<>> \/ (Head(s2c).ok /\ Head(vContext).sent)
       THEN UNCHANGED <<vContext, c2s, target, telling, ends>>
       ELSE IF ~GoesOn THEN EndFront(FALSE, <<>>)
       ELSE LET c == Head(vContext)
                n == IF c.read < Chunks(c.t) THEN c.read + 1 ELSE c.read
                complete == c.read >= param[c.t].full
            IN  \/ conn = "up" /\ SendChunks(n, complete)
                \/ (conn # "up" \/ mayFail) /\ EndFront(FALSE, <<>>)
                \/ conn # "up" /\ complete /\ EndFront(FALSE, ChunksTo(n))
    /\ TakeResult

(* idUploadCompleted ends the front transfer when its file is open.        *)
OnUploadCompleted ==
    /\ Returned("idUploadCompleted")
    /\ IF vContext # <<>> /\ ~Head(vContext).open
       THEN OnPostProcessing([vContext EXCEPT ![1].sent = FALSE], <<>>, target, ends)
       ELSE EndFront(TRUE, <<>>)
    /\ TakeResult

(* How often the Discarded callback of a transfer runs at a close: for its *)
(* context, and in the base class again for each of its requests.          *)
Discards(t) ==
    Cardinality({i \in DOMAIN vContext : vContext[i].t = t /\ ~vContext[i].mute})
    + m_vCallback[t]
Discarded == [t \in Transfer |-> ends[t] \o [i \in 1 .. Discards(t) |-> "discarded"]]

(* Mutant: the contexts stay in the queue.                                 *)
CleanCallbacksKeeps ==
    /\ ends' = Discarded
    /\ m_vCallback' = [t \in Transfer |-> 0]
    /\ UNCHANGED <<vContext, target>>

(* OnSocketClosed: CleanCallbacks takes all contexts out of the queue and  *)
(* closes their files; no error is set, so that a half-downloaded file is  *)
(* not removed unless its context had one.                                 *)
CleanCallbacks ==
    /\ vContext' = <<>>
    /\ m_vCallback' = [t \in Transfer |-> 0]
    /\ target' = [t \in Transfer |->
                    LET of == {i \in DOMAIN vContext : vContext[i].t = t}
                    IN  IF of = {} THEN target[t]
                        ELSE CloseFile(target[t], vContext[CHOOSE i \in of : TRUE])]
    /\ ends' = Discarded

OnSocketClosed ==
    /\ Worker
    /\ conn = "closing"
    /\ conn' = "down"
    /\ s2c' = <<>>
    /\ CleanCallbacks
    /\ UNCHANGED <<param, c2s, posted, telling, canceling, calls, cancels>>

(* Cancel, its loop from the queue v on: it ends at an empty queue or at   *)
(* an open context, for which the server is interrupted; else it runs the  *)
(* Discarded callback of the last context, unlocked.                       *)
CancelLoop(v) ==
    IF v = <<>> \/ Last(v).open THEN canceling' = 0 /\ UNCHANGED ends
    ELSE /\ canceling' = Last(v).t
         /\ ends' = Tell(ends, Last(v), "discarded")
Interrupts(v) == v # <<>> /\ Last(v).open /\ conn = "up"

Cancel ==
    /\ canceling = 0 /\ (telling = 0 \/ RacyCancel)
    /\ cancels < MaxCancels
    /\ cancels' = cancels + 1
    /\ CancelLoop(vContext)
    /\ UNCHANGED <<channelVars, vContext, m_vCallback, posted, telling, calls>>

(* The callback has returned: the context that is the last one now goes.   *)
CancelPop ==
    /\ canceling # 0
    /\ vContext' = IF vContext = <<>> THEN <<>> ELSE Front(vContext)
    /\ CancelLoop(vContext')
    /\ UNCHANGED <<channelVars, m_vCallback, posted, telling, calls, cancels>>

WorkerNext(mayFail) ==
    \/ PostProcessing \/ Told
    \/ OnDownload \/ OnStartDownloading \/ OnDownloading
    \/ OnUpload(mayFail) \/ OnUploading(mayFail) \/ OnUploadCompleted
    \/ OnSocketClosed
=============================================================================
