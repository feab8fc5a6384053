---------------------------- MODULE FileTransfer ----------------------------
(***************************************************************************)
(* File streaming between one client session and its peer on the server:   *)
(* StreamingFile and SFileImpl over one connection, which may break at any *)
(* time and come back.                                                     *)
(***************************************************************************)
EXTENDS StreamingFile, SFileImpl

CONSTANTS
    MaxBreaks,  \* bound: how often the connection breaks
    Overlap     \* environment: uploads fail halfway while other transfers wait

ASSUME TransferAssumption == MaxBreaks \in Nat /\ Overlap \in BOOLEAN

VARIABLE breaks

vars == <<channelVars, clientVars, serverVars, breaks>>

TypeOK ==
    /\ ChannelTypeOK /\ ClientTypeOK /\ ServerTypeOK
    /\ breaks \in 0 .. MaxBreaks

Init == ChannelInit /\ ClientInit /\ ServerInit /\ breaks = 0

(* Where a write of the server and a read of the client may fail halfway   *)
(* through an upload: without Overlap only for the last transfer of a      *)
(* behaviour, when it is alone in the client's queue.                      *)
MayFail == Overlap \/ (calls = MaxTransfers /\ Len(vContext) <= 1)

(* The socket dies; the client is told later, by OnSocketClosed.           *)
Break ==
    /\ conn = "up" /\ breaks < MaxBreaks
    /\ breaks' = breaks + 1
    /\ conn' = "closing"
    /\ UNCHANGED <<param, target, c2s, s2c, clientVars, serverVars>>

(* A new connection, with no requests of the old one, gets a peer object   *)
(* after the old one was released.                                         *)
Reconnect ==
    /\ conn = "down" /\ ~sess
    /\ conn' = "up" /\ sess' = TRUE /\ c2s' = <<>>
    /\ UNCHANGED <<param, target, s2c, clientVars, of, initSize, down, intr, hurt,
                   breaks>>

(* Application and worker of the client.  Interrupt reaches the server at  *)
(* once, whatever requests wait there.                                     *)
CancelStep ==
    /\ Cancel \/ CancelPop
    /\ intr' = (intr \/ (canceling' = 0 /\ Interrupts(vContext')))
    /\ UNCHANGED <<of, initSize, down, sess, hurt, breaks>>

CallStep == PostProcess /\ UNCHANGED <<serverVars, breaks>>
WorkerStep == WorkerNext(MayFail) /\ UNCHANGED <<serverVars, breaks>>
ServerStep == ServerNext(MayFail) /\ UNCHANGED <<clientVars, breaks>>

Next == Break \/ Reconnect \/ CancelStep \/ CallStep \/ WorkerStep \/ ServerStep

Spec == Init /\ [][Next]_vars

(* The worker threads of both sides run, and Discarded callbacks return.   *)
FairSpec ==
    /\ Spec
    /\ WF_vars(WorkerStep)
    /\ WF_vars(ServerStep)
    /\ WF_vars(CancelPop /\ CancelStep)
----------------------------------------------------------------------------
(* While connected, a result that is to be handled belongs to the front    *)
(* context, which the handler takes it for (OnResultReturned asserts as    *)
(* much: assert(context.Uploading), assert(context.FilePath == remoteFile)).*)
FrontOwnsReply ==
    s2c # <<>> /\ vContext # <<>> /\ conn = "up" /\ telling = 0
        => Head(vContext).t = Head(s2c).t

(* The callbacks of a transfer are told of a success or a failure once, and*)
(* only as the first thing: what may follow, when the socket closes, is    *)
(* Discarded for its requests that were not answered (CleanCallbacks of    *)
(* the base class).                                                        *)
EndsOnce ==
    \A t \in Transfer : \A i \in DOMAIN ends[t] :
        i > 1 => ends[t][i] = "discarded"

(* A transfer that was reported as a success has left the whole file, after*)
(* the earlier content when it was appended, and hears of no other end.    *)
SuccessIsComplete ==
    \A t \in Transfer : ends[t] # <<>> /\ ends[t][1] = "ok" =>
        Len(ends[t]) = 1 /\ target[t] = Complete(t)

(* A download that was reported as failed has left no partial file behind: *)
(* CloseFile has removed or cut it.  Not so when it appends to an existing *)
(* file, of which GetFilePos gives 0 as the length to keep.                *)
FailedDownloadUndone ==
    \A t \in Transfer :
        /\ ends[t] # <<>> /\ ends[t][1] = "failed"
        /\ ~param[t].up /\ ~(param[t].append /\ param[t].old)
        => target[t] \in {OldFile(t), Untouched(t)}

(* Unless a write failed, a file on the server that is not open any more   *)
(* is as before the upload or complete, whenever the connection broke, a   *)
(* read of the client failed or another transfer came next.                *)
NoHalfUpload ==
    \A t \in Transfer \ hurt :
        param[t].up /\ of # t
            => target[t] \in {OldFile(t), Untouched(t), Complete(t)}

(* Every transfer that was asked for ends: again and again all of them     *)
(* have.                                                                   *)
EveryTransferEnds == []<>(\A t \in 1 .. calls : ends[t] # <<>>)

(* Two properties that the code does not have.                            *)

(* The assertion at the start of CSFileImpl::Upload, assert(m_of == -1):   *)
(* the server has closed the file of one upload when the next arrives.     *)
(* Not so after an upload that could not lock it, or failed halfway.       *)
UploadFindsNoneOpen == Arrived("idUpload") => of = 0

(* A transfer leaves the queue only when one of its callbacks has been     *)
(* told.  Not so with RacyCancel: Cancel and OnPostProcessing may remove   *)
(* another context than the one whose callback they called.                *)
NoneForgotten ==
    \A t \in 1 .. calls :
        ends[t] # <<>> \/ \E i \in DOMAIN vContext : vContext[i].t = t
=============================================================================
