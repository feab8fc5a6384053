----------------------------- MODULE SFileImpl ------------------------------
(***************************************************************************)
(* The server side of file streaming, CSFileImpl in                        *)
(* include/file/server_impl/sfileimpl.cpp (Linux branch), for one client.  *)
(* All requests are slow ones: a worker thread executes one at a time, in  *)
(* their order.  A download is a loop of SendResult calls; an interrupt or *)
(* a closed socket may come between any two of them.                       *)
(* Sessions with a client message queue (idUploadBackup) are left out.     *)
(***************************************************************************)
EXTENDS FileChannel

CONSTANTS ReadFails   \* a read of a file that is downloaded may fail

VARIABLES
    of,        \* m_of: the transfer whose file is open for writing, or 0
    initSize,  \* InitSize
    down,      \* the download in progress: transfer (0: none), next chunk, res
    sess,      \* the peer object serves a connection
    intr,      \* GetInterruptOptions() (external)
    hurt       \* history: uploads of which a write failed

serverVars == <<of, initSize, down, sess, intr, hurt>>

NoDownload == [t |-> 0, next |-> 1, ok |-> TRUE]

ServerTypeOK ==
    /\ of \in Transfer \union {0}
    /\ initSize \in Int
    /\ down \in [t: Transfer \union {0}, next: Nat, ok: BOOLEAN]
    /\ sess \in BOOLEAN /\ intr \in BOOLEAN
    /\ hurt \subseteq Transfer

ServerInit ==
    /\ of = 0 /\ initSize = -1 /\ down = NoDownload
    /\ sess = TRUE /\ intr = FALSE /\ hurt = {}

(* The request that the worker executes next.                              *)
Arrived(id) == sess /\ down.t = 0 /\ c2s # <<>> /\ Head(c2s).id = id

(* Mutant: CleanOF only closes the file.                                   *)
CleanOFKeeps == target

(* CleanOF: the files after an upload that is under way was given up.      *)
CleanOF == IF of = 0 THEN target
           ELSE [target EXCEPT ![of] = Undone(@, initSize)]
----------------------------------------------------------------------------
(* Upload.  When the lock fails the file stays open although res is set.   *)
Upload ==
    /\ Arrived("idUpload")
    /\ LET t == Head(c2s).t
           opened == param[t].remote # "open failed"
       IN  /\ target' = IF opened THEN [CleanOF EXCEPT ![t] = Opened(t)] ELSE CleanOF
           /\ of' = IF opened THEN t ELSE 0
           /\ initSize' = IF opened /\ target[t].there
                          THEN Len(Opened(t).body) ELSE -1
           /\ Reply(Result("idUpload", t, initSize', param[t].remote = "ok"))
    /\ c2s' = Tail(c2s)
    /\ UNCHANGED <<param, conn, down, sess, intr, hurt>>

(* Uploading: the chunk is written to the open file, whichever it is; with *)
(* no open file the answer is FILE_BAD_OPERATION.  A write may fail where  *)
(* mayFail allows it, and leaves the file open.                            *)
Uploading(mayFail) ==
    /\ Arrived("idUploading")
    /\ LET m == Head(c2s)
       IN  \/ /\ of # 0
              /\ target' = [target EXCEPT ![of].body = Append(@, m.n)]
              /\ Reply(Result("idUploading", m.t, m.n, TRUE))
              /\ UNCHANGED hurt
           \/ /\ of = 0 \/ mayFail
              /\ Reply(Result("idUploading", m.t, m.n, FALSE))
              /\ hurt' = IF of = 0 THEN hurt ELSE hurt \union {of}
              /\ UNCHANGED target
    /\ c2s' = Tail(c2s)
    /\ UNCHANGED <<param, conn, of, initSize, down, sess, intr>>

(* UploadCompleted closes the file.                                        *)
UploadCompleted ==
    /\ Arrived("idUploadCompleted")
    /\ of' = 0 /\ initSize' = -1
    /\ Reply(Result("idUploadCompleted", Head(c2s).t, 0, TRUE))
    /\ c2s' = Tail(c2s)
    /\ UNCHANGED <<param, target, conn, down, sess, intr, hurt>>

(* Download, up to the answer idStartDownloading.  The core forgets an     *)
(* earlier interrupt when it begins a request.                             *)
Download ==
    /\ Arrived("idDownload")
    /\ LET m == Head(c2s)
           opened == param[m.t].remote = "ok"
       IN  /\ Reply(IF opened THEN Result("idStartDownloading", m.t, m.n, TRUE)
                    ELSE Result("idDownload", m.t, 0, FALSE))
           /\ down' = IF opened /\ conn = "up" THEN [NoDownload EXCEPT !.t = m.t]
                      ELSE NoDownload
    /\ target' = CleanOF /\ of' = 0 /\ initSize' = -1
    /\ intr' = FALSE
    /\ c2s' = Tail(c2s)
    /\ UNCHANGED <<param, conn, sess, hurt>>

(* One round of the loop in Download.  An interrupt sets res and the loop  *)
(* goes on; a SendResult that fails ends it without an answer.             *)
DownloadChunk ==
    /\ down.t # 0 /\ down.next <= Chunks(down.t)
    /\ Reply(Result("idDownloading", down.t, down.next, TRUE))
    /\ down' = IF conn = "up"
               THEN [down EXCEPT !.next = @ + 1, !.ok = @ /\ ~intr]
               ELSE NoDownload
    /\ UNCHANGED <<param, target, conn, c2s, of, initSize, sess, intr, hurt>>

(* Mutant: the last chunk is not sent.                                     *)
DownloadEndEarly ==
    /\ down.t # 0
    /\ \E ok \in BOOLEAN :
          /\ IF ok THEN down.next >= Chunks(down.t) ELSE ReadFails
          /\ Reply(Result("idDownload", down.t, 0, ok /\ down.ok))
    /\ down' = NoDownload
    /\ UNCHANGED <<param, target, conn, c2s, of, initSize, sess, intr, hurt>>

(* The end of Download: the file ends, or a read fails.                    *)
DownloadEnd ==
    /\ down.t # 0
    /\ \E ok \in BOOLEAN :
          /\ IF ok THEN down.next > Chunks(down.t) ELSE ReadFails
          /\ Reply(Result("idDownload", down.t, 0, ok /\ down.ok))
    /\ down' = NoDownload
    /\ UNCHANGED <<param, target, conn, c2s, of, initSize, sess, intr, hurt>>

(* OnReleaseSource: the connection is gone and no request is executing.    *)
OnReleaseSource ==
    /\ sess /\ conn # "up" /\ down.t = 0
    /\ target' = CleanOF /\ of' = 0 /\ initSize' = -1
    /\ sess' = FALSE /\ intr' = FALSE
    /\ c2s' = <<>>
    /\ UNCHANGED <<param, conn, s2c, down, hurt>>

ServerNext(mayFail) ==
    \/ Upload \/ Uploading(mayFail) \/ UploadCompleted
    \/ Download \/ DownloadChunk \/ DownloadEnd
    \/ OnReleaseSource
=============================================================================
