---------------------------- MODULE FileChannel ----------------------------
(***************************************************************************)
(* What the two sides of file streaming share: the transfers, the files    *)
(* they write, and the connection with a FIFO of requests and a FIFO of    *)
(* results (the closed cores, modelled from how the adapters use them).    *)
(*                                                                         *)
(* A file is whether it is there and its chunks of STREAM_CHUNK_SIZE       *)
(* bytes: chunk 0 is content from before the transfer, chunk i > 0 is the  *)
(* i-th chunk of the transfer's source.  Transfers have different paths,   *)
(* and nobody else touches the files.                                      *)
(***************************************************************************)
EXTENDS Integers, Sequences, SequencesExt, FiniteSets

CONSTANTS
    MaxTransfers,  \* bound: Upload and Download calls in a behaviour
    Plans          \* the transfers an application may ask for, in order

(* A transfer reads full chunks and, with tail, a shorter one at the end;  *)
(* old: the file to be written exists; append: FILE_OPEN_APPENDED rather   *)
(* than FILE_OPEN_TRUNCACTED; local and remote: what open and fcntl say at *)
(* each side.                                                              *)
OpenResult == {"ok", "open failed", "lock failed"}
Param == [up: BOOLEAN, append: BOOLEAN, old: BOOLEAN, full: Nat,
          tail: BOOLEAN, local: OpenResult, remote: OpenResult]

Transfer == 1 .. MaxTransfers

ASSUME FileAssumption ==
    MaxTransfers \in Nat /\ Plans \subseteq [Transfer -> Param]

VARIABLES
    param,    \* what every transfer is (never changes)
    target,   \* the file that a transfer writes
    conn,     \* "up", "closing" (dead, the client has not been told), "down"
    c2s, s2c  \* requests and results under way

channelVars == <<param, target, conn, c2s, s2c>>

Absent == [there |-> FALSE, body |-> <<>>]
Chunks(t) == param[t].full + (IF param[t].tail THEN 1 ELSE 0)
Source(t) == [i \in 1 .. Chunks(t) |-> i]
OldFile(t) == IF param[t].old THEN [there |-> TRUE, body |-> <<0>>] ELSE Absent

(* The file after open with O_EXCL or else O_TRUNC or O_APPEND.            *)
Opened(t) ==
    [there |-> TRUE,
     body |-> IF target[t].there /\ param[t].append THEN target[t].body ELSE <<>>]

(* A file closed after a failure: removed when it was new (InitSize is -1),*)
(* cut to InitSize otherwise.                                              *)
Undone(f, initSize) ==
    IF initSize = -1 THEN Absent ELSE [f EXCEPT !.body = SubSeq(@, 1, initSize)]

(* What a transfer that succeeded, and one that failed, has to leave.      *)
Complete(t) ==
    [there |-> TRUE,
     body |-> (IF param[t].append THEN OldFile(t).body ELSE <<>>) \o Source(t)]
Untouched(t) ==
    IF param[t].append THEN OldFile(t) ELSE [OldFile(t) EXCEPT !.body = <<>>]

Request(id, t, n) == [id |-> id, t |-> t, n |-> n]
Result(id, t, n, ok) == [id |-> id, t |-> t, n |-> n, ok |-> ok]

Requests == [id: {"idUpload", "idUploading", "idUploadCompleted", "idDownload"},
             t: Transfer, n: Int]
Results == [id: {"idUpload", "idUploading", "idUploadCompleted", "idDownload",
                 "idStartDownloading", "idDownloading"},
            t: Transfer, n: Int, ok: BOOLEAN]

ChannelTypeOK ==
    /\ param \in [Transfer -> Param]
    /\ target \in [Transfer -> [there: BOOLEAN, body: Seq(Nat)]]
    /\ conn \in {"up", "closing", "down"}
    /\ c2s \in Seq(Requests)
    /\ s2c \in Seq(Results)

ChannelInit ==
    /\ param \in Plans
    /\ target = [t \in Transfer |-> OldFile(t)]
    /\ conn = "up" /\ c2s = <<>> /\ s2c = <<>>

(* SendResult: what is sent on a dead connection is lost.                  *)
Reply(r) == s2c' = IF conn = "up" THEN Append(s2c, r) ELSE s2c
=============================================================================
