--------------------------- MODULE MCFileTransfer ---------------------------
EXTENDS FileTransfer

P(up, append, old, full, tail, local, remote) ==
    [up |-> up, append |-> append, old |-> old, full |-> full, tail |-> tail,
     local |-> local, remote |-> remote]

(* An appended upload of three chunks and a download of one.               *)
Plain ==
    { P(TRUE, TRUE, TRUE, 2, TRUE, "ok", "ok"),
      P(FALSE, FALSE, FALSE, 1, FALSE, "ok", "ok") }

(* A file that ends with a full chunk, an empty file, a longer download    *)
(* appended to a file, files that cannot be opened at one side, a download *)
(* that cannot lock.                                                       *)
Odd ==
    { P(TRUE, FALSE, FALSE, 2, FALSE, "ok", "ok"),
      P(TRUE, FALSE, TRUE, 0, FALSE, "ok", "ok"),
      P(FALSE, TRUE, TRUE, 1, TRUE, "ok", "ok"),
      P(TRUE, FALSE, TRUE, 1, FALSE, "ok", "open failed"),
      P(TRUE, FALSE, FALSE, 1, FALSE, "open failed", "ok"),
      P(FALSE, FALSE, TRUE, 1, FALSE, "ok", "open failed"),
      P(FALSE, FALSE, FALSE, 1, FALSE, "lock failed", "ok") }

(* Two transfers, one of them odd or none, and a download behind them; or  *)
(* plain transfers with an upload as the last one.                         *)
AtMostOneOdd ==
    { p \in [Transfer -> Plain \union Odd] :
        /\ p[3] \in Plain
        /\ IF p[3].up THEN p[1] \in Plain /\ ~p[1].up /\ p[2] \in Plain
           ELSE p[1] \in Plain \/ p[2] \in Plain }

(* A plain upload with a plain download behind it.                         *)
UploadThenDownload == {p \in [Transfer -> Plain] : p[1].up /\ ~p[2].up}
=============================================================================
