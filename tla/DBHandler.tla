------------------------------ MODULE DBHandler -----------------------------
(***************************************************************************)
(* The database client handler, CAsyncDBHandler in include/udb_client.h,   *)
(* on a session without a client message queue.  Threads send statements;  *)
(* the server answers one with rowsets, output parameters and then one     *)
(* result, in the order of the requests.  The handler finds the callbacks  *)
(* and the parameter array of an answer by the call index that the server  *)
(* sends back (m_indexRowset), and the place of an output parameter by     *)
(* counting the parameter sets that were answered (m_indexProc).           *)
(*                                                                         *)
(* A call stands for its call index, and always has callbacks for rows.    *)
(* Connection strings, error texts, column descriptions and the counts     *)
(* that only getters read are left out.  The session is that of            *)
(* AsyncHandler, reduced to the queue of waiting calls.  The database      *)
(* server is closed source: it is modelled from what the handler expects.  *)
(***************************************************************************)
EXTENDS Integers, Sequences, SequencesExt, FiniteSets

CONSTANTS
    Thread,
    MaxCalls,        \* bound: statements in a behaviour
    MaxCloses,       \* bound: how often the session is closed
    MaxExceptions,   \* bound: statements that end with a server exception
    Prepared,        \* the statements that Prepare is called with
    Batches,         \* the batches, sequences of statements
    Arrays,          \* parameter arrays: for each value how many chunks it
                     \* fills (DEFAULT_BIG_FIELD_CHUNK_SIZE), 0 for a small one
    BatchSize,       \* DEFAULT_RECORD_BATCH_SIZE, in small values
    MidCall,         \* a call may be broken off between outputs and result
    PatientReconnect \* usage: no reconnection while a call is being sent

(* A statement: its parameters, whether the first of them takes the value  *)
(* that a procedure returns, how many of the last are outputs, and whether *)
(* it has a rowset.                                                        *)
Statement == [params: Nat, ret: BOOLEAN, outs: Nat, rows: BOOLEAN]

Query == [params |-> 0, ret |-> FALSE, outs |-> 0, rows |-> TRUE]

ASSUME ConstantsAssumption ==
    /\ {MaxCalls, MaxCloses, MaxExceptions} \subseteq Nat
    /\ BatchSize \in Nat \ {0}
    /\ Prepared \subseteq Statement /\ Batches \subseteq Seq(Statement)
    /\ Arrays \subseteq Seq(Nat)
    /\ {MidCall, PatientReconnect} \subseteq BOOLEAN

VARIABLES
    \* the handler
    mapRowset, mapParameterCall, mapHandler,  \* the calls that have entries
    indexRowset, indexProc, parameters, nParamPos, lastReqId,
    vData,         \* m_vData
    blob,          \* m_Blob: the values whose parts are in it
    \* the threads
    pc,            \* where a thread is; not "idle": it holds m_csOneSending
    cur,           \* the call it makes
    todo,          \* the parameter data it has still to send
    \* the session and the server (external)
    conn, closes, waiting, up, down,
    bound,         \* the parameter data that the server has received
    exceptions,
    \* history
    call,          \* the calls so far: kind, statements, parameter array
    lastPrepared,  \* what the last Prepare of this connection was called with
    outcome,       \* how a call ended
    got,           \* what its callbacks received: headers <<>> and rows
    cells,         \* its parameter array, 0 for values that were not written
    overrun,       \* calls with a write outside of their parameter array
    executed       \* the parameter data that the server took for a call

handlerVars == <<mapRowset, mapParameterCall, mapHandler, indexRowset,
                 indexProc, parameters, nParamPos, lastReqId, vData, blob>>
threadVars  == <<pc, cur, todo>>
sessionVars == <<conn, closes, waiting, up, down, bound, exceptions>>
historyVars == <<call, lastPrepared, outcome, got, cells, overrun, executed>>
vars == <<handlerVars, threadVars, sessionVars, historyVars>>

Executing == {"idExecuteParameters", "idExecute", "idExecuteBatch"}
Simple    == {"idPrepare", "idOpen", "idBeginTrans"}

Init ==
    /\ mapRowset = {} /\ mapParameterCall = {} /\ mapHandler = {}
    /\ indexRowset = 0 /\ indexProc = 0 /\ parameters = 0
    /\ nParamPos = [offset |-> 0, params |-> 0] /\ lastReqId = "none"
    /\ vData = <<>> /\ blob = <<>>
    /\ pc = [t \in Thread |-> "idle"] /\ cur = [t \in Thread |-> 0]
    /\ todo = [t \in Thread |-> <<>>]
    /\ conn = "up" /\ closes = 0 /\ waiting = <<>> /\ up = <<>> /\ down = <<>>
    /\ bound = <<>> /\ exceptions = 0
    /\ call = <<>> /\ lastPrepared = {}
    /\ outcome = <<>> /\ got = <<>> /\ cells = <<>>
    /\ overrun = {} /\ executed = <<>>
----------------------------------------------------------------------------
(* Parameters per set of a call, the place of statement i in a set, and    *)
(* the number of sets in its parameter array.                              *)
Sum(s) ==
    LET sum[n \in 0 .. Len(s)] == IF n = 0 THEN 0 ELSE sum[n - 1] + s[n].params
    IN  sum[Len(s)]
Width(c) == Sum(call[c].stmts)
Offset(c, i) == Sum(SubSeq(call[c].stmts, 1, i - 1))
Sets(c) == IF Width(c) = 0 THEN 1 ELSE Len(call[c].vParam) \div Width(c)

(* A request or an answer: its id, its call, two numbers, and values.      *)
Msg(id, c, n, m, vals) == [id |-> id, c |-> c, n |-> n, m |-> m, vals |-> vals]

(* SendBlob: the first chunk, the other full chunks, and the rest.         *)
SendBlob(c, n, chunks) ==
    <<Msg("idStartBLOB", c, 0, 0, <<>>)>>
        \o [k \in 1 .. chunks - 1 |-> Msg("idChunk", c, 0, 0, <<>>)]
        \o <<Msg("idEndBLOB", c, 0, 0, <<n>>)>>

(* Send: the values in sb go out; the first request is idBeginRows, which  *)
(* is sent even when sb is empty.                                          *)
Send(c, s) ==
    IF s.sb = <<>> /\ ~s.first THEN s
    ELSE [out |-> Append(s.out,
                         Msg(IF s.first THEN "idBeginRows" ELSE "idTransferring",
                             c, 0, 0, s.sb)),
          sb |-> <<>>, first |-> FALSE]

(* SendParametersData as the sequence of the requests it sends.            *)
SendParametersData(c, v) ==
    LET One(s, n) ==
            LET big == Send(c, s)
                s1 == IF v[n] = 0 THEN [s EXCEPT !.sb = Append(@, n)]
                      ELSE [big EXCEPT !.out = @ \o SendBlob(c, n, v[n])]
            IN  IF Len(s1.sb) >= BatchSize THEN Send(c, s1) ELSE s1
        start == [out |-> <<>>, sb |-> <<>>, first |-> TRUE]
        sent[n \in 0 .. Len(v)] == IF n = 0 THEN start ELSE One(sent[n - 1], n)
    IN  IF v = <<>> THEN <<>> ELSE Send(c, sent[Len(v)]).out

(* The history of a new call.                                              *)
NewCall(kind, stmts, v) ==
    /\ Len(call) < MaxCalls
    /\ call' = Append(call, [kind |-> kind, stmts |-> stmts, vParam |-> v])
    /\ got' = Append(got, <<>>)
    /\ cells' = Append(cells, [n \in 1 .. Len(v) |-> 0])
    /\ executed' = Append(executed, <<>>)
    /\ UNCHANGED overrun

NoneSending == \A t \in Thread : pc[t] = "idle"
----------------------------------------------------------------------------
(* Prepare, Open, and BeginTrans for the requests that change no state     *)
(* beyond m_lastReqId (Close, BeginTrans, EndTrans): one request, whose    *)
(* sending fails when the session is closed.  Usage: nobody prepares or    *)
(* opens in the middle of Execute.                                         *)
SendSimple(kind, stmts) ==
    /\ NoneSending
    /\ NewCall(kind, stmts, <<>>)
    /\ IF conn = "up"
       THEN /\ up' = Append(up, Msg(kind, Len(call'), 0, 0, <<>>))
            /\ waiting' = Append(waiting, Len(call'))
            /\ outcome' = Append(outcome, "none")
            /\ lastPrepared' = CASE kind = "idPrepare" -> {stmts[1]}
                                 [] kind = "idOpen" -> {}
                                 [] OTHER -> lastPrepared
       ELSE /\ outcome' = Append(outcome, "failed")
            /\ UNCHANGED <<up, waiting, lastPrepared>>
    /\ UNCHANGED <<handlerVars, threadVars, conn, closes, down, bound, exceptions>>

(* The start of Execute and ExecuteBatch.  Usage: a statement is prepared  *)
(* before it is executed; a batch leaves none prepared.                    *)
Start(t, kind, stmts, v) ==
    /\ pc[t] = "idle"
    /\ NewCall(kind, stmts, v)
    /\ outcome' = Append(outcome, "none")
    /\ pc' = [pc EXCEPT ![t] = "data"]
    /\ cur' = [cur EXCEPT ![t] = Len(call')]
    /\ todo' = [todo EXCEPT ![t] = SendParametersData(Len(call'), v)]
    /\ lastPrepared' = IF kind = "idExecuteBatch" THEN {} ELSE lastPrepared
    /\ UNCHANGED <<handlerVars, sessionVars>>

(* A call with a statement or batch and a parameter array that fits it.    *)
ExecuteWith(t, kind, stmts) ==
    \E v \in Arrays \union {<<>>} :
        /\ IF Sum(stmts) = 0 THEN v = <<>>
           ELSE v # <<>> /\ Len(v) % Sum(stmts) = 0
        /\ Start(t, kind, stmts, v)

(* Mutant: m_csOneSending is not locked.                                   *)
ExecuteUnlocked(t) ==
    \/ \E s \in lastPrepared : ExecuteWith(t, "idExecuteParameters", <<s>>)
    \/ ExecuteWith(t, "idExecute", <<Query>>)
    \/ \E b \in Batches : ExecuteWith(t, "idExecuteBatch", b)

(* Execute and ExecuteBatch lock m_csOneSending first.                     *)
Execute(t) ==
    /\ NoneSending
    /\ \/ \E s \in lastPrepared : ExecuteWith(t, "idExecuteParameters", <<s>>)
       \/ ExecuteWith(t, "idExecute", <<Query>>)
       \/ \E b \in Batches : ExecuteWith(t, "idExecuteBatch", b)

Return(t) ==
    /\ pc' = [pc EXCEPT ![t] = "idle"]
    /\ cur' = [cur EXCEPT ![t] = 0]
    /\ todo' = [todo EXCEPT ![t] = <<>>]

(* Clean, which the code also runs without m_csDB.  m_indexProc stays.     *)
Clean ==
    /\ mapRowset' = {} /\ mapParameterCall' = {} /\ mapHandler' = {}
    /\ lastReqId' = "none" /\ blob' = <<>> /\ vData' = <<>>
    /\ UNCHANGED <<indexRowset, indexProc, parameters, nParamPos>>

(* One SendRequest of SendParametersData.                                  *)
SendData(t) ==
    /\ pc[t] = "data" /\ todo[t] # <<>>
    /\ \/ /\ conn = "up"
          /\ up' = Append(up, Head(todo[t]))
          /\ todo' = [todo EXCEPT ![t] = Tail(@)]
          /\ UNCHANGED <<handlerVars, pc, cur, outcome>>
       \/ /\ conn # "up"
          /\ Clean /\ Return(t)
          /\ outcome' = [outcome EXCEPT ![cur[t]] = "failed"]
          /\ UNCHANGED up
    /\ UNCHANGED <<conn, closes, waiting, down, bound, exceptions,
                   call, lastPrepared, got, cells, overrun, executed>>

(* The entries of a call, before its request is sent.                      *)
Register(t) ==
    /\ pc[t] = "data" /\ todo[t] = <<>>
    /\ LET c == cur[t]
           k == call[c].kind
       IN  /\ mapRowset' = mapRowset \union {c}
           /\ mapParameterCall' = IF k = "idExecute" THEN mapParameterCall
                                  ELSE mapParameterCall \union {c}
           /\ mapHandler' = IF k = "idExecuteBatch" THEN mapHandler \union {c}
                            ELSE mapHandler
    /\ pc' = [pc EXCEPT ![t] = "request"]
    /\ UNCHANGED <<indexRowset, indexProc, parameters, nParamPos, lastReqId,
                   vData, blob, cur, todo, sessionVars, historyVars>>

Erase(c) ==
    /\ mapRowset' = mapRowset \ {c}
    /\ mapParameterCall' = mapParameterCall \ {c}
    /\ mapHandler' = mapHandler \ {c}

(* Mutant: the entries stay when the request cannot be sent.               *)
SendExecuteKeeps(t) ==
    /\ pc[t] = "request"
    /\ LET c == cur[t]
       IN  \/ /\ conn = "up"
              /\ up' = Append(up, Msg(call[c].kind, c, 0, 0, <<>>))
              /\ waiting' = Append(waiting, c)
              /\ UNCHANGED outcome
           \/ /\ conn # "up"
              /\ outcome' = [outcome EXCEPT ![c] = "failed"]
              /\ UNCHANGED <<up, waiting>>
    /\ Return(t)
    /\ UNCHANGED <<handlerVars, conn, closes, down, bound, exceptions,
                   call, lastPrepared, got, cells, overrun, executed>>

(* The request itself; the entries are taken back when it cannot be sent.  *)
SendExecute(t) ==
    /\ pc[t] = "request"
    /\ LET c == cur[t]
       IN  \/ /\ conn = "up"
              /\ up' = Append(up, Msg(call[c].kind, c, 0, 0, <<>>))
              /\ waiting' = Append(waiting, c)
              /\ UNCHANGED <<mapRowset, mapParameterCall, mapHandler, outcome>>
           \/ /\ conn # "up"
              /\ Erase(c)
              /\ outcome' = [outcome EXCEPT ![c] = "failed"]
              /\ UNCHANGED <<up, waiting>>
    /\ Return(t)
    /\ UNCHANGED <<indexRowset, indexProc, parameters, nParamPos, lastReqId,
                   vData, blob, conn, closes, down, bound, exceptions,
                   call, lastPrepared, got, cells, overrun, executed>>
----------------------------------------------------------------------------
(* The server.  A value it sends is <<call, statement, set, k>>, where k is *)
(* 0 for a returned value, positive for an output, negative for a row.     *)
Rowset(c, i, j) ==
    << Msg("idRowsetHeader", c, 0, 0, <<>>), Msg("idBeginRows", c, 0, 0, <<>>),
       Msg("idTransferring", c, 0, 0, << <<c, i, j, -1>> >>),
       Msg("idStartBLOB", c, 0, 0, << <<c, i, j, -2>> >>),
       Msg("idChunk", c, 0, 0, <<>>), Msg("idEndBLOB", c, 0, 0, <<>>),
       Msg("idEndRows", c, 0, 0, << <<c, i, j, -3>> >>) >>

Outputs(c, i, j) ==
    LET s == call[c].stmts[i]
    IN  <<Msg("idRowsetHeader", c, s.outs, 0, <<>>)>>
        \o (IF s.ret THEN <<Msg("idCallReturn", c, 0, 0, << <<c, i, j, 0>> >>)>>
            ELSE <<>>)
        \o <<Msg("idOutputParameter", c, 0, 0,
                 [k \in 1 .. s.outs |-> <<c, i, j, k>>])>>

(* What the server sends for statement i of a call: in a batch the place   *)
(* of its parameters, then for every set its rowset and its outputs.       *)
StatementAnswers(c, i) ==
    LET s == call[c].stmts[i]
        sets == IF s.params = 0 THEN 1 ELSE Sets(c)
        One(j) == (IF s.rows THEN Rowset(c, i, j) ELSE <<>>)
                  \o (IF s.outs > 0 THEN Outputs(c, i, j) ELSE <<>>)
    IN  (IF call[c].kind = "idExecuteBatch" /\ s.params > 0
         THEN <<Msg("idParameterPosition", c, Offset(c, i), s.params, <<>>)>>
         ELSE <<>>)
        \o FlattenSeq([j \in 1 .. sets |-> One(j)])

Answers(c) ==
    (IF call[c].kind = "idExecuteBatch"
     THEN <<Msg("idSqlBatchHeader", c, Width(c), 0, <<>>)>> ELSE <<>>)
    \o FlattenSeq([i \in 1 .. Len(call[c].stmts) |-> StatementAnswers(c, i)])

(* Parameter data are kept until the call that uses them; data that begin  *)
(* again replace what is there.                                            *)
Receive ==
    /\ conn = "up" /\ up # <<>>
    /\ LET m == Head(up)
           vals == [n \in DOMAIN m.vals |-> <<m.c, m.vals[n]>>]
       IN  /\ m.id \notin Executing \union Simple
           /\ bound' = CASE m.id = "idBeginRows" -> vals
                         [] m.id \in {"idTransferring", "idEndBLOB"} -> bound \o vals
                         [] OTHER -> bound
    /\ up' = Tail(up)
    /\ UNCHANGED <<handlerVars, threadVars, conn, closes, waiting, down,
                   exceptions, historyVars>>

(* The server executes a call, or gives up after some of the answers with  *)
(* an exception.                                                           *)
Serve ==
    /\ conn = "up" /\ up # <<>> /\ Head(up).id \in Executing \union Simple
    /\ LET c == Head(up).c
           a == IF Head(up).id \in Executing THEN Answers(c) ELSE <<>>
       IN  /\ \/ /\ down' = down \o Append(a, Msg("result", c, 0, 0, <<>>))
                 /\ UNCHANGED exceptions
              \/ /\ Head(up).id \in Executing /\ exceptions < MaxExceptions
                 /\ exceptions' = exceptions + 1
                 /\ \E n \in 0 .. Len(a) :
                       /\ \/ MidCall
                          \/ \A k \in 1 .. n : a[k].id \notin
                                {"idSqlBatchHeader", "idOutputParameter"}
                       /\ down' = down \o Append(SubSeq(a, 1, n),
                                                 Msg("exception", c, 0, 0, <<>>))
           /\ executed' = [executed EXCEPT ![c] = bound]
    /\ bound' = IF Head(up).id \in Executing THEN <<>> ELSE bound
    /\ up' = Tail(up)
    /\ UNCHANGED <<handlerVars, threadVars, conn, closes, waiting, call,
                   lastPrepared, outcome, got, cells, overrun>>
----------------------------------------------------------------------------
(* The worker thread takes the next answer.                                *)
Arrives(ids) == conn = "up" /\ down # <<>> /\ Head(down).id \in ids
Taken == /\ down' = Tail(down)
         /\ UNCHANGED <<threadVars, conn, closes, up, bound, exceptions,
                        call, lastPrepared, executed>>

(* Values written from position pos (from 0) of the array of call c on.    *)
WriteOutputs(c, pos, vals) ==
    IF c \in mapParameterCall
    THEN LET at == {pos + k : k \in 1 .. Len(vals)}
         IN  /\ cells' = [cells EXCEPT ![c] =
                    [n \in DOMAIN @ |-> IF n \in at THEN vals[n - pos] ELSE @[n]]]
             /\ overrun' = IF at \subseteq DOMAIN cells[c] THEN overrun
                           ELSE overrun \union {c}
    ELSE UNCHANGED <<cells, overrun>>

(* OnResultReturned: idParameterPosition and idSqlBatchHeader.             *)
OnBatchHeader ==
    /\ Arrives({"idParameterPosition", "idSqlBatchHeader"})
    /\ LET m == Head(down)
       IN  \/ /\ m.id = "idParameterPosition"
              /\ nParamPos' = [offset |-> m.n, params |-> m.m]
              /\ indexProc' = 0
              /\ UNCHANGED <<lastReqId, parameters>>
           \/ /\ m.id = "idSqlBatchHeader"
              /\ lastReqId' = m.id /\ parameters' = m.n
              /\ UNCHANGED <<nParamPos, indexProc>>
    /\ Taken
    /\ UNCHANGED <<mapRowset, mapParameterCall, mapHandler, indexRowset, vData,
                   blob, waiting, outcome, got, cells, overrun>>

(* Mutant: the values of an unfinished rowset stay in m_vData.             *)
OnRowsetHeaderKeeps ==
    /\ Arrives({"idRowsetHeader", "idBeginRows"})
    /\ LET m == Head(down)
       IN  /\ indexRowset' = m.c
           /\ got' = IF m.id = "idRowsetHeader" /\ m.n = 0 /\ m.c \in mapRowset
                     THEN [got EXCEPT ![m.c] = Append(@, <<>>)] ELSE got
    /\ Taken
    /\ UNCHANGED <<mapRowset, mapParameterCall, mapHandler, indexProc, parameters,
                   nParamPos, lastReqId, vData, blob, waiting, outcome, cells, overrun>>

(* idRowsetHeader, also sent before outputs, and idBeginRows.              *)
OnRowsetHeader ==
    /\ Arrives({"idRowsetHeader", "idBeginRows"})
    /\ LET m == Head(down)
       IN  /\ indexRowset' = m.c
           /\ got' = IF m.id = "idRowsetHeader" /\ m.n = 0 /\ m.c \in mapRowset
                     THEN [got EXCEPT ![m.c] = Append(@, <<>>)] ELSE got
    /\ vData' = <<>> /\ blob' = <<>>
    /\ Taken
    /\ UNCHANGED <<mapRowset, mapParameterCall, mapHandler, indexProc, parameters,
                   nParamPos, lastReqId, waiting, outcome, cells, overrun>>

(* Values of rows, small ones and a large one in parts.                    *)
OnTransferring ==
    /\ Arrives({"idTransferring"})
    /\ vData' = vData \o Head(down).vals
    /\ Taken
    /\ UNCHANGED <<mapRowset, mapParameterCall, mapHandler, indexRowset, indexProc,
                   parameters, nParamPos, lastReqId, blob, waiting, outcome, got,
                   cells, overrun>>

OnBLOB ==
    /\ Arrives({"idStartBLOB", "idChunk", "idEndBLOB"})
    /\ LET m == Head(down)
       IN  /\ vData' = IF m.id = "idEndBLOB" THEN vData \o blob ELSE vData
           /\ blob' = CASE m.id = "idStartBLOB" -> m.vals
                        [] m.id = "idEndBLOB" -> <<>>
                        [] OTHER -> blob
    /\ Taken
    /\ UNCHANGED <<mapRowset, mapParameterCall, mapHandler, indexRowset, indexProc,
                   parameters, nParamPos, lastReqId, waiting, outcome, got, cells,
                   overrun>>

(* idEndRows: the row callback of the call takes the values.               *)
OnEndRows ==
    /\ Arrives({"idEndRows"})
    /\ LET rows == vData \o Head(down).vals
       IN  got' = IF rows # <<>> /\ indexRowset \in mapRowset
                  THEN [got EXCEPT ![indexRowset] = Append(@, rows)] ELSE got
    /\ vData' = <<>>
    /\ Taken
    /\ UNCHANGED <<mapRowset, mapParameterCall, mapHandler, indexRowset, indexProc,
                   parameters, nParamPos, lastReqId, blob, waiting, outcome, cells,
                   overrun>>

(* idCallReturn: the returned value goes to the start of the parameters.   *)
OnCallReturn ==
    /\ Arrives({"idCallReturn"})
    /\ WriteOutputs(indexRowset, parameters * indexProc + nParamPos.offset,
                    Head(down).vals)
    /\ Taken
    /\ UNCHANGED <<handlerVars, waiting, outcome, got>>

(* The position of n output values: the last ones of the statement.        *)
OutputAt(n) ==
    IF lastReqId = "idSqlBatchHeader"
    THEN parameters * indexProc + nParamPos.params + nParamPos.offset - n
    ELSE parameters * indexProc + parameters - n

(* idOutputParameter; after it the next parameter set is answered.         *)
OnOutputParameter ==
    /\ Arrives({"idOutputParameter"})
    /\ LET vals == vData \o Head(down).vals
       IN  IF vals # <<>>
           THEN /\ WriteOutputs(indexRowset, OutputAt(Len(vals)), vals)
                /\ indexProc' = indexProc + 1
           ELSE UNCHANGED <<cells, overrun, indexProc>>
    /\ vData' = <<>>
    /\ Taken
    /\ UNCHANGED <<mapRowset, mapParameterCall, mapHandler, indexRowset, parameters,
                   nParamPos, lastReqId, blob, waiting, outcome, got>>

(* Mutant: m_indexProc is not reset by a result.                           *)
ProcessCounting(c) ==
    /\ Erase(c)
    /\ lastReqId' = call[c].kind
    /\ UNCHANGED <<parameters, indexProc>>

(* Process, for a call that executes statements.                           *)
Process(c) ==
    /\ Erase(c)
    /\ lastReqId' = call[c].kind /\ indexProc' = 0
    /\ UNCHANGED parameters

(* The result handlers of Prepare, Open and the others.                    *)
ProcessSimple(c) ==
    /\ lastReqId' = call[c].kind
    /\ parameters' = CASE call[c].kind = "idPrepare" -> Sum(call[c].stmts)
                       [] call[c].kind = "idOpen" -> 0
                       [] OTHER -> parameters
    /\ UNCHANGED <<mapRowset, mapParameterCall, mapHandler, indexProc>>

(* A result; and a server exception, after which the entries stay.         *)
OnResult ==
    /\ Arrives({"result", "exception"})
    /\ LET c == Head(down).c
       IN  \/ /\ Head(down).id = "result"
              /\ IF call[c].kind \in Executing THEN Process(c) ELSE ProcessSimple(c)
              /\ outcome' = [outcome EXCEPT ![c] = "result"]
           \/ /\ Head(down).id = "exception"
              /\ outcome' = [outcome EXCEPT ![c] = "exception"]
              /\ UNCHANGED <<mapRowset, mapParameterCall, mapHandler, indexProc,
                             parameters, lastReqId>>
    /\ waiting' = Tail(waiting)
    /\ Taken
    /\ UNCHANGED <<indexRowset, nParamPos, vData, blob, got, cells, overrun>>

(* OnAllProcessed: nothing waits for an answer.                            *)
OnAllProcessed ==
    /\ conn = "up" /\ waiting = <<>> /\ down = <<>>
    /\ vData # <<>> \/ blob # <<>>
    /\ vData' = <<>> /\ blob' = <<>>
    /\ UNCHANGED <<mapRowset, mapParameterCall, mapHandler, indexRowset, indexProc,
                   parameters, nParamPos, lastReqId, threadVars, sessionVars,
                   historyVars>>
----------------------------------------------------------------------------
(* The session is closed; what was under way is lost.                      *)
Break ==
    /\ conn = "up" /\ closes < MaxCloses
    /\ MidCall \/ indexProc = 0
    /\ conn' = "closing" /\ closes' = closes + 1
    /\ up' = <<>> /\ down' = <<>> /\ bound' = <<>>
    /\ lastPrepared' = {}
    /\ UNCHANGED <<handlerVars, threadVars, waiting, exceptions, call, outcome,
                   got, cells, overrun, executed>>

(* CleanCallbacks: the entries under m_csDB, then the callbacks.           *)
CleanMaps ==
    /\ conn = "closing"
    /\ Clean
    /\ conn' = "cleaned"
    /\ UNCHANGED <<threadVars, closes, waiting, up, down, bound, exceptions,
                   historyVars>>

CleanCallbacks ==
    /\ conn = "cleaned"
    /\ outcome' = [c \in DOMAIN outcome |->
                     IF c \in Range(waiting) THEN "discarded" ELSE outcome[c]]
    /\ waiting' = <<>>
    /\ conn' = "down"
    /\ UNCHANGED <<handlerVars, threadVars, closes, up, down, bound, exceptions,
                   call, lastPrepared, got, cells, overrun, executed>>

Reconnect ==
    /\ conn = "down"
    /\ PatientReconnect => NoneSending
    /\ conn' = "up"
    /\ UNCHANGED <<handlerVars, threadVars, closes, waiting, up, down, bound,
                   exceptions, historyVars>>

Next ==
    \/ \E s \in Prepared : SendSimple("idPrepare", <<s>>)
    \/ SendSimple("idOpen", <<>>)
    \/ SendSimple("idBeginTrans", <<>>)
    \/ \E t \in Thread :
          Execute(t) \/ SendData(t) \/ Register(t) \/ SendExecute(t)
    \/ Receive \/ Serve
    \/ OnBatchHeader \/ OnRowsetHeader \/ OnTransferring \/ OnBLOB \/ OnEndRows
    \/ OnCallReturn \/ OnOutputParameter \/ OnResult \/ OnAllProcessed
    \/ Break \/ CleanMaps \/ CleanCallbacks \/ Reconnect

Spec == Init /\ [][Next]_vars
----------------------------------------------------------------------------
Value == Nat \X Nat \X Nat \X Int

TypeOK ==
    /\ {mapRowset, mapParameterCall, mapHandler, overrun}
            \subseteq SUBSET (DOMAIN call)
    /\ indexRowset \in 0 .. Len(call)
    /\ {indexProc, parameters, nParamPos.offset, nParamPos.params} \subseteq Nat
    /\ lastReqId \in Executing \union Simple \union {"none", "idSqlBatchHeader"}
    /\ vData \in Seq(Value) /\ blob \in Seq(Value)
    /\ pc \in [Thread -> {"idle", "data", "request"}]
    /\ cur \in [Thread -> 0 .. Len(call)]
    /\ conn \in {"up", "closing", "cleaned", "down"}
    /\ Range(waiting) \subseteq DOMAIN call
    /\ Len(outcome) = Len(call) /\ Len(got) = Len(call)
    /\ Len(cells) = Len(call) /\ Len(executed) = Len(call)

Finished == {c \in DOMAIN call : outcome[c] = "result"}

(* A statement is executed with all the values of its own parameter array, *)
(* in their order, and with no others: the parameter data that             *)
(* SendParametersData sends ahead of it, in batches and chunks, are not    *)
(* mixed with those of another thread and not left from an earlier call.   *)
BindsOwnParameters ==
    \A c \in Finished : call[c].kind \in Executing =>
        executed[c] = [n \in 1 .. Len(call[c].vParam) |-> <<c, n>>]

(* When a call has its result, its callbacks have received all its         *)
(* rowsets, in order and complete, each header before its rows, and        *)
(* nothing of another call (OnResultReturned, m_mapRowset).                *)
RowsComplete ==
    \A c \in Finished :
        LET s == call[c].stmts
            sets(i) == IF s[i].params = 0 THEN 1 ELSE Sets(c)
            rows(i) == FlattenSeq([j \in 1 .. sets(i) |->
                          << <<>>, << <<c, i, j, -1>>, <<c, i, j, -2>>,
                                      <<c, i, j, -3>> >> >>])
        IN  call[c].kind \in Executing =>
                got[c] = FlattenSeq([i \in 1 .. Len(s) |->
                            IF s[i].rows THEN rows(i) ELSE <<>>])

(* When a call has its result, each output parameter and returned value is *)
(* in the parameter array of the caller at the place that belongs to it,   *)
(* inputs are untouched, and nothing was written outside of an array       *)
(* (idCallReturn and idOutputParameter in OnResultReturned).               *)
OutputsInPlace ==
    /\ overrun = {}
    /\ \A c \in Finished : \A n \in DOMAIN cells[c] :
        LET s == call[c].stmts
            o == (n - 1) % Width(c)
            i == CHOOSE i \in DOMAIN s : Offset(c, i) <= o
                                         /\ o < Offset(c, i) + s[i].params
            r == o - Offset(c, i)
            k == r - (s[i].params - s[i].outs) + 1
        IN  cells[c][n] = CASE s[i].ret /\ r = 0 -> <<c, i, (n - 1) \div Width(c) + 1, 0>>
                            [] k >= 1 -> <<c, i, (n - 1) \div Width(c) + 1, k>>
                            [] OTHER -> 0

(* The handler keeps a pointer to the parameter array of a call only while *)
(* the caller has to keep the array: until the call has its result, is     *)
(* discarded, or was refused.  (After a server exception it stays; the     *)
(* server sends nothing more for such a call.)                             *)
NoStalePointer ==
    \A c \in mapParameterCall : outcome[c] \in {"none", "exception"}
=============================================================================
