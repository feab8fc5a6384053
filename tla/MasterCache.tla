----------------------------- MODULE MasterCache ----------------------------
(***************************************************************************)
(* The real-time cache of a master pool: CSQLMasterPool in                 *)
(* include/rdbcache.h and CMasterPool in include/masterpool.h, with the    *)
(* operations of CDataSet (include/tablecache.cpp) on the cached tables,   *)
(* the handler CCachedBaseHandler (include/generalcache.h) that puts rows  *)
(* together, and the server's CCacheBasePeer (include/gencachepeer.h) that *)
(* sends them.                                                             *)
(* The first session of the pool subscribes to table events and asks for   *)
(* all cached tables; they are collected in m_cache and exchanged with     *)
(* Cache when they are complete.  Events are applied to Cache.  The thread *)
(* of the session runs all of it.                                          *)
(*                                                                         *)
(* A row has a key column and a value, and goes over the wire as cells;    *)
(* conversions are left out.  The database and the server core are         *)
(* external: a session sees results and published events in the order in   *)
(* which the server sends them.  With CSQLMasterPool the database handler  *)
(* of DBHandler puts rows together, in the same way.                       *)
(***************************************************************************)
EXTENDS Integers, Sequences, SequencesExt, FiniteSets

CONSTANTS
    Tables,        \* the names of the cached tables, a sequence
    Key, Value,
    Big,           \* the rows whose value is sent as a BLOB
    Databases,     \* what the database may hold at first
    Kinds,         \* which pools: TRUE for CSQLMasterPool
    MaxChanges,    \* bound: changes of the database
    MaxBreaks,     \* bound: how often the session is closed
    MaxReinits,    \* bound: how often the server asks to initialise again
    MaxFailures,   \* bound: initialisations that fail
    QuietSnapshot, \* usage: no change from the first table read to the result
    FreshReinit    \* usage: CMasterPool is asked to initialise again only
                   \* while its m_cache is empty and nothing is under way

Row   == Key \X Value
Table == Range(Tables)

ASSUME ConstantsAssumption ==
    /\ Tables \in Seq(Table) /\ Tables # <<>>
    /\ \A i, j \in DOMAIN Tables : Tables[i] = Tables[j] => i = j
    /\ {MaxChanges, MaxBreaks, MaxReinits, MaxFailures} \subseteq Nat
    /\ {QuietSnapshot, FreshReinit} \subseteq BOOLEAN
    /\ Kinds \subseteq BOOLEAN
    /\ Big \subseteq Row
    /\ Databases \subseteq [Table -> SUBSET Row]
    /\ \A d \in Databases : \A t \in Table :
          /\ IsFiniteSet(d[t])
          /\ \A q, r \in d[t] : q[1] = r[1] => q = r

VARIABLES
    sql,           \* the pool is a CSQLMasterPool
    cache, mCache, \* Cache and m_cache: sequences of named tables
    meta,          \* the table of the last header (m_meta, GetColumnInfo)
    vData, blob,   \* m_vData and m_Blob of the handler: cells
    \* the session and the server (external)
    conn, up, down,
    sub,           \* the session gets events
    reading,       \* the next table of a snapshot, 0: no snapshot
    db,            \* the rows of every table
    changes, breaks, reinits, failures,
    failed         \* history: the last initialisation failed

clientVars == <<cache, mCache, meta, vData, blob>>
boundVars  == <<changes, breaks, reinits, failures>>
vars == <<sql, clientVars, conn, up, down, sub, reading, db, boundVars, failed>>
----------------------------------------------------------------------------
(* CDataSet.  The table that an operation means is the first of that name, *)
(* 0 for none.                                                             *)
TableOf(ds, name) == SelectInSeq(ds, LAMBDA t : t.name = name)

AddEmptyRowset(ds, name) == Append(ds, [name |-> name, rows |-> <<>>])

(* Cells make rows only if their number fits the columns.                  *)
AddRows(ds, name, cells) ==
    LET i == TableOf(ds, name)
    IN  IF i = 0 \/ Len(cells) % 2 # 0 THEN ds
        ELSE [ds EXCEPT ![i].rows = @ \o
                [n \in 1 .. Len(cells) \div 2 |-> <<cells[2 * n - 1], cells[2 * n]>>]]

(* FindARowInternal: the first row of the table with the key, 0 for none.  *)
FindARow(ds, name, key) ==
    LET i == TableOf(ds, name)
    IN  IF i = 0 THEN 0 ELSE SelectInSeq(ds[i].rows, LAMBDA row : row[1] = key)

(* Mutant: the row is looked for by its new key.                           *)
UpdateARowByNew(ds, name, pvt) ==
    LET r == FindARow(ds, name, pvt[2])
    IN  IF r = 0 THEN ds
        ELSE [ds EXCEPT ![TableOf(ds, name)].rows[r] = <<pvt[2], pvt[4]>>]

(* The cells of an update are the old and the new one of each column.      *)
UpdateARow(ds, name, pvt) ==
    LET r == FindARow(ds, name, pvt[1])
    IN  IF r = 0 THEN ds
        ELSE [ds EXCEPT ![TableOf(ds, name)].rows[r] = <<pvt[2], pvt[4]>>]

DeleteARow(ds, name, key) ==
    LET r == FindARow(ds, name, key)
    IN  IF r = 0 THEN ds
        ELSE [ds EXCEPT ![TableOf(ds, name)].rows = RemoveAt(@, r)]
----------------------------------------------------------------------------
Msg(id, name, cells) == [id |-> id, name |-> name, cells |-> cells]

(* SetInitialCache: the requests it sends, Open and Execute, or one        *)
(* GetCachedTables.                                                        *)
SetInitialCache == IF sql THEN <<"open", "tables">> ELSE <<"tables">>

Init ==
    /\ sql \in Kinds
    /\ cache = <<>> /\ mCache = <<>> /\ meta = Tables[1]
    /\ vData = <<>> /\ blob = <<>>
    /\ conn = "down" /\ up = <<>> /\ down = <<>> /\ sub = FALSE /\ reading = 0
    /\ db \in Databases
    /\ changes = 0 /\ breaks = 0 /\ reinits = 0 /\ failures = 0
    /\ failed = FALSE

(* Mutant: a session that comes back asks for nothing.                     *)
OnConnectedAgain ==
    /\ conn = "down"
    /\ conn' = "up"
    /\ mCache' = IF sql THEN mCache ELSE <<>>
    /\ up' = IF breaks = 0 THEN SetInitialCache ELSE <<>>
    /\ failed' = FALSE
    /\ UNCHANGED <<sql, cache, meta, vData, blob, down, sub, reading, db, boundVars>>

(* OnSocketPoolEvent, speConnected of the first session.                   *)
OnConnected ==
    /\ conn = "down"
    /\ conn' = "up"
    /\ mCache' = IF sql THEN mCache ELSE <<>>
    /\ up' = SetInitialCache
    /\ failed' = FALSE
    /\ UNCHANGED <<sql, cache, meta, vData, blob, down, sub, reading, db, boundVars>>

(* The session is closed: its callbacks and events are lost.               *)
Break ==
    /\ conn = "up" /\ breaks < MaxBreaks
    /\ breaks' = breaks + 1
    /\ conn' = "down" /\ up' = <<>> /\ down' = <<>>
    /\ sub' = FALSE /\ reading' = 0
    /\ UNCHANGED <<sql, clientVars, db, changes, reinits, failures, failed>>
----------------------------------------------------------------------------
(* The server.  Open subscribes; so does GetCachedTables.  When Open       *)
(* fails, the Execute behind it has no database and fails too.             *)
ServeOpen ==
    /\ reading = 0 /\ up # <<>> /\ Head(up) = "open"
    /\ \/ /\ sub' = TRUE
          /\ down' = Append(down, Msg("opened", Tables[1], <<>>))
          /\ up' = Tail(up)
          /\ UNCHANGED failures
       \/ /\ failures < MaxFailures
          /\ failures' = failures + 1
          /\ down' = down \o <<Msg("not opened", Tables[1], <<>>),
                              Msg("failure", Tables[1], <<>>)>>
          /\ up' = Tail(Tail(up))
          /\ UNCHANGED sub
    /\ UNCHANGED <<sql, clientVars, conn, reading, db, changes, breaks, reinits,
                   failed>>

ServeTables ==
    /\ reading = 0 /\ up # <<>> /\ Head(up) = "tables"
    /\ sub' = TRUE
    /\ reading' = 1
    /\ UNCHANGED <<sql, clientVars, conn, up, down, db, boundVars, failed>>

(* CCacheBasePeer::SendRows: the cells before a large one go out first.    *)
SendRow(t, s, r) ==
    IF r \in Big
    THEN [out |-> s.out \o <<Msg("idTransferring", t, Append(s.sb, r[1])),
                            Msg("idStartBLOB", t, <<r[2]>>),
                            Msg("idEndBLOB", t, <<>>)>>,
          sb |-> <<>>]
    ELSE [s EXCEPT !.sb = @ \o r]

SendRows(t, rows) ==
    LET s[n \in 0 .. Len(rows)] ==
            IF n = 0 THEN [out |-> <<>>, sb |-> <<>>]
            ELSE SendRow(t, s[n - 1], rows[n])
        last == s[Len(rows)]
    IN  Append(last.out, Msg("idEndRows", t, last.sb))

(* One table: its header (SendMeta), and its rows if it has any.           *)
ReadTable ==
    /\ reading \in DOMAIN Tables
    /\ LET t == Tables[reading]
       IN  down' = down \o <<Msg("idRowsetHeader", t, <<>>)>>
                   \o (IF db[t] = {} THEN <<>> ELSE SendRows(t, SetToSeq(db[t])))
    /\ reading' = reading + 1
    /\ UNCHANGED <<sql, clientVars, conn, up, sub, db, boundVars, failed>>

(* The result, after all the tables, or earlier with an error.             *)
ReadEnd ==
    /\ reading > 0
    /\ \/ /\ reading > Len(Tables)
          /\ down' = Append(down, Msg("result", Tables[1], <<>>))
          /\ UNCHANGED failures
       \/ /\ failures < MaxFailures
          /\ failures' = failures + 1
          /\ down' = Append(down, Msg("failure", Tables[1], <<>>))
    /\ up' = Tail(up)
    /\ reading' = 0
    /\ UNCHANGED <<sql, clientVars, conn, sub, db, changes, breaks, reinits, failed>>

(* Somebody inserts, updates or deletes a row; subscribers are told.       *)
Change ==
    /\ changes < MaxChanges
    /\ changes' = changes + 1
    /\ QuietSnapshot => reading <= 1
    /\ \E t \in Table, r \in Row :
        \/ /\ \A q \in db[t] : q[1] # r[1]
           /\ db' = [db EXCEPT ![t] = @ \union {r}]
           /\ down' = IF sub THEN Append(down, Msg("insert", t, r)) ELSE down
        \/ \E q \in db[t] :
              /\ q # r
              /\ \A s \in db[t] \ {q} : s[1] # r[1]
              /\ db' = [db EXCEPT ![t] = (@ \ {q}) \union {r}]
              /\ down' = IF sub THEN Append(down, Msg("update", t, <<q[1], r[1], q[2], r[2]>>)) ELSE down
        \/ /\ r \in db[t]
           /\ db' = [db EXCEPT ![t] = @ \ {r}]
           /\ down' = IF sub THEN Append(down, Msg("delete", t, <<r[1]>>)) ELSE down
    /\ UNCHANGED <<sql, clientVars, conn, up, sub, reading, breaks, reinits,
                   failures, failed>>

(* A table got other rows without events, and the server asks subscribers  *)
(* to initialise again (CACHE_UPDATE_CHAT_GROUP_ID).                       *)
Republish ==
    /\ sub /\ reinits < MaxReinits
    /\ FreshReinit => sql \/ (mCache = <<>> /\ up = <<>> /\ down = <<>>)
    /\ reinits' = reinits + 1
    /\ \E r \in Row : db' = [db EXCEPT ![Tables[1]] = {r}]
    /\ down' = Append(down, Msg("initialise", Tables[1], <<>>))
    /\ UNCHANGED <<sql, clientVars, conn, up, sub, reading, changes, breaks,
                   failures, failed>>
----------------------------------------------------------------------------
(* The thread of the session takes the next message.                       *)
Arrives(ids) == conn = "up" /\ down # <<>> /\ Head(down).id \in ids
Taken == /\ down' = Tail(down)
         /\ UNCHANGED <<sql, conn, sub, reading, db, boundVars>>

(* The result of Open.                                                     *)
OnOpened ==
    /\ Arrives({"opened", "not opened"})
    /\ mCache' = IF Head(down).id = "opened" THEN <<>> ELSE mCache
    /\ Taken
    /\ UNCHANGED <<cache, meta, vData, blob, up, failed>>

(* Mutant: tables are added to the cache that readers see.                 *)
OnTableVisible ==
    /\ Arrives({"idRowsetHeader"})
    /\ cache' = AddEmptyRowset(cache, Head(down).name)
    /\ meta' = Head(down).name
    /\ vData' = <<>> /\ blob' = <<>>
    /\ Taken
    /\ UNCHANGED <<mCache, up, failed>>

(* A rowset header: the handler forgets cells of a table broken off, and   *)
(* the header callback adds the table.                                     *)
OnTable ==
    /\ Arrives({"idRowsetHeader"})
    /\ mCache' = AddEmptyRowset(mCache, Head(down).name)
    /\ meta' = Head(down).name
    /\ vData' = <<>> /\ blob' = <<>>
    /\ Taken
    /\ UNCHANGED <<cache, up, failed>>

(* Cells of rows, small ones and a large one.                              *)
OnTransferring ==
    /\ Arrives({"idTransferring"})
    /\ vData' = vData \o Head(down).cells
    /\ Taken
    /\ UNCHANGED <<cache, mCache, meta, blob, up, failed>>

OnBLOB ==
    /\ Arrives({"idStartBLOB", "idEndBLOB"})
    /\ IF Head(down).id = "idStartBLOB"
       THEN blob' = Head(down).cells /\ UNCHANGED vData
       ELSE blob' = <<>> /\ vData' = vData \o blob
    /\ Taken
    /\ UNCHANGED <<cache, mCache, meta, up, failed>>

(* idEndRows: the row callback adds the rows to the table.                 *)
OnRows ==
    /\ Arrives({"idEndRows"})
    /\ mCache' = AddRows(mCache, meta, vData \o Head(down).cells)
    /\ vData' = <<>>
    /\ Taken
    /\ UNCHANGED <<cache, meta, blob, up, failed>>

(* The result of Execute or GetCachedTables: Swap, unless it is an error.  *)
OnResult ==
    /\ Arrives({"result", "failure"})
    /\ IF Head(down).id = "result"
       THEN cache' = mCache /\ mCache' = cache /\ failed' = FALSE
       ELSE failed' = TRUE /\ UNCHANGED <<cache, mCache>>
    /\ Taken
    /\ UNCHANGED <<meta, vData, blob, up>>

(* OnPublish.                                                              *)
OnPublish ==
    /\ Arrives({"insert", "update", "delete", "initialise"})
    /\ LET m == Head(down)
       IN  /\ cache' = CASE m.id = "insert" -> AddRows(cache, m.name, m.cells)
                         [] m.id = "update" -> UpdateARow(cache, m.name, m.cells)
                         [] m.id = "delete" -> DeleteARow(cache, m.name, m.cells[1])
                         [] OTHER -> cache
           /\ up' = IF m.id = "initialise" THEN up \o SetInitialCache ELSE up
           /\ failed' = IF m.id = "initialise" THEN FALSE ELSE failed
    /\ Taken
    /\ UNCHANGED <<mCache, meta, vData, blob>>

ServerNext == ServeOpen \/ ServeTables \/ ReadTable \/ ReadEnd
ClientNext == \/ OnOpened \/ OnTable \/ OnTransferring \/ OnBLOB \/ OnRows
              \/ OnResult \/ OnPublish

Next == OnConnected \/ Break \/ ServerNext \/ Change \/ Republish \/ ClientNext

Spec == Init /\ [][Next]_vars

(* The core reconnects, the server works off its requests, and the thread  *)
(* of the session takes what arrives.                                      *)
Fairness == WF_vars(OnConnected) /\ WF_vars(ServerNext) /\ WF_vars(ClientNext)
FairSpec == Spec /\ Fairness
----------------------------------------------------------------------------
DataSet == Seq([name: Table, rows: Seq(Row)])

TypeOK ==
    /\ cache \in DataSet /\ mCache \in DataSet /\ meta \in Table
    /\ {vData, blob} \subseteq Seq(Key \union Value)
    /\ conn \in {"up", "down"} /\ sub \in BOOLEAN
    /\ reading \in 0 .. Len(Tables) + 1
    /\ db \in [Table -> SUBSET Row]

(* The cache holds each table once, with exactly the rows of the database, *)
(* no row twice.                                                           *)
Current ==
    /\ [i \in DOMAIN cache |-> cache[i].name] = Tables
    /\ \A i \in DOMAIN cache : /\ Range(cache[i].rows) = db[cache[i].name]
                               /\ IsInjective(cache[i].rows)

(* When nothing is under way and the last initialisation did not fail, the *)
(* cache is what the database is: neither an event nor a table was lost,   *)
(* applied to the wrong copy or applied twice, whatever breaks,            *)
(* initialisations and changes there were (SetInitialCache, OnPublish).    *)
CacheCurrent ==
    conn = "up" /\ sub /\ up = <<>> /\ down = <<>> /\ reading = 0 /\ ~failed
        => Current

(* What readers of Cache see has all the tables or, before the first       *)
(* initialisation, none: never a part of a snapshot, not after a failed    *)
(* or an interrupted one either (m_cache and Swap).                        *)
WholeCache == [i \in DOMAIN cache |-> cache[i].name] \in {<<>>, Tables}

(* In the end the cache is what the database is, and stays so, unless the  *)
(* last initialisation failed: a session that comes back fetches what it   *)
(* missed (OnSocketPoolEvent).                                             *)
CatchesUp == <>[](failed \/ Current)
=============================================================================
