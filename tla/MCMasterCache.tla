--------------------------- MODULE MCMasterCache ----------------------------
EXTENDS MasterCache

TwoTables == <<"a", "b">>

(* Rows with key 1 are sent with a BLOB.                                   *)
BigRow == {<<1, 7>>}

(* One table with a row and one without.                                   *)
OneDatabase == { [t \in {"a", "b"} |-> IF t = "a" THEN {<<1, 7>>} ELSE {}] }
=============================================================================
