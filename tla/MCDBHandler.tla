---------------------------- MODULE MCDBHandler -----------------------------
EXTENDS DBHandler, TLC

S(params, ret, outs, rows) ==
    [params |-> params, ret |-> ret, outs |-> outs, rows |-> rows]

(* A procedure with an input, an output and a rowset.                      *)
OneProcedure == {S(2, FALSE, 1, TRUE)}

(* A procedure that returns a value and has an output, a query, and a      *)
(* procedure with one output.                                              *)
OneBatch == { <<S(2, TRUE, 1, FALSE), S(0, FALSE, 0, TRUE), S(1, FALSE, 1, FALSE)>> }

(* Two sets of the procedure with large values, one set of small values,   *)
(* two sets of the batch.                                                  *)
SomeArrays == { <<0, 0>>, <<2, 0, 0, 1>>, <<0, 0, 0, 0, 0, 0>> }

Symmetry == Permutations(Thread)
=============================================================================
