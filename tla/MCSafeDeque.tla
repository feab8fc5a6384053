---------------------------- MODULE MCSafeDeque ----------------------------
EXTENDS SafeDeque

(* What is in the cells outside the elements tells no two states apart: no *)
(* operation reads them before it writes them.                             *)
Live ==
    LET cells == {i \in DOMAIN p : header <= i /\ i < header + count}
    IN  <<[i \in cells |-> p[i]], header, count, capacity, DOMAIN p, out>>
=============================================================================
