------------------------------- MODULE Deque -------------------------------
(***************************************************************************)
(* What CSafeDeque (include/safequeue.h) promises: a double-ended queue    *)
(* that takes and gives elements in bulk, at both ends.                    *)
(***************************************************************************)
EXTENDS Integers, Sequences

CONSTANT Bulk   \* the sequences of elements one push may bring

VARIABLES
    deque,   \* the elements, in order
    out      \* what the last operation returned

Init == deque = <<>> /\ out = <<>>

PushBack(s)  == deque' = deque \o s /\ out' = <<>>
PushFront(s) == deque' = s \o deque /\ out' = <<>>

(* At most n elements, in the order in which they are in the deque.        *)
PopFront(n) ==
    /\ out' = SubSeq(deque, 1, n)
    /\ deque' = SubSeq(deque, n + 1, Len(deque))

PopBack(n) ==
    /\ out' = SubSeq(deque, Len(deque) - n + 1, Len(deque))
    /\ deque' = SubSeq(deque, 1, Len(deque) - n)

(* Only the first n elements stay.                                         *)
Truncate(n) ==
    /\ deque' = SubSeq(deque, 1, n)
    /\ out' = <<>>

Next ==
    \/ \E s \in Bulk : PushBack(s) \/ PushFront(s)
    \/ \E n \in 0 .. Len(deque) : PopFront(n) \/ PopBack(n) \/ Truncate(n)

Spec == Init /\ [][Next]_<<deque, out>>
=============================================================================
