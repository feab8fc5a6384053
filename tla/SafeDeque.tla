----------------------------- MODULE SafeDeque -----------------------------
(***************************************************************************)
(* CSafeDeque (include/safequeue.h): the deque under the pool of callback  *)
(* pairs (CRR) and the pool of memory buffers (CQPool).  The elements are  *)
(* m_count cells of a buffer of m_capacity cells, from m_header on.  A     *)
(* push that does not fit at its end slides the elements to the other end  *)
(* of the buffer, or takes a larger buffer.                                *)
(*                                                                         *)
(* Every operation runs under the spin lock m_sl: one step each.           *)
(***************************************************************************)
EXTENDS Integers, Sequences

CONSTANTS
    Elem,             \* the elements
    Junk,             \* what is in a cell that malloc has returned
    InitialCapacity,  \* initailCapacity of the constructor
    MaxBulk,          \* bound: elements of one push
    MaxCount          \* bound: elements in the deque

ASSUME ConstantsAssumption ==
    /\ Junk \notin Elem
    /\ InitialCapacity \in Nat \ {0}
    /\ MaxBulk \in Nat /\ MaxCount \in Nat

VARIABLES
    p,         \* m_p: the cells 0 .. capacity - 1
    header,    \* m_header
    count,     \* m_count
    capacity,  \* m_capacity
    out        \* what the last operation returned

vars == <<p, header, count, capacity, out>>

(* malloc; memcpy of cells h .. h + n - 1 of a buffer; memcpy or memmove   *)
(* of elements to the cells from h on.                                     *)
Malloc(n) == [i \in 0 .. n - 1 |-> Junk]

Cells(b, h, n) == [i \in 1 .. n |-> b[h + i - 1]]

Copy(b, h, s) ==
    [i \in DOMAIN b |-> IF h <= i /\ i < h + Len(s) THEN s[i - h + 1] ELSE b[i]]

Contents == Cells(p, header, count)

Init ==
    /\ capacity = InitialCapacity
    /\ p = Malloc(capacity)
    /\ header = 0 /\ count = 0
    /\ out = <<>>
----------------------------------------------------------------------------
Pushed(s) ==
    /\ count + Len(s) <= MaxCount
    /\ count' = count + Len(s)
    /\ out' = <<>>

(* pushback: behind the elements, ...                                      *)
Tail_ == capacity - (header + count)

(* Mutant: one cell too many behind the elements.                          *)
PushBackInPlaceOver(s) ==
    /\ Tail_ + 1 >= Len(s)
    /\ p' = Copy(p, header + count, s)
    /\ Pushed(s)
    /\ UNCHANGED <<header, capacity>>

PushBackInPlace(s) ==
    /\ Tail_ >= Len(s)
    /\ p' = Copy(p, header + count, s)
    /\ Pushed(s)
    /\ UNCHANGED <<header, capacity>>

(* ... after the elements have moved to the start of the buffer, ...       *)
(* Mutant: elements never move to the start.                               *)
FitsBySlidingNever(n) == FALSE

FitsBySliding(n) == Tail_ + header > count + n

PushBackSliding(s) ==
    /\ Tail_ < Len(s) /\ FitsBySliding(Len(s))
    /\ p' = Copy(Copy(p, 0, Contents), count, s)
    /\ header' = 0
    /\ Pushed(s)
    /\ UNCHANGED capacity

(* ... or in a new buffer.                                                 *)
PushBackGrowing(s) ==
    /\ Tail_ < Len(s) /\ ~FitsBySliding(Len(s))
    /\ capacity' = Len(s) + capacity * 2
    /\ p' = Copy(Copy(Malloc(capacity'), 0, Contents), count, s)
    /\ header' = 0
    /\ Pushed(s)

(* pushfront: before the elements, ...                                     *)
PushFrontInPlace(s) ==
    /\ header >= Len(s)
    /\ header' = header - Len(s)
    /\ p' = Copy(p, header', s)
    /\ Pushed(s)
    /\ UNCHANGED capacity

(* ... after the elements have moved to the end of the buffer, ...         *)
Space == capacity - count

FitsAtEnd(n) == Space > n /\ count < capacity \div 2

PushFrontSliding(s) ==
    /\ header < Len(s) /\ FitsAtEnd(Len(s))
    /\ header' = Space - Len(s)
    /\ p' = Copy(Copy(p, Space, Contents), header', s)
    /\ Pushed(s)
    /\ UNCHANGED capacity

(* Mutant: the old elements are copied where the new ones go.              *)
PushFrontGrowingOver(s) ==
    /\ header < Len(s) /\ ~FitsAtEnd(Len(s))
    /\ capacity' = Len(s) + capacity * 2
    /\ header' = capacity' - count - Len(s)
    /\ p' = Copy(Copy(Malloc(capacity'), header', Contents), header', s)
    /\ Pushed(s)

(* ... or at the end of a new buffer.                                      *)
PushFrontGrowing(s) ==
    /\ header < Len(s) /\ ~FitsAtEnd(Len(s))
    /\ capacity' = Len(s) + capacity * 2
    /\ header' = capacity' - count - Len(s)
    /\ p' = Copy(Copy(Malloc(capacity'), header' + Len(s), Contents), header', s)
    /\ Pushed(s)
----------------------------------------------------------------------------
(* popfront and popback give at most m_count elements.                     *)
Least(n) == IF n > count THEN count ELSE n

popfront(k) ==
    LET n == Least(k) IN
    /\ count > 0
    /\ out' = Cells(p, header, n)
    /\ count' = count - n
    /\ header' = IF count' = 0 THEN 0 ELSE header + n
    /\ UNCHANGED <<p, capacity>>

(* Mutant: the elements are read at the wrong end.                         *)
popbackFront(k) ==
    LET n == Least(k) IN
    /\ count > 0
    /\ count' = count - n
    /\ out' = Cells(p, header, n)
    /\ header' = IF count' = 0 THEN 0 ELSE header
    /\ UNCHANGED <<p, capacity>>

popback(k) ==
    LET n == Least(k) IN
    /\ count > 0
    /\ count' = count - n
    /\ out' = Cells(p, header + count', n)
    /\ header' = IF count' = 0 THEN 0 ELSE header
    /\ UNCHANGED <<p, capacity>>

(* A pop of an empty deque returns 0.                                      *)
PopNothing ==
    /\ count = 0
    /\ out' = <<>>
    /\ UNCHANGED <<p, header, count, capacity>>

(* CRR::ClearResultCallbackPool deletes what is behind the first elements. *)
ClearResultCallbackPool(remaining) ==
    /\ count' = Least(remaining)
    /\ header' = IF count' = 0 THEN 0 ELSE header
    /\ out' = <<>>
    /\ UNCHANGED <<p, capacity>>

(* clear, and CQPool::DestroyUQueuePool.                                   *)
clear ==
    /\ count' = 0 /\ header' = 0
    /\ out' = <<>>
    /\ UNCHANGED <<p, capacity>>

shrink_to_fit ==
    /\ p' = Copy(Malloc(count), 0, Contents)
    /\ header' = 0
    /\ capacity' = count
    /\ UNCHANGED <<count, out>>

Bulk == UNION {[1 .. n -> Elem] : n \in 1 .. MaxBulk}

Push(s) ==
    \/ PushBackInPlace(s) \/ PushBackSliding(s) \/ PushBackGrowing(s)
    \/ PushFrontInPlace(s) \/ PushFrontSliding(s) \/ PushFrontGrowing(s)

Next ==
    \/ \E s \in Bulk : Push(s)
    \/ \E n \in 1 .. MaxCount + 1 : popfront(n) \/ popback(n)
    \/ \E n \in 0 .. MaxCount + 1 : ClearResultCallbackPool(n)
    \/ PopNothing \/ clear \/ shrink_to_fit

Spec == Init /\ [][Next]_vars
----------------------------------------------------------------------------
(* The fields of a deque, and what it returned last, have their types.     *)
TypeOK ==
    /\ capacity \in Nat /\ header \in Nat /\ count \in 0 .. MaxCount
    /\ p \in [0 .. capacity - 1 -> Elem \union {Junk}]
    /\ out \in Seq(Elem \union {Junk})

(* The elements lie inside the buffer: no operation reads or writes        *)
(* outside, and the unsigned differences m_capacity - (m_header + m_count) *)
(* and m_capacity - m_count never wrap around.                             *)
InBounds == header + count <= capacity

(* No cell that was never written counts as an element.                    *)
NoJunk == Contents \in Seq(Elem)

(* The buffer only grows while more than a fourth of it is needed, however *)
(* the two ends are used.                                                  *)
CapacityBounded == capacity <= InitialCapacity \/ capacity <= 4 * MaxCount

(* The deque is a deque: every operation changes the elements as the       *)
(* abstract one does and returns what that returns, wherever in the buffer *)
(* the elements are.                                                       *)
Abstract == INSTANCE Deque WITH deque <- Contents
AbstractSpec == Abstract!Spec
=============================================================================
