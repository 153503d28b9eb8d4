---------------------------- MODULE RecencyList ----------------------------
(***************************************************************************)
(* Operations on a sequence kept in order of use, the most recently used   *)
(* element first: container/list as package lru uses it.                   *)
(***************************************************************************)
EXTENDS Naturals, Sequences

(* list.Remove: the sequence without the element at position i. *)
DropAt(s, i) == SubSeq(s, 1, i - 1) \o SubSeq(s, i + 1, Len(s))

(* list.PushFront, and list.MoveToFront of the element at position i. *)
PushFront(s, x) == <<x>> \o s
ToFront(s, i) == PushFront(DropAt(s, i), s[i])

(* The elements of the sequence, and the position of one of them. *)
Elements(s) == {s[i] : i \in 1..Len(s)}
PosOf(s, x) == CHOOSE i \in 1..Len(s) : s[i] = x

(***************************************************************************)
(* What adding x does to a recency list with room for cap elements: x is   *)
(* moved to the front, or put there in place of the oldest when the list   *)
(* is full.                                                                *)
(***************************************************************************)
Touch(s, x, cap) ==
    IF x \in Elements(s)
    THEN ToFront(s, PosOf(s, x))
    ELSE PushFront(IF Len(s) = cap THEN DropAt(s, Len(s)) ELSE s, x)

Distinct(s) == \A i, j \in 1..Len(s) : s[i] = s[j] => i = j

=============================================================================
