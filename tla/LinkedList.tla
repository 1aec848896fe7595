----------------------------- MODULE LinkedList -----------------------------
(***************************************************************************)
(* The kernel's singly linked list (oslibc/list.hpp) as a sequence.        *)
(* append is Append, and popping the first item is Head and Tail.          *)
(***************************************************************************)
EXTENDS Naturals, Sequences, Functions

\* Take the first item equal to x out of q.  remove_all does the same to a list
\* that holds x at most once.
remove_one(q, x) ==
  IF x \notin Range(q) THEN q
  ELSE LET k == CHOOSE i \in DOMAIN q : q[i] = x /\ \A j \in 1..(i - 1) : q[j] # x
       IN  [i \in 1..(Len(q) - 1) |-> q[IF i < k THEN i ELSE i + 1]]

\* How many items of q are equal to x, as far as the callers ask.
AtMostOne(q, x) == \A i, j \in DOMAIN q : q[i] = x /\ q[j] = x => i = j

ExactlyOne(q, x) == x \in Range(q) /\ AtMostOne(q, x)
=============================================================================
