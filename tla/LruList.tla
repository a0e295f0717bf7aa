------------------------------- MODULE LruList -------------------------------
(***************************************************************************)
(* local.go:72 calls evictList.MoveToFront while Get holds only the read   *)
(* lock, so several goroutines relink the same container/list at once.     *)
(* This module is that list pointer by pointer: each assignment of         *)
(* list.move is a step, and any number of readers are inside at a time.    *)
(* Writers (Set, Delete, late removals) are excluded by the lock, so       *)
(* between two of them the elements in the list are fixed.                 *)
(***************************************************************************)
EXTENDS Naturals, FiniteSets

CONSTANTS
    Threads,   \* goroutines inside Get
    Order,     \* the list they find, front first
    Root,      \* the list's sentinel, &l.root
    None

Linked == {Order[i] : i \in DOMAIN Order}
Nodes == Linked \cup {Root}

VARIABLES
    next, prev,  \* the pointers of every node
    pc,          \* next assignment of each goroutine's list.move, 0 outside
    elem         \* the element it moves

vars == <<next, prev, pc, elem>>

\* The node at position i of a well-formed ring that starts at the sentinel.
At(i) == IF i \in DOMAIN Order THEN Order[i] ELSE Root
Index(n) == IF n = Root THEN 0 ELSE CHOOSE i \in DOMAIN Order : Order[i] = n

Init ==
    /\ next = [n \in Nodes |-> At(Index(n) + 1)]
    /\ prev = [n \in Nodes |-> At(IF n = Root THEN Cardinality(Linked) ELSE Index(n) - 1)]
    /\ pc = [t \in Threads |-> 0]
    /\ elem = [t \in Threads |-> None]

\* Get finds its element live and calls MoveToFront, which returns at once when
\* the element is already at the front.
Get(t, e) ==
    /\ pc[t] = 0
    /\ next[Root] # e
    /\ pc' = [pc EXCEPT ![t] = 1]
    /\ elem' = [elem EXCEPT ![t] = e]
    /\ UNCHANGED <<next, prev>>

\* list.move(e, &l.root), one assignment per step.
Assign(t) ==
    LET e == elem[t] IN
    CASE pc[t] = 1 -> next' = [next EXCEPT ![prev[e]] = next[e]] /\ UNCHANGED prev
      [] pc[t] = 2 -> prev' = [prev EXCEPT ![next[e]] = prev[e]] /\ UNCHANGED next
      [] pc[t] = 3 -> prev' = [prev EXCEPT ![e] = Root] /\ UNCHANGED next
      [] pc[t] = 4 -> next' = [next EXCEPT ![e] = next[Root]] /\ UNCHANGED prev
      [] pc[t] = 5 -> next' = [next EXCEPT ![prev[e]] = e] /\ UNCHANGED prev
      [] pc[t] = 6 -> prev' = [prev EXCEPT ![next[e]] = e] /\ UNCHANGED next

Move(t) ==
    /\ pc[t] > 0
    /\ Assign(t)
    /\ pc' = [pc EXCEPT ![t] = (@ + 1) % 7]
    /\ elem' = IF pc[t] = 6 THEN [elem EXCEPT ![t] = None] ELSE elem

Next == \E t \in Threads : Move(t) \/ \E e \in Linked : Get(t, e)

Spec == Init /\ [][Next]_vars

-------------------------------------------------------------------------------

Quiet == \A t \in Threads : pc[t] = 0

\* local.go:153 says evict removes the least recently used entry: after any number
\* of Gets the back of the list is an element of it, not the sentinel, whose nil
\* Value removeElement would assert to be an entry.
BackIsAnElement == Quiet => prev[Root] # Root
===============================================================================
