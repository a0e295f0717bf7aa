------------------------------ MODULE LocalCache ------------------------------
(***************************************************************************)
(* internal/pkg/cache/local.go: an LRU map shared by goroutines.           *)
(*                                                                         *)
(* Set, Delete, and Get and Exists of a key that is absent or not expired  *)
(* are one critical section each.  Get and Exists of an expired key are    *)
(* two: the element is found under the read lock, the lock is released,    *)
(* and only then taken for writing to remove that element - "gap" holds    *)
(* the element pointer in between.                                         *)
(*                                                                         *)
(* Elements are the list.Element allocations; one is free when it is       *)
(* neither linked nor held by a goroutine.  Expiry is a step of its own:   *)
(* entries may be stored with any expiration.  Get relinks its element     *)
(* while it holds only the read lock; here that relink is one step, and    *)
(* what two of them do to the links when they overlap is module LruList.   *)
(***************************************************************************)
EXTENDS Naturals, Sequences, SequencesExt

CONSTANTS
    Threads, Keys, Values,
    Elements,  \* bound: the list.Element allocations alive at a time
    Capacity,  \* LocalCache.capacity
    None

ASSUME CacheAssumption ==
    /\ Capacity \in Nat
    /\ None \notin Keys /\ None \notin Values /\ None \notin Elements

VARIABLES
    cache,  \* l.cache: key -> element
    list,   \* l.evictList, front (most recently used) first
    entry,  \* element.Value: key, value, and whether expiresAt has passed
    gap,    \* element a goroutine holds between its RUnlock and its Lock
    written \* history: value last Set under each key and not Deleted since

vars == <<cache, list, entry, gap, written>>

NoEntry == [key |-> None, value |-> None, expired |-> FALSE]

Init ==
    /\ cache = [k \in Keys |-> None]
    /\ list = <<>>
    /\ entry = [e \in Elements |-> NoEntry]
    /\ gap = [t \in Threads |-> None]
    /\ written = [k \in Keys |-> None]

-------------------------------------------------------------------------------
(* container/list *)

Position(s, e) == CHOOSE i \in 1..Len(s) : s[i] = e

\* list.Remove: an element that is not linked is left alone.
Remove_(s, e) == IF e \in Range(s) THEN RemoveAt(s, Position(s, e)) ELSE s

MoveToFront(s, e) == <<e>> \o Remove_(s, e)

\* Allocations no live pointer refers to.
Free == Elements \ (Range(list) \cup Range(gap))

-------------------------------------------------------------------------------
(* Operations *)

\* time.Now().After(expiresAt) for the entry a key is mapped to.
Expired(k) == \E e \in Elements : cache[k] = e /\ entry[e].expired
Live(k)    == \E e \in Elements : cache[k] = e /\ ~entry[e].expired

\* Get or Exists without effect: a miss, or Exists of a live entry.
Look(t, k) ==
    /\ gap[t] = None
    /\ ~Expired(k)
    /\ UNCHANGED vars

\* Get of a live entry returns it and makes it the most recently used.
Get(t, k) ==
    /\ gap[t] = None
    /\ Live(k)
    /\ list' = MoveToFront(list, cache[k])
    /\ UNCHANGED <<cache, entry, gap, written>>

\* Get or Exists finds the entry expired and releases the read lock.
FindExpired(t, k) ==
    /\ gap[t] = None
    /\ Expired(k)
    /\ gap' = [gap EXCEPT ![t] = cache[k]]
    /\ UNCHANGED <<cache, list, entry, written>>

\* (Mutant) the entry is unlinked but stays in the map.
removeElement_KeepMapping(e) ==
    /\ list' = Remove_(list, e)
    /\ UNCHANGED cache

\* removeElement: unlink the element and drop whatever is mapped under its key.
removeElement(e) ==
    /\ list' = Remove_(list, e)
    /\ cache' = [cache EXCEPT ![entry[e].key] = None]

\* It takes the write lock and removes the element it remembers, which may by
\* now have been refreshed, removed, or replaced by another one.
RemoveExpired(t) ==
    /\ gap[t] # None
    /\ removeElement(gap[t])
    /\ gap' = [gap EXCEPT ![t] = None]
    /\ UNCHANGED <<entry, written>>

\* (Mutant) the refreshed entry gets its new expiration but keeps its value.
Refresh_KeepValue(k, v) ==
    /\ cache[k] # None
    /\ entry' = [entry EXCEPT ![cache[k]] = [@ EXCEPT !.expired = FALSE]]
    /\ list' = MoveToFront(list, cache[k])
    /\ UNCHANGED cache

\* Set of a key in the map: a new value and expiration for its element.
Refresh(k, v) ==
    /\ cache[k] # None
    /\ entry' = [entry EXCEPT ![cache[k]] = [key |-> k, value |-> v, expired |-> FALSE]]
    /\ list' = MoveToFront(list, cache[k])
    /\ UNCHANGED cache

\* evict: the element at the back goes, if there is one.
Evicted == IF list # <<>> /\ Len(list) >= Capacity THEN {Last(list)} ELSE {}

\* (Mutant) off by one: evicts only beyond the capacity.
Insert_Late(k, v) ==
    /\ cache[k] = None
    /\ \E e \in Free :
       /\ list' = <<e>> \o (IF list # <<>> /\ Len(list) > Capacity THEN Front(list) ELSE list)
       /\ cache' = [j \in Keys |-> IF j = k THEN e ELSE IF cache[j] \notin Range(list') THEN None ELSE cache[j]]
       /\ entry' = [entry EXCEPT ![e] = [key |-> k, value |-> v, expired |-> FALSE]]

\* Set of a key not in the map: evict if full, then push a new element.
Insert(k, v) ==
    /\ cache[k] = None
    /\ \E e \in Free :
       /\ list' = <<e>> \o (IF Evicted = {} THEN list ELSE Front(list))
       /\ cache' = [j \in Keys |-> IF j = k THEN e
                                   ELSE IF \E o \in Evicted : entry[o].key = j THEN None
                                   ELSE cache[j]]
       /\ entry' = [entry EXCEPT ![e] = [key |-> k, value |-> v, expired |-> FALSE]]

Set(t, k, v) ==
    /\ gap[t] = None
    /\ Refresh(k, v) \/ Insert(k, v)
    /\ written' = [written EXCEPT ![k] = v]
    /\ UNCHANGED gap

Delete(t, k) ==
    /\ gap[t] = None
    /\ IF cache[k] # None THEN removeElement(cache[k]) ELSE UNCHANGED <<cache, list>>
    /\ written' = [written EXCEPT ![k] = None]
    /\ UNCHANGED <<entry, gap>>

\* time.Now() passes the expiresAt of a linked entry.
Expire(e) ==
    /\ e \in Range(list) /\ ~entry[e].expired
    /\ entry' = [entry EXCEPT ![e].expired = TRUE]
    /\ UNCHANGED <<cache, list, gap, written>>

Next ==
    \/ \E t \in Threads, k \in Keys : Look(t, k) \/ Get(t, k) \/ FindExpired(t, k) \/ Delete(t, k)
    \/ \E t \in Threads : RemoveExpired(t)
    \/ \E t \in Threads, k \in Keys, v \in Values : Set(t, k, v)
    \/ \E e \in Elements : Expire(e)

Spec == Init /\ [][Next]_vars

-------------------------------------------------------------------------------
(* Properties *)

Entry == [key : Keys \cup {None}, value : Values \cup {None}, expired : BOOLEAN]

\* The map, the list and the goroutines' pointers have their types, and the list
\* links no element twice.
TypeOK ==
    /\ cache \in [Keys -> Elements \cup {None}]
    /\ list \in Seq(Elements) /\ \A i, j \in DOMAIN list : list[i] = list[j] => i = j
    /\ entry \in [Elements -> Entry]
    /\ gap \in [Threads -> Elements \cup {None}]
    /\ written \in [Keys -> Values \cup {None}]

\* Whatever the late removals of expired entries do, a key is only ever mapped to
\* an element that is in the list and carries that very key.
MappedIsLinked ==
    \A k \in Keys : cache[k] # None => cache[k] \in Range(list) /\ entry[cache[k]].key = k

\* The cache stays within its capacity (a capacity of zero stores one entry),
\* also when late removals find nothing to unlink.
WithinCapacity == Len(list) <= IF Capacity = 0 THEN 1 ELSE Capacity

\* What a lookup returns: absent when unmapped or expired.
Contents == [k \in Keys |->
    IF Live(k) THEN entry[cache[k]].value ELSE None]

Lossy == INSTANCE LossyCache WITH Absent <- None, contents <- Contents

\* However its goroutines interleave, the cache only ever forgets: a lookup
\* returns the value last Set under the key or nothing.
ImplementsLossyCache == Lossy!Spec

===============================================================================
