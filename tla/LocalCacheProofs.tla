---------------------------- MODULE LocalCacheProofs ----------------------------
(***************************************************************************)
(* The local cache's invariants and its refinement, for any goroutines,    *)
(* keys, values, allocations and capacity.                                 *)
(***************************************************************************)
EXTENDS LocalCache, SequenceTheorems, TLAPS

-------------------------------------------------------------------------------
(* The list operations on a sequence without duplicates *)

Distinct(s) == \A i, j \in DOMAIN s : s[i] = s[j] => i = j

\* Cutting one position out of a sequence.
LEMMA RemoveAtProperties ==
    ASSUME NEW S, NEW s \in Seq(S), NEW i \in 1..Len(s)
    PROVE  /\ RemoveAt(s, i) \in Seq(S)
           /\ Len(RemoveAt(s, i)) = Len(s) - 1
           /\ \A j \in 1..Len(s) - 1 : RemoveAt(s, i)[j] = IF j < i THEN s[j] ELSE s[j + 1]
<1> DEFINE a == SubSeq(s, 1, i - 1)
           b == SubSeq(s, i + 1, Len(s))
<1>1. Len(s) \in Nat /\ i \in Nat /\ i >= 1 /\ i <= Len(s) /\ \A j \in 1..Len(s) : s[j] \in S
  BY LenProperties, ElementOfSeq
<1>2. a \in Seq(S) /\ Len(a) = i - 1 /\ \A j \in 1..i - 1 : a[j] = s[j]
  BY <1>1, SubSeqProperties
<1>3. b \in Seq(S) /\ Len(b) = Len(s) - i /\ \A j \in 1..Len(s) - i : b[j] = s[j + i]
  <2>1. i + 1 \in Int /\ Len(s) \in Int /\ \A j \in i + 1..Len(s) : s[j] \in S
    BY <1>1
  <2>2. /\ b \in Seq(S)
        /\ Len(b) = IF i + 1 <= Len(s) THEN Len(s) - (i + 1) + 1 ELSE 0
        /\ \A j \in 1..Len(s) - (i + 1) + 1 : b[j] = s[i + 1 + j - 1]
    BY <2>1, SubSeqProperties
  <2> HIDE DEF b
  <2>3. Len(b) = Len(s) - i
    BY <1>1, <2>2
  <2>4. ASSUME NEW j \in 1..Len(s) - i PROVE b[j] = s[j + i]
    <3>1. j \in 1..Len(s) - (i + 1) + 1 /\ i + 1 + j - 1 = j + i
      BY <1>1
    <3>2. b[j] = s[i + 1 + j - 1]
      BY <2>2, <3>1
    <3> QED
      BY <3>1, <3>2
  <2> QED
    BY <2>2, <2>3, <2>4
<1> DEFINE r == a \o b
<1>4. /\ r \in Seq(S) /\ Len(r) = Len(a) + Len(b)
      /\ \A j \in 1..Len(a) + Len(b) : r[j] = IF j <= Len(a) THEN a[j] ELSE b[j - Len(a)]
  BY <1>2, <1>3, ConcatProperties
<1>5. RemoveAt(s, i) = r
  BY DEF RemoveAt
<1> HIDE DEF a, b, r
<1>6. Len(r) = Len(s) - 1
  BY <1>1, <1>2, <1>3, <1>4
<1>7. ASSUME NEW j \in 1..Len(s) - 1 PROVE r[j] = IF j < i THEN s[j] ELSE s[j + 1]
  <2>1. r[j] = IF j <= i - 1 THEN a[j] ELSE b[j - (i - 1)]
    BY <1>1, <1>2, <1>3, <1>4
  <2>2. CASE j < i
    BY <2>1, <2>2, <1>1, <1>2
  <2>3. CASE j >= i
    <3>1. j - (i - 1) \in 1..Len(s) - i /\ j - (i - 1) + i = j + 1 /\ ~(j <= i - 1) /\ ~(j < i)
      BY <1>1, <2>3
    <3>2. b[j - (i - 1)] = s[j - (i - 1) + i]
      BY <1>3, <3>1
    <3> QED
      BY <2>1, <3>1, <3>2
  <2> QED
    BY <1>1, <2>2, <2>3
<1> QED
  BY <1>4, <1>5, <1>6, <1>7

\* list.Remove keeps the other elements, once each.
LEMMA RemoveProperties ==
    ASSUME NEW S, NEW s \in Seq(S), Distinct(s), NEW e
    PROVE  /\ Remove_(s, e) \in Seq(S)
           /\ Distinct(Remove_(s, e))
           /\ Range(Remove_(s, e)) = Range(s) \ {e}
           /\ Len(Remove_(s, e)) = IF e \in Range(s) THEN Len(s) - 1 ELSE Len(s)
<1>1. CASE e \notin Range(s)
  BY <1>1 DEF Remove_
<1>2. CASE e \in Range(s)
  <2> DEFINE i == Position(s, e)
             r == RemoveAt(s, i)
  <2>1. DOMAIN s = 1..Len(s) /\ Len(s) \in Nat
    BY LenProperties
  <2>2. i \in 1..Len(s) /\ s[i] = e
    BY <1>2, <2>1 DEF Range, Position
  <2> HIDE DEF i
  <2>5. /\ r \in Seq(S) /\ Len(r) = Len(s) - 1
        /\ \A j \in 1..Len(s) - 1 : r[j] = IF j < i THEN s[j] ELSE s[j + 1]
    BY <2>2, RemoveAtProperties
  <2> HIDE DEF r
  <2>6. DOMAIN r = 1..Len(s) - 1
    BY <2>5, LenProperties
  <2>7. Remove_(s, e) = r
    BY <1>2 DEF Remove_, i, r
  <2>8. Distinct(r)
    <3> SUFFICES ASSUME NEW m \in 1..Len(s) - 1, NEW n \in 1..Len(s) - 1, r[m] = r[n] PROVE m = n
      BY <2>6 DEF Distinct
    <3> DEFINE at(j) == IF j < i THEN j ELSE j + 1
    <3>1. at(m) \in DOMAIN s /\ at(n) \in DOMAIN s /\ r[m] = s[at(m)] /\ r[n] = s[at(n)]
      BY <2>1, <2>2, <2>5
    <3>2. at(m) = at(n)
      BY <3>1 DEF Distinct
    <3> QED
      BY <3>2, <2>1, <2>2
  <2>9. Range(r) = Range(s) \ {e}
    <3>1. ASSUME NEW j \in 1..Len(s) - 1 PROVE r[j] \in Range(s) \ {e}
      <4> DEFINE p == IF j < i THEN j ELSE j + 1
      <4>1. p \in DOMAIN s /\ p # i /\ r[j] = s[p]
        BY <2>1, <2>2, <2>5
      <4>2. s[p] # s[i]
        BY <4>1, <2>1, <2>2 DEF Distinct
      <4> QED
        BY <4>1, <4>2, <2>2 DEF Range
    <3>2. ASSUME NEW j \in 1..Len(s), s[j] # e PROVE s[j] \in Range(r)
      <4>1. CASE j < i
        BY <4>1, <2>1, <2>2, <2>5, <2>6 DEF Range
      <4>2. CASE j > i
        <5>1. j - 1 \in 1..Len(s) - 1 /\ r[j - 1] = s[j]
          BY <4>2, <2>1, <2>2, <2>5
        <5> QED
          BY <5>1, <2>6 DEF Range
      <4> QED
        BY <4>1, <4>2, <3>2, <2>1, <2>2
    <3> QED
      BY <3>1, <3>2, <2>1, <2>6 DEF Range
  <2> QED
    BY <1>2, <2>5, <2>7, <2>8, <2>9
<1> QED
  BY <1>1, <1>2

\* list.PushFront of an element that is not linked.
LEMMA PushProperties ==
    ASSUME NEW S, NEW s \in Seq(S), Distinct(s), NEW e \in S, e \notin Range(s)
    PROVE  /\ <<e>> \o s \in Seq(S)
           /\ Distinct(<<e>> \o s)
           /\ Range(<<e>> \o s) = Range(s) \cup {e}
           /\ Len(<<e>> \o s) = Len(s) + 1
<1> DEFINE r == <<e>> \o s
<1>1. DOMAIN s = 1..Len(s) /\ Len(s) \in Nat
  BY LenProperties
<1>2. <<e>> \in Seq(S) /\ Len(<<e>>) = 1 /\ <<e>>[1] = e
  OBVIOUS
<1>3. /\ r \in Seq(S) /\ Len(r) = Len(s) + 1 /\ DOMAIN r = 1..Len(s) + 1
      /\ \A j \in 1..Len(s) + 1 : r[j] = IF j = 1 THEN e ELSE s[j - 1]
  <2>1. /\ r \in Seq(S) /\ Len(r) = 1 + Len(s)
        /\ \A j \in 1..1 + Len(s) : r[j] = IF j <= 1 THEN <<e>>[j] ELSE s[j - 1]
    BY <1>1, <1>2, ConcatProperties
  <2> HIDE DEF r
  <2> QED
    BY <1>1, <1>2, <2>1, LenProperties
<1> HIDE DEF r
<1>4. Distinct(r)
  <2> SUFFICES ASSUME NEW m \in 1..Len(s) + 1, NEW n \in 1..Len(s) + 1, r[m] = r[n] PROVE m = n
    BY <1>3 DEF Distinct
  <2>1. ASSUME NEW j \in 2..Len(s) + 1 PROVE j - 1 \in DOMAIN s /\ r[j] = s[j - 1] /\ r[j] # e
    <3>1. j - 1 \in DOMAIN s /\ r[j] = s[j - 1]
      BY <1>1, <1>3
    <3> QED
      BY <3>1 DEF Range
  <2>2. CASE m = 1 \/ n = 1
    BY <2>1, <2>2, <1>1, <1>3
  <2>3. CASE m # 1 /\ n # 1
    <3>1. m - 1 = n - 1
      BY <2>1, <2>3, <1>1 DEF Distinct
    <3> QED
      BY <3>1, <1>1
  <2> QED
    BY <2>2, <2>3
<1>5. Range(r) = Range(s) \cup {e}
  <2>1. ASSUME NEW j \in 1..Len(s) PROVE s[j] \in Range(r)
    <3>1. j + 1 \in 1..Len(s) + 1 /\ r[j + 1] = s[j]
      BY <1>1, <1>3
    <3> QED
      BY <3>1, <1>3 DEF Range
  <2>2. e \in Range(r)
    BY <1>1, <1>3 DEF Range
  <2>3. ASSUME NEW j \in 1..Len(s) + 1 PROVE r[j] \in Range(s) \cup {e}
    BY <1>1, <1>3 DEF Range
  <2> QED
    BY <2>1, <2>2, <2>3, <1>1, <1>3 DEF Range
<1> QED
  BY <1>3, <1>4, <1>5 DEF r

\* Dropping the back element.
LEMMA FrontProperties ==
    ASSUME NEW S, NEW s \in Seq(S), Distinct(s), s # <<>>
    PROVE  /\ Front(s) \in Seq(S)
           /\ Distinct(Front(s))
           /\ Range(Front(s)) = Range(s) \ {Last(s)}
           /\ Last(s) \in Range(s)
           /\ Len(Front(s)) = Len(s) - 1
<1> DEFINE r == Front(s)
<1>1. DOMAIN s = 1..Len(s) /\ Len(s) \in Nat \ {0} /\ \A j \in 1..Len(s) : s[j] \in S
  BY LenProperties, ElementOfSeq, EmptySeq
<1>2. r \in Seq(S) /\ Len(r) = Len(s) - 1 /\ \A j \in 1..Len(s) - 1 : r[j] = s[j]
  BY <1>1, SubSeqProperties DEF Front
<1>3. DOMAIN r = 1..Len(s) - 1
  BY <1>2, LenProperties
<1> HIDE DEF r
<1>4. Distinct(r)
  BY <1>1, <1>2, <1>3 DEF Distinct
<1>5. Range(r) = Range(s) \ {Last(s)} /\ Last(s) \in Range(s)
  BY <1>1, <1>2, <1>3 DEF Distinct, Range, Last
<1> QED
  BY <1>2, <1>4, <1>5 DEF r

-------------------------------------------------------------------------------
(* Invariants *)

\* Linked elements and elements a goroutine still remembers hold real entries.
EntriesFilled ==
    /\ \A e \in Range(list) : entry[e].key \in Keys /\ entry[e].value \in Values
    /\ \A t \in Threads : gap[t] # None => entry[gap[t]].key \in Keys

\* MappedIsLinked is inductive once every element that a removal can reach has a
\* key: a late removal then only ever drops a mapping, it never leaves one behind
\* to an element it unlinks.
Inductive == TypeOK /\ MappedIsLinked /\ EntriesFilled /\ WithinCapacity

LEMMA InitInductive == Init => Inductive
<1> SUFFICES ASSUME Init PROVE Inductive
  OBVIOUS
<1>1. Range(list) = {}
  BY DEF Init, Range
<1>2. TypeOK
  BY CacheAssumption DEF Init, TypeOK, Entry, NoEntry
<1> QED
  BY <1>1, <1>2, CacheAssumption DEF Init, Inductive, MappedIsLinked, EntriesFilled, WithinCapacity

\* Moving a mapped element to the front changes the order only.
LEMMA MoveProperties ==
    ASSUME Inductive, NEW e \in Range(list)
    PROVE  /\ MoveToFront(list, e) \in Seq(Elements)
           /\ Distinct(MoveToFront(list, e))
           /\ Range(MoveToFront(list, e)) = Range(list)
           /\ Len(MoveToFront(list, e)) = Len(list)
<1> DEFINE r == Remove_(list, e)
<1>1. list \in Seq(Elements) /\ Distinct(list) /\ e \in Elements
  BY RangeOfSeq DEF Inductive, TypeOK, Distinct
<1>2. r \in Seq(Elements) /\ Distinct(r) /\ Range(r) = Range(list) \ {e} /\ Len(r) = Len(list) - 1
  BY <1>1, RemoveProperties
<1> HIDE DEF r
<1>3. /\ <<e>> \o r \in Seq(Elements) /\ Distinct(<<e>> \o r)
      /\ Range(<<e>> \o r) = Range(r) \cup {e} /\ Len(<<e>> \o r) = Len(r) + 1
  BY <1>1, <1>2, PushProperties
<1>4. Len(list) \in Nat
  BY <1>1, LenProperties
<1>5. MoveToFront(list, e) = <<e>> \o r
  BY DEF MoveToFront, r
<1>6. Range(r) \cup {e} = Range(list) /\ Len(r) + 1 = Len(list)
  BY <1>2, <1>4
<1> QED
  BY <1>3, <1>5, <1>6

\* What the list still satisfies after removeElement.
LEMMA RemovedProperties ==
    ASSUME Inductive, NEW e, list' = Remove_(list, e)
    PROVE  /\ list' \in Seq(Elements) /\ Distinct(list')
           /\ Range(list') = Range(list) \ {e}
           /\ WithinCapacity'
<1>1. list \in Seq(Elements) /\ Distinct(list)
  BY DEF Inductive, TypeOK, Distinct
<1>2. Len(list) \in Nat
  BY <1>1, LenProperties
<1> QED
  BY <1>1, <1>2, RemoveProperties, CacheAssumption DEF Inductive, WithinCapacity

\* removeElement drops the mapping of the key of the element it unlinks, so no
\* mapping is left dangling - whichever element it is.
LEMMA removeElementInductive ==
    ASSUME Inductive, NEW e \in Elements, entry[e].key \in Keys, removeElement(e),
           UNCHANGED entry, gap' \in [Threads -> Elements \cup {None}],
           \A t \in Threads : gap'[t] \in {gap[t], None},
           written' \in [Keys -> Values \cup {None}]
    PROVE  Inductive'
<1>1. /\ list' \in Seq(Elements) /\ Distinct(list')
      /\ Range(list') = Range(list) \ {e} /\ WithinCapacity'
  BY RemovedProperties DEF removeElement
<1>2. cache' = [cache EXCEPT ![entry[e].key] = None] /\ cache \in [Keys -> Elements \cup {None}]
  BY DEF removeElement, Inductive, TypeOK
<1>3. TypeOK'
  BY <1>1, <1>2 DEF Inductive, TypeOK, Distinct
<1>4. MappedIsLinked'
  <2> SUFFICES ASSUME NEW k \in Keys, cache'[k] # None
               PROVE  cache'[k] \in Range(list') /\ entry[cache'[k]].key = k
    BY DEF MappedIsLinked
  <2>1. k # entry[e].key /\ cache'[k] = cache[k]
    BY <1>2
  <2> QED
    BY <2>1, <1>1 DEF Inductive, MappedIsLinked
<1>5. EntriesFilled'
  BY <1>1, CacheAssumption DEF Inductive, EntriesFilled
<1> QED
  BY <1>1, <1>3, <1>4, <1>5 DEF Inductive

LEMMA GetInductive ==
    ASSUME Inductive, NEW t \in Threads, NEW k \in Keys, Get(t, k)
    PROVE  Inductive'
<1>1. cache[k] \in Range(list)
  BY CacheAssumption DEF Get, Live, Inductive, MappedIsLinked
<1>2. /\ list' \in Seq(Elements) /\ Distinct(list')
      /\ Range(list') = Range(list) /\ Len(list') = Len(list)
  BY <1>1, MoveProperties DEF Get
<1> QED
  BY <1>2 DEF Get, Inductive, TypeOK, Distinct, MappedIsLinked, EntriesFilled, WithinCapacity

LEMMA FindExpiredInductive ==
    ASSUME Inductive, NEW t \in Threads, NEW k \in Keys, FindExpired(t, k)
    PROVE  Inductive'
<1>1. cache[k] \in Elements /\ entry[cache[k]].key \in Keys
  BY CacheAssumption DEF FindExpired, Expired, Inductive, MappedIsLinked, TypeOK
<1> QED
  BY <1>1 DEF FindExpired, Inductive, TypeOK, MappedIsLinked, EntriesFilled, WithinCapacity

LEMMA RemoveExpiredInductive ==
    ASSUME Inductive, NEW t \in Threads, RemoveExpired(t)
    PROVE  Inductive'
<1>1. gap[t] \in Elements /\ entry[gap[t]].key \in Keys
  BY DEF RemoveExpired, Inductive, TypeOK, EntriesFilled
<1>2. /\ gap' \in [Threads -> Elements \cup {None}]
      /\ \A u \in Threads : gap'[u] \in {gap[u], None}
      /\ written' \in [Keys -> Values \cup {None}]
  BY DEF RemoveExpired, Inductive, TypeOK
<1> QED
  BY <1>1, <1>2, removeElementInductive DEF RemoveExpired

LEMMA DeleteInductive ==
    ASSUME Inductive, NEW t \in Threads, NEW k \in Keys, Delete(t, k)
    PROVE  Inductive'
<1>1. /\ gap' \in [Threads -> Elements \cup {None}]
      /\ \A u \in Threads : gap'[u] \in {gap[u], None}
      /\ written' \in [Keys -> Values \cup {None}]
  BY DEF Delete, Inductive, TypeOK
<1>2. CASE cache[k] = None
  BY <1>1, <1>2 DEF Delete, Inductive, TypeOK, MappedIsLinked, EntriesFilled, WithinCapacity
<1>3. CASE cache[k] # None
  <2>1. cache[k] \in Elements /\ entry[cache[k]].key \in Keys
    BY <1>3 DEF Inductive, TypeOK, MappedIsLinked
  <2> QED
    BY <1>1, <1>3, <2>1, removeElementInductive DEF Delete
<1> QED
  BY <1>2, <1>3

\* Set of a mapped key writes into the element of that key only.
LEMMA RefreshInductive ==
    ASSUME Inductive, NEW t \in Threads, NEW k \in Keys, NEW v \in Values, Set(t, k, v), Refresh(k, v)
    PROVE  Inductive'
<1>1. cache[k] \in Range(list) /\ cache[k] \in Elements
  BY CacheAssumption DEF Refresh, Inductive, MappedIsLinked, TypeOK
<1>2. /\ list' \in Seq(Elements) /\ Distinct(list')
      /\ Range(list') = Range(list) /\ Len(list') = Len(list)
  BY <1>1, MoveProperties DEF Refresh
<1>3. entry' = [entry EXCEPT ![cache[k]] = [key |-> k, value |-> v, expired |-> FALSE]]
      /\ UNCHANGED <<cache, gap>> /\ written' = [written EXCEPT ![k] = v]
  BY DEF Refresh, Set
<1>4. \A e \in Elements : entry'[e].key = entry[e].key /\ entry'[e].value \in {entry[e].value, v}
  <2>1. entry[cache[k]].key = k
    BY DEF Inductive, MappedIsLinked, Refresh
  <2>2. entry \in [Elements -> Entry]
    BY DEF Inductive, TypeOK
  <2>3. /\ entry'[cache[k]].key = k /\ entry'[cache[k]].value = v
        /\ \A e \in Elements \ {cache[k]} : entry'[e] = entry[e]
    BY <1>1, <1>3, <2>2
  <2> QED
    BY <2>1, <2>3
<1>5. [key |-> k, value |-> v, expired |-> FALSE] \in Entry
  BY DEF Entry
<1>6. TypeOK'
  BY <1>1, <1>2, <1>3, <1>5 DEF Inductive, TypeOK, Distinct
<1>7. MappedIsLinked'
  BY <1>2, <1>3, <1>4 DEF Inductive, MappedIsLinked, TypeOK
<1>8. EntriesFilled'
  <2>1. Range(list) \subseteq Elements
    BY RangeOfSeq DEF Inductive, TypeOK
  <2> QED
    BY <2>1, <1>2, <1>3, <1>4 DEF Inductive, EntriesFilled, TypeOK
<1> QED
  BY <1>2, <1>6, <1>7, <1>8 DEF Inductive, WithinCapacity

\* What evicting at most one element leaves of the list.
LEMMA EvictProperties ==
    ASSUME Inductive, NEW rest, rest = IF Evicted = {} THEN list ELSE Front(list)
    PROVE  /\ rest \in Seq(Elements) /\ Distinct(rest)
           /\ Range(rest) = Range(list) \ Evicted
           /\ Evicted \subseteq Range(list)
           /\ Len(rest) \in Nat
           /\ Len(rest) + 1 <= IF Capacity = 0 THEN 1 ELSE Capacity
<1>1. list \in Seq(Elements) /\ Distinct(list) /\ Len(list) \in Nat
  BY LenProperties DEF Inductive, TypeOK, Distinct
<1>2. Len(list) <= IF Capacity = 0 THEN 1 ELSE Capacity
  BY DEF Inductive, WithinCapacity
<1>3. CASE Evicted = {}
  <2>1. list = <<>> \/ Len(list) < Capacity
    BY <1>1, <1>3, CacheAssumption DEF Evicted
  <2>2. Len(<<>>) = 0
    OBVIOUS
  <2> QED
    BY <1>1, <1>3, <2>1, <2>2, CacheAssumption
<1>4. CASE Evicted # {}
  <2>1. list # <<>> /\ Evicted = {Last(list)} /\ rest = Front(list)
    BY <1>4 DEF Evicted
  <2>2. /\ rest \in Seq(Elements) /\ Distinct(rest) /\ Range(rest) = Range(list) \ {Last(list)}
        /\ Last(list) \in Range(list) /\ Len(rest) = Len(list) - 1
    BY <1>1, <2>1, FrontProperties
  <2>3. Len(rest) \in Nat
    BY <2>2, LenProperties
  <2> QED
    BY <1>1, <1>2, <2>1, <2>2, <2>3, CacheAssumption
<1> QED
  BY <1>3, <1>4

\* Set of a new key keeps the list within capacity and drops the mapping of the
\* element it evicts.
LEMMA InsertInductive ==
    ASSUME Inductive, NEW t \in Threads, NEW k \in Keys, NEW v \in Values, Set(t, k, v), Insert(k, v)
    PROVE  Inductive'
<1> DEFINE rest == IF Evicted = {} THEN list ELSE Front(list)
<1>1. PICK e \in Free :
         /\ list' = <<e>> \o rest
         /\ cache' = [j \in Keys |-> IF j = k THEN e
                                     ELSE IF \E o \in Evicted : entry[o].key = j THEN None
                                     ELSE cache[j]]
         /\ entry' = [entry EXCEPT ![e] = [key |-> k, value |-> v, expired |-> FALSE]]
  BY DEF Insert
<1>2. e \in Elements /\ e \notin Range(list) /\ e \notin Range(gap)
  BY DEF Free
<1>3. /\ rest \in Seq(Elements) /\ Distinct(rest)
      /\ Range(rest) = Range(list) \ Evicted /\ Evicted \subseteq Range(list)
      /\ Len(rest) \in Nat /\ Len(rest) + 1 <= IF Capacity = 0 THEN 1 ELSE Capacity
  BY EvictProperties
<1> HIDE DEF rest
<1>4. /\ list' \in Seq(Elements) /\ Distinct(list')
      /\ Range(list') = Range(rest) \cup {e} /\ Len(list') = Len(rest) + 1
  BY <1>1, <1>2, <1>3, PushProperties
<1>5. UNCHANGED gap /\ written' = [written EXCEPT ![k] = v]
  BY DEF Set
<1>6. [key |-> k, value |-> v, expired |-> FALSE] \in Entry
  BY DEF Entry
<1>7. /\ entry'[e].key = k /\ entry'[e].value = v
      /\ \A x \in Elements \ {e} : entry'[x] = entry[x]
  BY <1>1, <1>2 DEF Inductive, TypeOK
<1>8. cache' \in [Keys -> Elements \cup {None}]
  BY <1>1, <1>2 DEF Inductive, TypeOK
<1>9. TypeOK'
  BY <1>1, <1>4, <1>5, <1>6, <1>8 DEF Inductive, TypeOK, Distinct
<1>10. MappedIsLinked'
  <2> SUFFICES ASSUME NEW j \in Keys, cache'[j] # None
               PROVE  cache'[j] \in Range(list') /\ entry'[cache'[j]].key = j
    BY DEF MappedIsLinked
  <2>1. CASE j = k
    BY <2>1, <1>1, <1>4, <1>7
  <2>2. CASE j # k
    <3>1. cache'[j] = cache[j] /\ ~\E o \in Evicted : entry[o].key = j
      BY <2>2, <1>1
    <3>2. cache[j] \in Range(list) /\ entry[cache[j]].key = j /\ cache[j] \in Elements
      BY <3>1, CacheAssumption DEF Inductive, MappedIsLinked, TypeOK
    <3>3. cache[j] \notin Evicted /\ cache[j] # e
      BY <3>1, <3>2, <1>2
    <3> QED
      BY <3>1, <3>2, <3>3, <1>3, <1>4, <1>7
  <2> QED
    BY <2>1, <2>2
<1>11. EntriesFilled'
  <2>1. Range(list) \subseteq Elements
    BY RangeOfSeq DEF Inductive, TypeOK
  <2>2. \A x \in Range(list') : entry'[x].key \in Keys /\ entry'[x].value \in Values
    BY <2>1, <1>2, <1>3, <1>4, <1>7 DEF Inductive, EntriesFilled
  <2>3. \A u \in Threads : gap'[u] # None => gap[u] \in Elements \ {e} /\ entry[gap[u]].key \in Keys
    BY <1>2, <1>5 DEF Inductive, EntriesFilled, TypeOK, Range
  <2> QED
    BY <2>2, <2>3, <1>5, <1>7 DEF EntriesFilled
<1> QED
  BY <1>3, <1>4, <1>9, <1>10, <1>11 DEF Inductive, WithinCapacity

LEMMA ExpireInductive ==
    ASSUME Inductive, NEW e \in Elements, Expire(e)
    PROVE  Inductive'
<1>1. /\ entry' = [entry EXCEPT ![e].expired = TRUE] /\ UNCHANGED <<cache, list, gap, written>>
      /\ entry \in [Elements -> Entry]
  BY DEF Expire, Inductive, TypeOK
<1>2. entry' \in [Elements -> Entry] /\ \A x \in Elements : entry'[x].key = entry[x].key /\ entry'[x].value = entry[x].value
  BY <1>1 DEF Entry
<1>3. Range(list) \subseteq Elements
  BY RangeOfSeq DEF Inductive, TypeOK
<1> QED
  BY <1>1, <1>2, <1>3 DEF Inductive, TypeOK, MappedIsLinked, EntriesFilled, WithinCapacity

\* Every step of the cache preserves the inductive invariant.
LEMMA NextInductive == Inductive /\ [Next]_vars => Inductive'
<1> SUFFICES ASSUME Inductive, [Next]_vars PROVE Inductive'
  OBVIOUS
<1>1. ASSUME NEW t \in Threads, NEW k \in Keys,
             Look(t, k) \/ Get(t, k) \/ FindExpired(t, k) \/ Delete(t, k)
      PROVE  Inductive'
  <2>1. CASE Look(t, k)
    BY <2>1 DEF Look, vars, Inductive, TypeOK, MappedIsLinked, EntriesFilled, WithinCapacity
  <2> QED
    BY <1>1, <2>1, GetInductive, FindExpiredInductive, DeleteInductive
<1>2. ASSUME NEW t \in Threads, NEW k \in Keys, NEW v \in Values, Set(t, k, v) PROVE Inductive'
  BY <1>2, RefreshInductive, InsertInductive DEF Set
<1>3. CASE UNCHANGED vars
  BY <1>3 DEF vars, Inductive, TypeOK, MappedIsLinked, EntriesFilled, WithinCapacity
<1> QED
  BY <1>1, <1>2, <1>3, RemoveExpiredInductive, ExpireInductive DEF Next

\* The inductive invariant holds in every reachable state.
THEOREM Invariance == Spec => []Inductive
BY InitInductive, NextInductive, PTL DEF Spec

\* Type correctness, including that the list links no element twice.
THEOREM TypeCorrect == Spec => []TypeOK
BY Invariance, PTL DEF Inductive

\* No key is ever mapped to an element outside the list or of another key.
THEOREM MappingSound == Spec => []MappedIsLinked
BY Invariance, PTL DEF Inductive

\* The list never grows beyond the capacity.
THEOREM CapacityRespected == Spec => []WithinCapacity
BY Invariance, PTL DEF Inductive

-------------------------------------------------------------------------------
(* The refinement *)

LEMMA ContentsTyped == Inductive' => Contents' \in [Keys -> Values \cup {None}]
<1> SUFFICES ASSUME Inductive', NEW k \in Keys, Live(k)'
             PROVE  entry'[cache'[k]].value \in Values \cup {None}
  BY DEF Contents
<1> QED
  BY DEF Live, Inductive, TypeOK, Entry

\* Keys never share an element, so a change to one key's entry leaves the other
\* keys' contents alone.
LEMMA OwnElement ==
    ASSUME Inductive, NEW j \in Keys, NEW k \in Keys, j # k, cache[k] # None
    PROVE  cache[j] # cache[k]
BY DEF Inductive, MappedIsLinked

\* A step that leaves entries alone and at most drops mappings forgets.
LEMMA DroppingForgets ==
    ASSUME Inductive, UNCHANGED entry, NEW ks \in SUBSET Keys,
           \A j \in ks : cache'[j] \in {cache[j], None}
    PROVE  \A j \in ks : Contents'[j] \in {Contents[j], None}
BY CacheAssumption DEF Contents, Live, Inductive, TypeOK

LEMMA InitRefines == Init => Lossy!Init
BY CacheAssumption DEF Init, Lossy!Init, Contents, Live

LEMMA RefreshRefines ==
    ASSUME Inductive, Inductive', NEW t \in Threads, NEW k \in Keys, NEW v \in Values,
           Set(t, k, v), Refresh(k, v)
    PROVE  Lossy!Put(k, v)
<1>1. /\ cache[k] \in Elements /\ cache \in [Keys -> Elements \cup {None}]
      /\ UNCHANGED cache /\ entry \in [Elements -> Entry]
      /\ entry' = [entry EXCEPT ![cache[k]] = [key |-> k, value |-> v, expired |-> FALSE]]
  BY CacheAssumption DEF Refresh, Inductive, TypeOK
<1>2. entry'[cache[k]].value = v /\ entry'[cache[k]].expired = FALSE
  BY <1>1
<1>3. Contents'[k] = v
  BY <1>1, <1>2 DEF Contents, Live
<1>4. ASSUME NEW j \in Keys \ {k} PROVE Contents'[j] = Contents[j]
  <2>1. cache[j] # cache[k]
    BY OwnElement DEF Refresh
  <2>2. ASSUME NEW e \in Elements, cache[j] = e PROVE entry'[e] = entry[e]
    BY <1>1, <2>1, <2>2
  <2> QED
    BY <1>1, <2>1, <2>2 DEF Contents, Live
<1>5. Contents' \in [Keys -> Values \cup {None}]
  BY ContentsTyped
<1> QED
  BY <1>3, <1>4, <1>5 DEF Lossy!Put, Lossy!OnlyForgets, Set

LEMMA InsertRefines ==
    ASSUME Inductive, Inductive', NEW t \in Threads, NEW k \in Keys, NEW v \in Values,
           Set(t, k, v), Insert(k, v)
    PROVE  Lossy!Put(k, v)
<1>1. PICK e \in Elements :
         /\ e \notin Range(list)
         /\ cache'[k] = e
         /\ \A j \in Keys \ {k} : cache'[j] \in {cache[j], None}
         /\ entry' = [entry EXCEPT ![e] = [key |-> k, value |-> v, expired |-> FALSE]]
  BY DEF Insert, Free
<1>2. entry \in [Elements -> Entry] /\ cache \in [Keys -> Elements \cup {None}]
      /\ cache' \in [Keys -> Elements \cup {None}]
  BY DEF Inductive, TypeOK
<1>3. entry'[e].value = v /\ entry'[e].expired = FALSE
  BY <1>1, <1>2
<1>4. Contents'[k] = v
  BY <1>1, <1>3 DEF Contents, Live
<1>5. ASSUME NEW j \in Keys \ {k} PROVE Contents'[j] \in {Contents[j], None}
  <2>1. cache[j] # e
    BY <1>1, CacheAssumption DEF Inductive, MappedIsLinked
  <2>2. ASSUME NEW x \in Elements, cache[j] = x PROVE entry'[x] = entry[x]
    BY <1>1, <1>2, <2>1, <2>2
  <2>3. CASE cache'[j] = None
    BY <2>3, CacheAssumption DEF Contents, Live
  <2>4. CASE cache'[j] = cache[j]
    BY <2>4, <1>2, <2>2 DEF Contents, Live
  <2> QED
    BY <1>1, <2>3, <2>4
<1>6. Contents' \in [Keys -> Values \cup {None}]
  BY ContentsTyped
<1> QED
  BY <1>4, <1>5, <1>6 DEF Lossy!Put, Lossy!OnlyForgets, Set

LEMMA DeleteRefines ==
    ASSUME Inductive, NEW t \in Threads, NEW k \in Keys, Delete(t, k)
    PROVE  Lossy!Delete(k)
<1>1. cache \in [Keys -> Elements \cup {None}] /\ UNCHANGED entry
      /\ written' = [written EXCEPT ![k] = None]
  BY DEF Inductive, TypeOK, Delete
<1>2. cache' = [cache EXCEPT ![k] = None]
  BY <1>1 DEF Delete, removeElement, Inductive, MappedIsLinked
<1>3. Contents' = [Contents EXCEPT ![k] = None]
  BY <1>1, <1>2, CacheAssumption DEF Contents, Live
<1> QED
  BY <1>1, <1>3 DEF Lossy!Delete

LEMMA ExpireRefines ==
    ASSUME Inductive, Inductive', NEW e \in Elements, Expire(e)
    PROVE  Lossy!Forget
<1>1. /\ entry' = [entry EXCEPT ![e].expired = TRUE] /\ UNCHANGED <<cache, written>>
      /\ entry \in [Elements -> Entry] /\ ~entry[e].expired
      /\ cache \in [Keys -> Elements \cup {None}]
  BY DEF Expire, Inductive, TypeOK
<1>2. entry'[e].expired = TRUE /\ \A x \in Elements \ {e} : entry'[x] = entry[x]
  BY <1>1 DEF Entry
<1>3. ASSUME NEW j \in Keys PROVE Contents'[j] \in {Contents[j], None}
  BY <1>1, <1>2, CacheAssumption DEF Contents, Live
<1>4. Contents' \in [Keys -> Values \cup {None}]
  BY ContentsTyped
<1> QED
  BY <1>1, <1>3, <1>4 DEF Lossy!Forget, Lossy!OnlyForgets

LEMMA RemoveExpiredRefines ==
    ASSUME Inductive, Inductive', NEW t \in Threads, RemoveExpired(t)
    PROVE  Lossy!Forget
<1>1. \A j \in Keys : cache'[j] \in {cache[j], None}
  BY DEF RemoveExpired, removeElement, Inductive, TypeOK
<1>2. \A j \in Keys : Contents'[j] \in {Contents[j], None}
  BY <1>1, DroppingForgets DEF RemoveExpired
<1>3. Contents' \in [Keys -> Values \cup {None}]
  BY ContentsTyped
<1> QED
  BY <1>2, <1>3 DEF RemoveExpired, Lossy!Forget, Lossy!OnlyForgets

\* Every step of the cache is one of the lossy cache or invisible to it.
LEMMA StepRefines ==
    ASSUME Inductive, Inductive', [Next]_vars
    PROVE  [Lossy!Next]_(Lossy!lvars)
<1>1. ASSUME UNCHANGED <<cache, entry, written>> PROVE UNCHANGED Lossy!lvars
  BY <1>1 DEF Lossy!lvars, Contents, Live
<1>2. ASSUME NEW t \in Threads, NEW k \in Keys, Look(t, k) \/ Get(t, k) \/ FindExpired(t, k)
      PROVE  UNCHANGED Lossy!lvars
  BY <1>1, <1>2 DEF Look, Get, FindExpired, vars
<1>3. ASSUME NEW t \in Threads, NEW k \in Keys, NEW v \in Values, Set(t, k, v) PROVE Lossy!Next
  BY <1>3, RefreshRefines, InsertRefines DEF Set, Lossy!Next
<1>4. CASE UNCHANGED vars
  BY <1>1, <1>4 DEF vars
<1> QED
  BY <1>2, <1>3, <1>4, DeleteRefines, RemoveExpiredRefines, ExpireRefines DEF Next, Lossy!Next

\* local.go implements the lossy cache: it only ever forgets.
THEOREM Refinement == Spec => ImplementsLossyCache
<1>1. Inductive /\ Inductive' /\ [Next]_vars => [Lossy!Next]_(Lossy!lvars)
  BY StepRefines
<1> QED
  BY <1>1, InitRefines, Invariance, PTL DEF Spec, ImplementsLossyCache, Lossy!Spec
===============================================================================
