------------------------------ MODULE LossyCache ------------------------------
(***************************************************************************)
(* What a cache promises its users: it may forget any entry at any time    *)
(* (expiry, eviction), but what a lookup returns is what was last put      *)
(* under that key and not deleted since.  It never mixes up keys and never *)
(* brings back an overwritten, deleted or forgotten value.                 *)
(***************************************************************************)
CONSTANTS Keys, Values, Absent

VARIABLES
    written,  \* last value put under each key and not deleted since
    contents  \* what a lookup of each key returns

lvars == <<written, contents>>

Init ==
    /\ written = [k \in Keys |-> Absent]
    /\ contents = [k \in Keys |-> Absent]

\* Other entries than k's may be forgotten, none is changed.
OnlyForgets(ks) == \A j \in ks : contents'[j] \in {contents[j], Absent}

Put(k, v) ==
    /\ written' = [written EXCEPT ![k] = v]
    /\ contents' \in [Keys -> Values \cup {Absent}]
    /\ contents'[k] = v
    /\ OnlyForgets(Keys \ {k})

Delete(k) ==
    /\ written' = [written EXCEPT ![k] = Absent]
    /\ contents' = [contents EXCEPT ![k] = Absent]

Forget ==
    /\ UNCHANGED written
    /\ contents' \in [Keys -> Values \cup {Absent}]
    /\ OnlyForgets(Keys)

Next ==
    \/ Forget
    \/ \E k \in Keys : Delete(k)
    \/ \E k \in Keys, v \in Values : Put(k, v)

Spec == Init /\ [][Next]_lvars
===============================================================================
