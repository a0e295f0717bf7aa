---------------------------- MODULE AdminCacheHistory ----------------------------
(***************************************************************************)
(* The admin handlers with a history variable that remembers whether       *)
(* everything so far went in good order.                                   *)
(***************************************************************************)
EXTENDS AdminCache

VARIABLE
    only   \* the node all requests went to, one after the other; None once disturbed

\* What can leave an old row in the cache: a request that overlaps another or goes
\* to another node, a write under one of two ids that are truncated to the same row,
\* a change to a row that is not acknowledged or falls into another request, a query
\* answered by a replica that lags, and an entry that Redis did not delete.  Create is
\* none of these.
Disturbance ==
    \/ \E p \in Procs :
         /\ pc[p] = "idle" /\ pc'[p] # "idle"
         /\ NodeOf[p] # only \/ \E q \in Procs : pc[q] # "idle"
    \/ \E p \in Procs :
         /\ pc[p] = "idle" /\ pc'[p] = "del1"
         /\ \E id \in Ids \ {key'[p]} : RowOf(id) = RowOf(key'[p])
    \/ /\ \E r \in Rows : Found(master[r]) /\ master'[r] # master[r]
       /\ pc' = pc \/ \E q \in Procs : pc[q] # "idle"
    \/ \E p \in Procs : pc[p] = "query" /\ pc'[p] # "query" /\ ReadDB # master
    \/ \E p \in Procs : pc[p] = "del2" /\ pc'[p] # "del2" /\ l2'[key[p]] # None

HistoryInit == Init /\ only \in Nodes
HistoryNext == Next /\ only' = IF Disturbance THEN None ELSE only
HistorySpec == HistoryInit /\ [][HistoryNext]_<<vars, only>>

\* One of these must have happened before a row older than the database is left in
\* either level: the reads, fills and invalidations of the handler are otherwise in
\* the right order for every sequence of requests, expiries and Redis errors.
StaleOnlyAfterDisturbance == only # None => RowsFreshWhenQuiet
===============================================================================
