---------------------------- MODULE StoreHistory ----------------------------
(***************************************************************************)
(* Coherence with a history variable: which of the waiting requests were   *)
(* issued by a store.  The code forgets this - a bus request only carries  *)
(* its type - so what a store promises can only be stated with it.         *)
(***************************************************************************)
EXTENDS Coherence

VARIABLE storing    \* the blocked cores whose access is a store

historyVars == <<caches, bus_queue, storing>>

HistoryInit == Init /\ storing = {}

HistoryNext ==
  \/ \E c \in Cores : \E addr \in TraceAddrs[c], is_write \in BOOLEAN :
       \/ Hit(c, addr, is_write) /\ UNCHANGED storing
       \/ /\ Miss(c, addr, is_write)
          /\ storing' = IF is_write THEN storing \cup {c} ELSE storing
  \/ \E req \in bus_queue :
       Grant(req) /\ storing' = storing \ {req.core_id}

HistorySpec == HistoryInit /\ [][HistoryNext]_historyVars

-----------------------------------------------------------------------------
\* When the transaction of a store is done the writer's line is dirty, so
\* that its data is written back when it is evicted - even if other cores
\* wrote the block while the request waited for the bus.
StoreLeavesLineDirty ==
  \A req \in bus_queue :
    Granted(req) /\ req.core_id \in storing
      => StateOf(caches'[req.core_id], req.addr) \in DirtyStates

StoreLeavesDirty == [][StoreLeavesLineDirty]_historyVars

=============================================================================
