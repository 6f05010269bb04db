----------------------------- MODULE Coherence -----------------------------
(***************************************************************************)
(* The coherence state machine without time: the private caches of all     *)
(* cores, the requests that wait for the bus, and the two calls the        *)
(* simulator makes into the protocol.                                      *)
(*                                                                         *)
(* A core whose request waits is blocked and issues nothing.  The protocol *)
(* is called when the access is issued (Hit, Miss) and, for a miss, again  *)
(* when the bus is granted (Grant); any number of transactions of other    *)
(* cores may come in between, so a request may find another cache state    *)
(* than the one it was chosen for.  Which waiting request is granted next  *)
(* is left open here; module Simulator has the arbitration and the clock   *)
(* and implements this specification.                                      *)
(***************************************************************************)
EXTENDS ProtocolSelection

VARIABLES
  caches,       \* the protocol's caches: core -> set index -> set
  bus_queue     \* the waiting requests, at most one per core

vars == <<caches, bus_queue>>

-----------------------------------------------------------------------------
\* A BusRequest; its arrival time is part of module Simulator.
Request ==
  [core_id : Cores, type : {"BUS_RD", "BUS_RDX", "BUS_UPGR"}, addr : Addrs]

blocked(c) == \E req \in bus_queue : req.core_id = c

Init ==
  /\ caches = [c \in Cores |-> EmptyCache]
  /\ bus_queue = {}

\* The access is served by the core's own cache.
Hit(c, addr, is_write) ==
  /\ ~blocked(c)
  /\ LET resp == handle_processor_request(caches, c, addr, is_write)
     IN  /\ resp.is_hit
         /\ caches' = [caches EXCEPT ![c] = resp.cache]
  /\ UNCHANGED bus_queue

\* The access needs the bus: the core blocks and its request is queued.
Miss(c, addr, is_write) ==
  /\ ~blocked(c)
  /\ LET resp == handle_processor_request(caches, c, addr, is_write)
     IN  /\ ~resp.is_hit
         /\ caches' = [caches EXCEPT ![c] = resp.cache]
         /\ bus_queue' = bus_queue \cup
              {[core_id |-> c, type |-> resp.bus_action, addr |-> addr]}

\* The bus is granted to a waiting request: all caches snoop it and the
\* requester's line is upgraded or filled, in one atomic step.
Grant(req) ==
  /\ caches' = handle_bus_transaction(caches, req.core_id, req.type,
                                      req.addr).caches
  /\ bus_queue' = bus_queue \ {req}

Next ==
  \/ \E c \in Cores : \E addr \in TraceAddrs[c], is_write \in BOOLEAN :
       Hit(c, addr, is_write) \/ Miss(c, addr, is_write)
  \/ \E req \in bus_queue : Grant(req)

Spec == Init /\ [][Next]_vars

-----------------------------------------------------------------------------
(***************************************************************************)
(* Types.                                                                  *)
(***************************************************************************)
\* Caches hold tags of trace addresses in states of the selected protocol,
\* and the bus queue holds read, read-exclusive and upgrade requests only:
\* the WRITEBACK branch of the protocols is never reached.
TypeOK ==
  /\ caches = [c \in Cores |-> caches[c]]
  /\ \A c \in Cores : CacheOK(caches[c])
  /\ bus_queue \subseteq Request

-----------------------------------------------------------------------------
(***************************************************************************)
(* Safety.                                                                 *)
(***************************************************************************)
Valid(c, a) == StateOf(caches[c], a) # "INVALID"

Dirty(c, a) == StateOf(caches[c], a) \in DirtyStates

\* A core that may write a block silently (E or M) is the only one with a
\* valid copy, whatever transactions ran between a request and its grant:
\* the snooping loops of handle_bus_transaction leave no copy behind.
ExclusiveCopy ==
  \A c, d \in Cores, a \in Addrs :
    c # d /\ StateOf(caches[c], a) \in WritableStates => ~Valid(d, a)

\* At most one cache owns or forwards a shared block (O, F or Sm); the
\* role migrates with BUS_RD in MESIF and with updates in Dragon.
SingleOwner ==
  \A c, d \in Cores, a \in Addrs :
    c # d /\ StateOf(caches[c], a) \in OwnerStates
      => StateOf(caches[d], a) \notin OwnerStates

\* A core waits at most once, so a grant answers the access it blocks on.
OneRequestPerCore ==
  \A r, s \in bus_queue : r.core_id = s.core_id => r = s

\* When an upgrade is granted the requester's line is still resident, so
\* the pointer handle_bus_transaction writes through is not null.
UpgradeFindsLine ==
  \A r \in bus_queue :
    r.type = "BUS_UPGR" => Resident(caches[r.core_id], r.addr)

\* An upgrade that waits still has a valid copy to upgrade.
UpgradeHoldsCopy ==
  \A r \in bus_queue : r.type = "BUS_UPGR" => Valid(r.core_id, r.addr)

\* A set never holds more lines than it has ways.
SetWithinAssoc ==
  \A c \in Cores, i \in SetIndices :
    Cardinality(DOMAIN caches[c][i].lines) <= Assoc

-----------------------------------------------------------------------------
(***************************************************************************)
(* Action properties.  The first three are stated of one step; a run says  *)
(* for which protocols every step must have them.                          *)
(***************************************************************************)
Vanishes(c, a) == Resident(caches[c], a) /\ ~Resident(caches'[c], a)

\* The transaction the bus performs in a step, if it performs one.
Granted(req) == req \in bus_queue /\ bus_queue' = bus_queue \ {req}

TransactionOf(req) ==
  handle_bus_transaction(caches, req.core_id, req.type, req.addr)

\* A transaction is charged for a writeback exactly when it throws a dirty
\* line out of the requester's cache - also when the LRU list names the
\* victim twice or names a tag without a line.
ChargesWriteback ==
  \A req \in bus_queue : Granted(req) =>
    (TransactionOf(req).writeback <=>
       \E a \in Addrs : Dirty(req.core_id, a) /\ Vanishes(req.core_id, a))

\* Dirty data stays in some cache until its line is evicted: no snoop,
\* invalidation or migration of ownership loses the only dirty copy.
\* (MESI, MESIF and SMART clean a block when another core reads it.)
KeepsDirtyData ==
  \A a \in Addrs :
    (\E c \in Cores : Dirty(c, a)) /\ ~(\E c \in Cores : Dirty(c, a)')
      => \E c \in Cores : Dirty(c, a) /\ Vanishes(c, a)

\* Smart eviction: a dirty line is only evicted from a set in which every
\* line is dirty.
EvictsCleanFirst ==
  \A c \in Cores, a \in Addrs :
    Dirty(c, a) /\ Vanishes(c, a)
      => \A b \in Addrs :
           set_idx(b) = set_idx(a) /\ Resident(caches[c], b) => Dirty(c, b)

\* A step of one core never makes a line disappear from another core's
\* cache: snooping invalidates but does not evict.
EvictsOwnLinesOnly ==
  [][\A c \in Cores, a \in Addrs :
       Vanishes(c, a) => \E req \in bus_queue : req.core_id = c /\ Granted(req)]_vars

=============================================================================
