------------------------- MODULE CoherenceProtocol -------------------------
(***************************************************************************)
(* The interface every protocol implements (class CoherenceProtocol of     *)
(* coherence_defs.h) and the parts of handle_bus_transaction that the five *)
(* protocol headers share.                                                 *)
(*                                                                         *)
(* "caches" is the protocol's vector of L1 caches, a function from core    *)
(* to cache.  handle_processor_request touches the cache of one core only  *)
(* and returns                                                             *)
(*   [is_hit, bus_action, cache]                                           *)
(* handle_bus_transaction may touch every cache and returns                *)
(*   [caches, latency, signalled, cache_to_cache, writeback, traffic]      *)
(* where signalled is the set of cores whose copy the transaction          *)
(* invalidated (updated, in Dragon), and the last three are what it adds   *)
(* to the global statistics.                                               *)
(***************************************************************************)
EXTENDS L1Cache

BusTransactionType == {"BUS_RD", "BUS_RDX", "BUS_UPGR", "WRITEBACK", "NONE"}

\* The cores, other than the requester, that hold a valid copy: the shared
\* signal of the bus is raised when there is one.
Holders(caches, req_id, addr) ==
  {i \in DOMAIN caches \ {req_id} : StateOf(caches[i], addr) # "INVALID"}

\* The WRITEBACK branch: no cache changes state.  No caller issues it - the
\* writeback of a victim is charged to the transaction that evicts it.
WritebackResult(caches) ==
  [caches |-> caches, latency |-> 100, signalled |-> {},
   cache_to_cache |-> FALSE, writeback |-> TRUE, traffic |-> BlockSize]

\* The BUS_UPGR branch: the requester's own line is looked up again and
\* written through the pointer, which the code assumes is not null.
UpgradeResult(caches, req_id, addr, state, latency, signalled, traffic) ==
  [caches         |-> [caches EXCEPT ![req_id] =
                         SetState(get_line(caches[req_id], addr), addr, state)],
   latency        |-> latency,
   signalled      |-> signalled,
   cache_to_cache |-> FALSE,
   writeback      |-> FALSE,
   traffic        |-> traffic]

\* The BUS_RD / BUS_RDX branch: "fill" is what allocate() returned for the
\* requester, whose new line gets the given state.
FillResult(caches, req_id, addr, fill, state, signalled, c2c, writeback) ==
  [caches         |-> [caches EXCEPT ![req_id] =
                         SetState(fill.cache, addr, state)],
   latency        |-> FillLatency(c2c, writeback),
   signalled      |-> signalled,
   cache_to_cache |-> c2c,
   writeback      |-> writeback,
   traffic        |-> FillTraffic(writeback)]

=============================================================================
