------------------------- MODULE ProtocolSelection -------------------------
(***************************************************************************)
(* The coherence protocol as the simulator sees it: one of the five        *)
(* implementations of the interface CoherenceProtocol, selected by the     *)
(* first command line argument, for a number of cores that run traces.     *)
(***************************************************************************)
EXTENDS MESIProtocol, DragonProtocol, MESIFProtocol, MESISmartProtocol,
        MOESIProtocol

CONSTANTS
  Protocol,    \* the protocol named on the command line
  Cores,       \* core ids
  TraceAddrs   \* the byte addresses each core's trace mentions

ASSUME ProtocolAssumption ==
  Protocol \in {"MESI", "DRAGON", "MESIF", "SMART", "MOESI"}

ASSUME TraceAssumption == TraceAddrs \in [Cores -> SUBSET Nat]

Addrs == UNION {TraceAddrs[c] : c \in Cores}

Tags == {tag_of(a) : a \in Addrs}

(***************************************************************************)
(* The protocol object that the constructor of Simulator selects.          *)
(***************************************************************************)
handle_processor_request(cs, id, addr, is_write) ==
  CASE Protocol = "MESI"   ->
         MESI_handle_processor_request(cs, id, addr, is_write)
    [] Protocol = "DRAGON" ->
         Dragon_handle_processor_request(cs, id, addr, is_write)
    [] Protocol = "MESIF"  ->
         MESIF_handle_processor_request(cs, id, addr, is_write)
    [] Protocol = "SMART"  ->
         Smart_handle_processor_request(cs, id, addr, is_write)
    [] Protocol = "MOESI"  ->
         MOESI_handle_processor_request(cs, id, addr, is_write)

handle_bus_transaction(cs, req_id, type, addr) ==
  CASE Protocol = "MESI"   ->
         MESI_handle_bus_transaction(cs, req_id, type, addr)
    [] Protocol = "DRAGON" ->
         Dragon_handle_bus_transaction(cs, req_id, type, addr)
    [] Protocol = "MESIF"  ->
         MESIF_handle_bus_transaction(cs, req_id, type, addr)
    [] Protocol = "SMART"  ->
         Smart_handle_bus_transaction(cs, req_id, type, addr)
    [] Protocol = "MOESI"  ->
         MOESI_handle_bus_transaction(cs, req_id, type, addr)

LineStates ==
  CASE Protocol = "MESI"   -> MESIState
    [] Protocol = "DRAGON" -> DragonState
    [] Protocol = "MESIF"  -> MESIFState
    [] Protocol = "SMART"  -> SmartState
    [] Protocol = "MOESI"  -> MOESIState

\* Type of a set, and of a cache, of the selected protocol.
CacheSetOK(set) ==
  /\ set = [lru_order |-> set.lru_order, lines |-> set.lines]
  /\ set.lines \in [DOMAIN set.lines -> LineStates]
  /\ DOMAIN set.lines \subseteq Tags

CacheOK(cache) ==
  /\ cache = [i \in SetIndices |-> cache[i]]
  /\ \A i \in SetIndices : CacheSetOK(cache[i])

\* States that allow a core to write without using the bus.
WritableStates == {"EXCLUSIVE", "MODIFIED"}

\* States of the one cache that answers for a block that is shared.
OwnerStates == {"OWNED", "FORWARD", "SHARED_MODIFIED"}

\* States of a line whose data memory does not have.
DirtyStates == {"MODIFIED", "OWNED", "SHARED_MODIFIED"}

=============================================================================
