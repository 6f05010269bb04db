---------------------------- MODULE MESIProtocol ----------------------------
(***************************************************************************)
(* MESI::MESIProtocol (mesi_protocol.h): states, the processor side and    *)
(* the bus side.                                                           *)
(***************************************************************************)
EXTENDS CoherenceProtocol

MESIState == {"INVALID", "SHARED", "EXCLUSIVE", "MODIFIED"}

MESI_handle_processor_request(caches, id, addr, is_write) ==
  LET line  == StateOf(caches[id], addr)
      cache == get_line(caches[id], addr)
  IN  CASE line = "INVALID" ->
             [is_hit |-> FALSE, cache |-> cache,
              bus_action |-> IF is_write THEN "BUS_RDX" ELSE "BUS_RD"]
        [] line = "SHARED" /\ is_write ->
             [is_hit |-> FALSE, cache |-> cache, bus_action |-> "BUS_UPGR"]
        [] OTHER ->
             [is_hit |-> TRUE, bus_action |-> "NONE",
              cache |-> IF is_write THEN SetState(cache, addr, "MODIFIED")
                                    ELSE cache]

\* The state a valid snooped line moves to.
MESI_SnoopState(type, state) ==
  CASE type \in {"BUS_RDX", "BUS_UPGR"} -> "INVALID"
    [] type = "BUS_RD" /\ state \in {"MODIFIED", "EXCLUSIVE"} -> "SHARED"
    [] OTHER -> state

\* The state of the line the requester allocates.
MESI_FillState(type, shared_signal) ==
  CASE type = "BUS_RD" /\ shared_signal -> "SHARED"
    [] type = "BUS_RD" /\ ~shared_signal -> "EXCLUSIVE"
    [] OTHER -> "MODIFIED"

MESI_handle_bus_transaction(caches, req_id, type, addr) ==
  LET holders       == Holders(caches, req_id, addr)
      shared_signal == holders # {}
      snooped       == [i \in DOMAIN caches |->
                          IF i = req_id THEN caches[i]
                          ELSE SnoopLine(caches[i], addr,
                                 MESI_SnoopState(type, StateOf(caches[i], addr)))]
      signalled     == IF type \in {"BUS_RDX", "BUS_UPGR"} THEN holders ELSE {}
      fill          == allocate_line(caches[req_id], addr)
  IN  CASE type = "WRITEBACK" -> WritebackResult(snooped)
        [] type = "BUS_UPGR"  ->
             UpgradeResult(snooped, req_id, addr, "MODIFIED", 0, signalled, 0)
        [] OTHER ->
             FillResult(snooped, req_id, addr, fill,
                        MESI_FillState(type, shared_signal), signalled,
                        shared_signal, fill.evicted = "MODIFIED")

=============================================================================
