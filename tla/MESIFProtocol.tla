--------------------------- MODULE MESIFProtocol ---------------------------
(***************************************************************************)
(* MESIF::MESIFProtocol (mesif_protocol.h).  The last reader of a shared   *)
(* block is its FORWARD-er; only a line in M, E or F supplies data to      *)
(* another cache.                                                          *)
(***************************************************************************)
EXTENDS CoherenceProtocol

MESIFState == {"INVALID", "SHARED", "EXCLUSIVE", "MODIFIED", "FORWARD"}

\* The header has its own copy of the set and cache classes, equal to the
\* ones of module L1Cache.
MESIF_allocate(cache, addr) == allocate_line(cache, addr)

MESIF_handle_processor_request(caches, id, addr, is_write) ==
  LET line  == StateOf(caches[id], addr)
      cache == get_line(caches[id], addr)
  IN  CASE line = "INVALID" ->
             [is_hit |-> FALSE, cache |-> cache,
              bus_action |-> IF is_write THEN "BUS_RDX" ELSE "BUS_RD"]
        [] line \in {"SHARED", "FORWARD"} /\ is_write ->
             [is_hit |-> FALSE, cache |-> cache, bus_action |-> "BUS_UPGR"]
        [] OTHER ->
             [is_hit |-> TRUE, bus_action |-> "NONE",
              cache |-> IF is_write THEN SetState(cache, addr, "MODIFIED")
                                    ELSE cache]

\* Mutant: the old forwarder does not step down.
MESIF_SnoopState_keeps_F(type, state) ==
  CASE type \in {"BUS_RDX", "BUS_UPGR"} -> "INVALID"
    [] type = "BUS_RD" /\ state # "FORWARD" -> "SHARED"
    [] OTHER -> state

\* The state a valid snooped line moves to: M, E and F all fall to S when
\* another core reads the block.
MESIF_SnoopState(type, state) ==
  CASE type \in {"BUS_RDX", "BUS_UPGR"} -> "INVALID"
    [] type = "BUS_RD" -> "SHARED"
    [] OTHER -> state

\* The state of the line the requester allocates.
MESIF_FillState(type, shared_signal) ==
  CASE type = "BUS_RD" /\ shared_signal -> "FORWARD"
    [] type = "BUS_RD" /\ ~shared_signal -> "EXCLUSIVE"
    [] OTHER -> "MODIFIED"

MESIF_handle_bus_transaction(caches, req_id, type, addr) ==
  LET holders        == Holders(caches, req_id, addr)
      shared_signal  == holders # {}
      supplier_found == \E i \in holders :
                          StateOf(caches[i], addr) \in
                            {"MODIFIED", "EXCLUSIVE", "FORWARD"}
      snooped        == [i \in DOMAIN caches |->
                           IF i = req_id THEN caches[i]
                           ELSE SnoopLine(caches[i], addr,
                                  MESIF_SnoopState(type,
                                                   StateOf(caches[i], addr)))]
      signalled      == IF type \in {"BUS_RDX", "BUS_UPGR"} THEN holders ELSE {}
      fill           == MESIF_allocate(caches[req_id], addr)
  IN  CASE type = "WRITEBACK" -> WritebackResult(snooped)
        [] type = "BUS_UPGR"  ->
             UpgradeResult(snooped, req_id, addr, "MODIFIED", 0, signalled, 0)
        [] OTHER ->
             FillResult(snooped, req_id, addr, fill,
                        MESIF_FillState(type, shared_signal), signalled,
                        supplier_found, fill.evicted = "MODIFIED")

=============================================================================
