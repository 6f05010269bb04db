--------------------------- MODULE DragonProtocol ---------------------------
(***************************************************************************)
(* Dragon::DragonProtocol (dragon_protocol.h), the update protocol: a      *)
(* write to a shared block broadcasts one word (BUS_UPGR stands for        *)
(* BusUpdate) and no copy is ever invalidated.                             *)
(***************************************************************************)
EXTENDS CoherenceProtocol

DragonState ==
  {"INVALID", "SHARED_CLEAN", "SHARED_MODIFIED", "EXCLUSIVE", "MODIFIED"}

\* The header has its own copy of the set and cache classes, equal to the
\* ones of module L1Cache.
Dragon_allocate(cache, addr) == allocate_line(cache, addr)

\* A write miss fetches the block with the same BUS_RD as a read miss.
Dragon_handle_processor_request(caches, id, addr, is_write) ==
  LET line  == StateOf(caches[id], addr)
      cache == get_line(caches[id], addr)
  IN  CASE line = "INVALID" ->
             [is_hit |-> FALSE, cache |-> cache, bus_action |-> "BUS_RD"]
        [] line \in {"SHARED_CLEAN", "SHARED_MODIFIED"} /\ is_write ->
             [is_hit |-> FALSE, cache |-> cache, bus_action |-> "BUS_UPGR"]
        [] OTHER ->
             [is_hit |-> TRUE, bus_action |-> "NONE",
              cache |-> IF is_write /\ line = "EXCLUSIVE"
                        THEN SetState(cache, addr, "MODIFIED")
                        ELSE cache]

\* The state a valid snooped line moves to.
Dragon_SnoopState(type, state) ==
  CASE type = "BUS_UPGR" /\ state = "SHARED_MODIFIED" -> "SHARED_CLEAN"
    [] type = "BUS_RD" /\ state = "EXCLUSIVE" -> "SHARED_CLEAN"
    [] type = "BUS_RD" /\ state = "MODIFIED" -> "SHARED_MODIFIED"
    [] OTHER -> state

\* Mutant: an update always ends in MODIFIED.
Dragon_UpdateState_alone(shared_signal) == "MODIFIED"

\* The state of the requester's line after an update, and after a fill.
Dragon_UpdateState(shared_signal) ==
  IF shared_signal THEN "SHARED_MODIFIED" ELSE "MODIFIED"

Dragon_FillState(shared_signal) ==
  IF shared_signal THEN "SHARED_CLEAN" ELSE "EXCLUSIVE"

Dragon_handle_bus_transaction(caches, req_id, type, addr) ==
  LET holders       == Holders(caches, req_id, addr)
      shared_signal == holders # {}
      snooped       == [i \in DOMAIN caches |->
                          IF i = req_id THEN caches[i]
                          ELSE SnoopLine(caches[i], addr,
                                 Dragon_SnoopState(type,
                                                   StateOf(caches[i], addr)))]
      fill          == Dragon_allocate(caches[req_id], addr)
  IN  CASE type = "WRITEBACK" -> WritebackResult(snooped)
        [] type = "BUS_UPGR"  ->
             UpgradeResult(snooped, req_id, addr,
                           Dragon_UpdateState(shared_signal), 2, holders, 4)
        [] OTHER ->
             FillResult(snooped, req_id, addr, fill,
                        Dragon_FillState(shared_signal), {}, shared_signal,
                        fill.evicted \in {"MODIFIED", "SHARED_MODIFIED"})

=============================================================================
