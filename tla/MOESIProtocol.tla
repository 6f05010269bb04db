--------------------------- MODULE MOESIProtocol ---------------------------
(***************************************************************************)
(* MOESI::MOESIProtocol (moesi_protocol.h).  A MODIFIED line that another  *)
(* core reads becomes OWNED instead of being cleaned; only a line in M, E  *)
(* or O supplies data to another cache.                                    *)
(***************************************************************************)
EXTENDS CoherenceProtocol

MOESIState == {"INVALID", "SHARED", "EXCLUSIVE", "MODIFIED", "OWNED"}

\* The header has its own copy of the set and cache classes, equal to the
\* ones of module L1Cache.
MOESI_allocate(cache, addr) == allocate_line(cache, addr)

MOESI_handle_processor_request(caches, id, addr, is_write) ==
  LET line  == StateOf(caches[id], addr)
      cache == get_line(caches[id], addr)
  IN  CASE line = "INVALID" ->
             [is_hit |-> FALSE, cache |-> cache,
              bus_action |-> IF is_write THEN "BUS_RDX" ELSE "BUS_RD"]
        [] line \in {"SHARED", "OWNED"} /\ is_write ->
             [is_hit |-> FALSE, cache |-> cache, bus_action |-> "BUS_UPGR"]
        [] OTHER ->
             [is_hit |-> TRUE, bus_action |-> "NONE",
              cache |-> IF is_write THEN SetState(cache, addr, "MODIFIED")
                                    ELSE cache]

\* Mutants: the MESI rule, which cleans a MODIFIED line without writing it
\* back; an exclusive line that stays exclusive when another core reads.
MOESI_SnoopState_cleans(type, state) ==
  CASE type \in {"BUS_RDX", "BUS_UPGR"} -> "INVALID"
    [] type = "BUS_RD" /\ state \in {"MODIFIED", "EXCLUSIVE"} -> "SHARED"
    [] OTHER -> state

MOESI_SnoopState_keeps_E(type, state) ==
  CASE type \in {"BUS_RDX", "BUS_UPGR"} -> "INVALID"
    [] type = "BUS_RD" /\ state = "MODIFIED" -> "OWNED"
    [] OTHER -> state

\* The state a valid snooped line moves to.
MOESI_SnoopState(type, state) ==
  CASE type \in {"BUS_RDX", "BUS_UPGR"} -> "INVALID"
    [] type = "BUS_RD" /\ state = "MODIFIED" -> "OWNED"
    [] type = "BUS_RD" /\ state = "EXCLUSIVE" -> "SHARED"
    [] OTHER -> state

\* The state of the line the requester allocates.
MOESI_FillState(type, shared_signal) ==
  CASE type = "BUS_RD" /\ shared_signal -> "SHARED"
    [] type = "BUS_RD" /\ ~shared_signal -> "EXCLUSIVE"
    [] OTHER -> "MODIFIED"

MOESI_handle_bus_transaction(caches, req_id, type, addr) ==
  LET holders        == Holders(caches, req_id, addr)
      shared_signal  == holders # {}
      supplier_found == \E i \in holders :
                          StateOf(caches[i], addr) \in
                            {"MODIFIED", "EXCLUSIVE", "OWNED"}
      snooped        == [i \in DOMAIN caches |->
                           IF i = req_id THEN caches[i]
                           ELSE SnoopLine(caches[i], addr,
                                  MOESI_SnoopState(type,
                                                   StateOf(caches[i], addr)))]
      signalled      == IF type \in {"BUS_RDX", "BUS_UPGR"} THEN holders ELSE {}
      fill           == MOESI_allocate(caches[req_id], addr)
  IN  CASE type = "WRITEBACK" -> WritebackResult(snooped)
        [] type = "BUS_UPGR"  ->
             UpgradeResult(snooped, req_id, addr, "MODIFIED", 0, signalled, 0)
        [] OTHER ->
             FillResult(snooped, req_id, addr, fill,
                        MOESI_FillState(type, shared_signal), signalled,
                        supplier_found, fill.evicted \in {"MODIFIED", "OWNED"})

=============================================================================
