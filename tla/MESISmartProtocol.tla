------------------------- MODULE MESISmartProtocol -------------------------
(***************************************************************************)
(* MESI_SMART::MESISmartProtocol (mesi_smart.h): the states and            *)
(* transitions of MESI over SmartCacheSet, whose allocate() prefers a      *)
(* clean victim.  The header repeats the MESI code instead of reusing it.  *)
(***************************************************************************)
EXTENDS CoherenceProtocol

SmartState == {"INVALID", "SHARED", "EXCLUSIVE", "MODIFIED"}

\* Mutant: the scan stops one item short of the most recently used one.
SmartVictim_short_scan(set) ==
  LET clean == SelectLastInSeq(set.lru_order,
                 LAMBDA tag : LineState(set, tag) # "MODIFIED")
  IN  IF clean > 1 THEN clean ELSE Len(set.lru_order)

\* The position of the victim: the clean tag nearest to the back of the
\* list (a tag without a line is looked up as lines[*it], hence INVALID and
\* clean), or the back of the list when every line is MODIFIED.
SmartVictim(set) ==
  LET clean == SelectLastInSeq(set.lru_order,
                 LAMBDA tag : LineState(set, tag) # "MODIFIED")
  IN  IF clean # 0 THEN clean ELSE Len(set.lru_order)

SmartAllocate(set, tag) ==
  LET full == Cardinality(DOMAIN set.lines) >= Assoc
      i    == SmartVictim(set)
  IN  [set     |-> Install(IF full THEN Evict(set, i) ELSE set, tag),
       evicted |-> IF full THEN LineState(set, set.lru_order[i])
                           ELSE "INVALID"]

SmartAllocateLine(cache, addr) ==
  LET res == SmartAllocate(cache[set_idx(addr)], tag_of(addr))
  IN  [cache   |-> [cache EXCEPT ![set_idx(addr)] = res.set],
       evicted |-> res.evicted]

Smart_handle_processor_request(caches, id, addr, is_write) ==
  LET line  == StateOf(caches[id], addr)
      cache == get_line(caches[id], addr)
  IN  CASE line = "INVALID" ->
             [is_hit |-> FALSE, cache |-> cache,
              bus_action |-> IF is_write THEN "BUS_RDX" ELSE "BUS_RD"]
        [] line = "SHARED" /\ is_write ->
             [is_hit |-> FALSE, cache |-> cache, bus_action |-> "BUS_UPGR"]
        [] OTHER ->
             [is_hit |-> TRUE, bus_action |-> "NONE",
              cache |-> IF is_write THEN SetState(cache, addr, "MODIFIED")
                                    ELSE cache]

\* The state a valid snooped line moves to.
Smart_SnoopState(type, state) ==
  CASE type \in {"BUS_RDX", "BUS_UPGR"} -> "INVALID"
    [] type = "BUS_RD" /\ state \in {"MODIFIED", "EXCLUSIVE"} -> "SHARED"
    [] OTHER -> state

\* The state of the line the requester allocates.
Smart_FillState(type, shared_signal) ==
  CASE type = "BUS_RD" /\ shared_signal -> "SHARED"
    [] type = "BUS_RD" /\ ~shared_signal -> "EXCLUSIVE"
    [] OTHER -> "MODIFIED"

Smart_handle_bus_transaction(caches, req_id, type, addr) ==
  LET holders       == Holders(caches, req_id, addr)
      shared_signal == holders # {}
      snooped       == [i \in DOMAIN caches |->
                          IF i = req_id THEN caches[i]
                          ELSE SnoopLine(caches[i], addr,
                                 Smart_SnoopState(type,
                                                  StateOf(caches[i], addr)))]
      signalled     == IF type \in {"BUS_RDX", "BUS_UPGR"} THEN holders ELSE {}
      fill          == SmartAllocateLine(caches[req_id], addr)
  IN  CASE type = "WRITEBACK" -> WritebackResult(snooped)
        [] type = "BUS_UPGR"  ->
             UpgradeResult(snooped, req_id, addr, "MODIFIED", 0, signalled, 0)
        [] OTHER ->
             FillResult(snooped, req_id, addr, fill,
                        Smart_FillState(type, shared_signal), signalled,
                        shared_signal, fill.evicted = "MODIFIED")

=============================================================================
