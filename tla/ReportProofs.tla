---------------------------- MODULE ReportProofs ----------------------------
(***************************************************************************)
(* The figures of the report, for every number of cores, every trace and   *)
(* every protocol: what the counters of a core and of the bus add up to,   *)
(* that the cores' totals agree with the bus, and that the busy cycles of  *)
(* a core fit into the execution time.                                     *)
(***************************************************************************)
EXTENDS SimulatorProofs, WellFoundedInduction

-----------------------------------------------------------------------------
(***************************************************************************)
(* The inductive invariant.                                                *)
(***************************************************************************)
Counters ==
  [compute_cycles : Nat, load_count : Nat, store_count : Nat,
   cache_hits : Nat, cache_misses : Nat,
   invalidations_sent : Nat, invalidations_received : Nat,
   private_accesses : Nat, shared_accesses : Nat]

GlobalCounters ==
  [total_data_traffic_bytes : Nat, total_invalidations : Nat,
   bus_reads : Nat, bus_readx : Nat, bus_upgrades : Nat,
   bus_writebacks : Nat, cache_to_cache_transfers : Nat]

CountersOK == stats \in [Cores -> Counters] /\ global_stats \in GlobalCounters

\* The cycles a core has been busy for: an access that hits takes one, in
\* Dragon every access does.
BusyCycles(st) ==
  st.compute_cycles + IF Protocol = "DRAGON" THEN st.load_count + st.store_count
                      ELSE st.cache_hits

\* A core is never busy for longer than the time of its continuation; the
\* miss that waits in Dragon is counted before its cycle has passed.
BusyWithin(c) ==
  /\ \A e \in EventsOf(c) : BusyCycles(stats[c]) <= e.timestamp
  /\ \A req \in RequestsOf(c) :
       /\ req.arrival_time <= current_time
       /\ BusyCycles(stats[c])
            <= req.arrival_time + IF Protocol = "DRAGON" THEN 1 ELSE 0
  /\ trace_exhausted[c] => BusyCycles(stats[c]) <= current_time

BusyInv == \A c \in Cores : BusyWithin(c)

ReportInv == CountersOK /\ AccessesCounted /\ TrafficAccounted /\ BusyInv

-----------------------------------------------------------------------------
(***************************************************************************)
(* What an access and a transaction add to the counters.                   *)
(***************************************************************************)
\* An access is counted once as a load or store, and once as a hit, private
\* or shared, or a miss.
LEMMA CountAccessFacts ==
  ASSUME NEW st \in Counters, NEW w \in BOOLEAN, NEW resp,
         resp.is_hit \in BOOLEAN, NEW line
  PROVE  LET new == CountAccess(st, w, resp, line)
         IN  /\ new \in Counters
             /\ new.compute_cycles = st.compute_cycles
             /\ new.load_count + new.store_count
                  = st.load_count + st.store_count + 1
             /\ new.cache_hits + new.cache_misses
                  = st.cache_hits + st.cache_misses + 1
             /\ resp.is_hit => new.cache_hits = st.cache_hits + 1
             /\ ~resp.is_hit => new.cache_hits = st.cache_hits
             /\ new.private_accesses + new.shared_accesses - new.cache_hits
                  = st.private_accesses + st.shared_accesses - st.cache_hits
<1> DEFINE new == CountAccess(st, w, resp, line)
           p == resp.is_hit /\ line \in WritableStates
           q == resp.is_hit /\ line \notin WritableStates
<1>1. /\ st.compute_cycles \in Nat /\ st.load_count \in Nat
      /\ st.store_count \in Nat /\ st.cache_hits \in Nat
      /\ st.cache_misses \in Nat /\ st.private_accesses \in Nat
      /\ st.shared_accesses \in Nat
  BY DEF Counters
<1>2. /\ new.compute_cycles = st.compute_cycles
      /\ new.load_count = st.load_count + One(~w)
      /\ new.store_count = st.store_count + One(w)
      /\ new.cache_hits = st.cache_hits + One(resp.is_hit)
      /\ new.cache_misses = st.cache_misses + One(~resp.is_hit)
      /\ new.private_accesses = st.private_accesses + One(p)
      /\ new.shared_accesses = st.shared_accesses + One(q)
  BY DEF CountAccess, Counters
<1>3. \A b : One(b) \in Nat
  BY DEF One
<1>4. new \in Counters
  <2>1. ASSUME NEW x1 \in Nat, NEW x2 \in Nat, NEW x3 \in Nat, NEW x4 \in Nat,
               NEW x5 \in Nat, NEW x6 \in Nat
        PROVE  [st EXCEPT !.load_count = @ + x1, !.store_count = @ + x2,
                          !.cache_hits = @ + x3, !.cache_misses = @ + x4,
                          !.private_accesses = @ + x5,
                          !.shared_accesses = @ + x6] \in Counters
    <3>1. /\ st.load_count + x1 \in Nat /\ st.store_count + x2 \in Nat
          /\ st.cache_hits + x3 \in Nat /\ st.cache_misses + x4 \in Nat
          /\ st.private_accesses + x5 \in Nat /\ st.shared_accesses + x6 \in Nat
      BY <1>1
    <3> QED BY <3>1, Zenon DEF Counters
  <2> QED BY <1>3, <2>1 DEF CountAccess
<1>5. /\ One(~w) + One(w) = 1
      /\ One(resp.is_hit) + One(~resp.is_hit) = 1
      /\ One(p) + One(q) = One(resp.is_hit)
      /\ resp.is_hit => One(resp.is_hit) = 1
      /\ ~resp.is_hit => One(resp.is_hit) = 0
  BY DEF One
<1> HIDE DEF new, p, q
<1> QED BY <1>1, <1>2, <1>3, <1>4, <1>5 DEF new

\* What a transaction reports to the statistics.
LEMMA TransactionFacts ==
  ASSUME NEW cs, DOMAIN cs = Cores, NEW c, NEW a,
         NEW type \in {"BUS_RD", "BUS_RDX", "BUS_UPGR"}
  PROVE  LET res == handle_bus_transaction(cs, c, type, a)
         IN  /\ res.signalled \subseteq Cores
             /\ res.writeback \in BOOLEAN
             /\ type = "BUS_UPGR" =>
                  /\ ~res.writeback
                  /\ res.traffic = IF Protocol = "DRAGON" THEN 4 ELSE 0
             /\ type # "BUS_UPGR" =>
                  res.traffic = IF res.writeback THEN 2 * BlockSize
                                ELSE BlockSize
<1>1. Holders(cs, c, a) \subseteq Cores
  BY DEF Holders
<1> USE <1>1 DEF handle_bus_transaction, UpgradeResult, FillResult, FillTraffic
<1>2. CASE Protocol = "MESI"
  BY <1>2 DEF MESI_handle_bus_transaction
<1>3. CASE Protocol = "DRAGON"
  <2> DEFINE wb == Dragon_allocate(cs[c], a).evicted
                     \in {"MODIFIED", "SHARED_MODIFIED"}
  <2>1. wb \in BOOLEAN
    OBVIOUS
  <2> HIDE DEF wb
  <2>2. CASE type = "BUS_UPGR"
    BY <1>3, <2>2 DEF Dragon_handle_bus_transaction
  <2>3. CASE type # "BUS_UPGR"
    <3>1. /\ handle_bus_transaction(cs, c, type, a).writeback = wb
          /\ handle_bus_transaction(cs, c, type, a).signalled = {}
          /\ handle_bus_transaction(cs, c, type, a).traffic = FillTraffic(wb)
      BY <1>3, <2>3 DEF Dragon_handle_bus_transaction, wb
    <3> QED BY ONLY <2>1, <2>3, <3>1 DEF FillTraffic
  <2> QED BY <2>2, <2>3
<1>4. CASE Protocol = "MESIF"
  BY <1>4 DEF MESIF_handle_bus_transaction
<1>5. CASE Protocol = "SMART"
  BY <1>5 DEF Smart_handle_bus_transaction
<1>6. CASE Protocol = "MOESI"
  <2> DEFINE wb == MOESI_allocate(cs[c], a).evicted \in {"MODIFIED", "OWNED"}
  <2>1. wb \in BOOLEAN
    OBVIOUS
  <2> HIDE DEF wb
  <2>2. CASE type = "BUS_UPGR"
    BY <1>6, <2>2 DEF MOESI_handle_bus_transaction
  <2>3. CASE type # "BUS_UPGR"
    <3>1. /\ handle_bus_transaction(cs, c, type, a).writeback = wb
          /\ handle_bus_transaction(cs, c, type, a).signalled \subseteq Cores
          /\ handle_bus_transaction(cs, c, type, a).traffic = FillTraffic(wb)
      BY <1>6, <2>3 DEF MOESI_handle_bus_transaction, wb
    <3> QED BY ONLY <2>1, <2>3, <3>1 DEF FillTraffic
  <2> QED BY <2>2, <2>3
<1> QED BY ONLY <1>2, <1>3, <1>4, <1>5, <1>6, ProtocolAssumption

\* The counters of what the core itself has done are the same.
SameWork(st, new) ==
  /\ new.compute_cycles = st.compute_cycles
  /\ new.load_count = st.load_count
  /\ new.store_count = st.store_count
  /\ new.cache_hits = st.cache_hits
  /\ new.cache_misses = st.cache_misses
  /\ new.private_accesses = st.private_accesses
  /\ new.shared_accesses = st.shared_accesses

\* The signals of a transaction leave those counters alone.
LEMMA CountSignalsFacts ==
  ASSUME CountersOK, NEW c \in Cores, NEW S \in SUBSET Cores
  PROVE  /\ CountSignals(c, S) \in [Cores -> Counters]
         /\ \A d \in Cores : SameWork(stats[d], CountSignals(c, S)[d])
<1>1. Cardinality(S) \in Nat
  BY SimulatorAssumption, FS_Subset, FS_CardinalityType
<1>2. ASSUME NEW d \in Cores
      PROVE  /\ stats[d] \in Counters
             /\ CountSignals(c, S)[d]
                  = [stats[d] EXCEPT
                       !.invalidations_received = @ + One(d \in S),
                       !.invalidations_sent =
                         @ + IF d = c /\ Protocol # "DRAGON"
                             THEN Cardinality(S) ELSE 0]
  BY DEF CountersOK, CountSignals
<1>3. CountSignals(c, S) = [d \in Cores |-> CountSignals(c, S)[d]]
  BY DEF CountSignals
<1>4. ASSUME NEW d \in Cores
      PROVE  /\ CountSignals(c, S)[d] \in Counters
             /\ SameWork(stats[d], CountSignals(c, S)[d])
  <2> DEFINE x == One(d \in S)
             y == IF d = c /\ Protocol # "DRAGON" THEN Cardinality(S) ELSE 0
  <2>1. x \in Nat /\ y \in Nat
    BY <1>1 DEF One
  <2> HIDE DEF x, y
  <2>2. /\ stats[d] \in Counters
        /\ CountSignals(c, S)[d]
             = [stats[d] EXCEPT !.invalidations_received = @ + x,
                                !.invalidations_sent = @ + y]
    BY <1>2 DEF x, y
  <2>3. CountSignals(c, S)[d] \in Counters
    <3>1. /\ stats[d].invalidations_received + x \in Nat
          /\ stats[d].invalidations_sent + y \in Nat
      BY <2>1, <2>2 DEF Counters
    <3> QED BY <2>2, <3>1, Zenon DEF Counters
  <2>4. SameWork(stats[d], CountSignals(c, S)[d])
    BY <2>2 DEF Counters, SameWork
  <2> QED BY <2>3, <2>4
<1> QED BY <1>3, <1>4

\* One transaction adds its blocks, its writeback and its word to the
\* traffic, as TrafficAccounted says.
LEMMA CountTransactionFacts ==
  ASSUME CountersOK, TrafficAccounted, NEW type \in {"BUS_RD", "BUS_RDX", "BUS_UPGR"},
         NEW res, res.signalled \subseteq Cores, res.writeback \in BOOLEAN,
         type = "BUS_UPGR" =>
           ~res.writeback /\ res.traffic = IF Protocol = "DRAGON" THEN 4 ELSE 0,
         type # "BUS_UPGR" =>
           res.traffic = IF res.writeback THEN 2 * BlockSize ELSE BlockSize,
         global_stats' = CountTransaction(global_stats, type, res)
  PROVE  global_stats' \in GlobalCounters /\ TrafficAccounted'
<1> DEFINE g == global_stats
<1>1. /\ g.total_data_traffic_bytes \in Nat /\ g.total_invalidations \in Nat
      /\ g.bus_reads \in Nat /\ g.bus_readx \in Nat /\ g.bus_upgrades \in Nat
      /\ g.bus_writebacks \in Nat /\ g.cache_to_cache_transfers \in Nat
  BY DEF CountersOK, GlobalCounters
<1>2. Cardinality(res.signalled) \in Nat
  BY SimulatorAssumption, FS_Subset, FS_CardinalityType
<1>3. BlockSize \in Nat
  BY SizeAssumption
<1>4. \A b : One(b) \in Nat
  BY DEF One
<1>5. res.traffic \in Nat
  BY <1>3
<1>6. global_stats' \in GlobalCounters
  BY <1>1, <1>2, <1>4, <1>5 DEF CountTransaction, GlobalCounters
<1>7. TrafficAccounted'
  <2> DEFINE n == g.bus_reads + g.bus_readx + g.bus_writebacks
             m == One(type = "BUS_RD") + One(type = "BUS_RDX") + One(res.writeback)
             n2 == g'.bus_reads + g'.bus_readx + g'.bus_writebacks
  <2>1. n \in Nat /\ m \in Nat /\ n2 = n + m
    BY <1>1, <1>4 DEF CountTransaction
  <2>2. BlockSize * n2 = BlockSize * n + BlockSize * m
    BY <1>3, <2>1
  <2>3. res.traffic = BlockSize * m
                        + IF Protocol = "DRAGON" /\ type = "BUS_UPGR" THEN 4 ELSE 0
    <3>1. CASE type = "BUS_UPGR"
      BY <1>3, <3>1 DEF One
    <3>2. CASE type # "BUS_UPGR" /\ res.writeback
      BY <1>3, <3>2 DEF One
    <3>3. CASE type # "BUS_UPGR" /\ ~res.writeback
      BY <1>3, <3>3 DEF One
    <3> QED BY <3>1, <3>2, <3>3
  <2>4. /\ g'.total_data_traffic_bytes = g.total_data_traffic_bytes + res.traffic
        /\ g'.bus_upgrades = g.bus_upgrades + One(type = "BUS_UPGR")
    BY DEF CountTransaction
  <2>5. g.total_data_traffic_bytes
          = BlockSize * n + IF Protocol = "DRAGON" THEN 4 * g.bus_upgrades ELSE 0
    BY DEF TrafficAccounted
  <2>6. BlockSize * n \in Nat /\ BlockSize * m \in Nat
    BY <1>3, <2>1
  <2> HIDE DEF n, m, n2
  <2>7. g'.total_data_traffic_bytes
          = BlockSize * n2
              + IF Protocol = "DRAGON" THEN 4 * g'.bus_upgrades ELSE 0
    BY <1>1, <1>5, <2>1, <2>2, <2>3, <2>4, <2>5, <2>6 DEF One
  <2> QED BY <2>7 DEF TrafficAccounted, n2
<1> QED BY <1>6, <1>7

-----------------------------------------------------------------------------
(***************************************************************************)
(* The steps.                                                              *)
(***************************************************************************)
\* Busy cycles are a number.
LEMMA BusyType ==
  ASSUME CountersOK, NEW c \in Cores
  PROVE  BusyCycles(stats[c]) \in Nat
<1>1. stats[c] \in Counters
  BY DEF CountersOK
<1> QED BY <1>1 DEF BusyCycles, Counters

\* A step that replaces event e by the events of N and sends core c on: for
\* the other cores only time passes.
SendsOn(e, c, N) ==
  /\ current_time' = e.timestamp
  /\ DOMAIN events' \subseteq (DOMAIN events \ {e}) \cup N
  /\ \A f \in N : f.core_id \in Cores => f.core_id = c
  /\ \A d \in Cores \ {c} :
       /\ BusyCycles(stats'[d]) = BusyCycles(stats[d])
       /\ RequestsOf(d)' \subseteq RequestsOf(d)
       /\ trace_exhausted'[d] = trace_exhausted[d]

\* Such a step keeps the bound of every core.
LEMMA BusyStep ==
  ASSUME TypeOK, BusInv, CountersOK, BusyInv, NEW e \in DOMAIN events, Top(e),
         NEW c, NEW N, SendsOn(e, c, N), c \in Cores => BusyWithin(c)'
  PROVE  BusyInv'
<1>1. current_time \in Nat /\ e.timestamp \in Nat /\ current_time <= e.timestamp
  BY EventFacts, TopFacts DEF TypeOK
<1> USE DEF SendsOn
<1>2. ASSUME NEW d \in Cores \ {c}
      PROVE  BusyWithin(d)'
  <2> DEFINE b == BusyCycles(stats[d])
  <2>1. b \in Nat /\ BusyCycles(stats'[d]) = b
    BY BusyType
  <2>2. EventsOf(d)' \subseteq EventsOf(d)
    BY DEF EventsOf
  <2>3. /\ \A f \in EventsOf(d) : b <= f.timestamp
        /\ \A req \in RequestsOf(d) :
             /\ req.arrival_time <= current_time
             /\ b <= req.arrival_time + IF Protocol = "DRAGON" THEN 1 ELSE 0
        /\ trace_exhausted[d] => b <= current_time
    BY DEF BusyInv, BusyWithin
  <2>4. \A req \in RequestsOf(d) : req.arrival_time \in Nat
    BY DEF RequestsOf, TypeOK, BusRequest
  <2>5. /\ RequestsOf(d)' \subseteq RequestsOf(d)
        /\ trace_exhausted'[d] = trace_exhausted[d]
    OBVIOUS
  <2> HIDE DEF b
  <2>6. \A req \in RequestsOf(d) : req.arrival_time <= current_time'
    BY <1>1, <2>3, <2>4
  <2>7. trace_exhausted'[d] => b <= current_time'
    BY <1>1, <2>1, <2>3, <2>5
  <2> QED BY <2>1, <2>2, <2>3, <2>5, <2>6, <2>7 DEF BusyWithin
<1> HIDE DEF SendsOn
<1> QED BY <1>2 DEF BusyInv

\* The steps that count nothing.
LEMMA CountsUnchanged ==
  ASSUME CountersOK, AccessesCounted, TrafficAccounted,
         UNCHANGED <<stats, global_stats>>
  PROVE  CountersOK' /\ AccessesCounted' /\ TrafficAccounted'
BY DEF CountersOK, AccessesCounted, TrafficAccounted

\* BusReleaseEvent::execute.
LEMMA ReleaseReport ==
  ASSUME TypeOK, BusInv, ReportInv, NEW e \in DOMAIN events, Top(e),
         current_time' = e.timestamp, BusRelease(e)
  PROVE  ReportInv'
<1> DEFINE N == {BusArbitrationEvent(e.timestamp)}
<1>1. DOMAIN events' \subseteq (DOMAIN events \ {e}) \cup N
  BY QueueDomain DEF BusRelease
<1>2. \A f \in N : f.core_id = -1
  BY DEF BusArbitrationEvent
<1>3. UNCHANGED <<stats, global_stats, bus_queue, trace_exhausted>>
  BY DEF BusRelease
<1>4. -1 \notin Cores
  BY NoCore
<1> HIDE DEF N
<1>5. \A d \in Cores : /\ BusyCycles(stats'[d]) = BusyCycles(stats[d])
                      /\ RequestsOf(d)' \subseteq RequestsOf(d)
                      /\ trace_exhausted'[d] = trace_exhausted[d]
  BY <1>3 DEF RequestsOf
<1>6. CountersOK /\ BusyInv
  BY DEF ReportInv
<1>7. BusyInv'
  <2>1. SendsOn(e, -1, N)
    BY <1>1, <1>2, <1>5 DEF SendsOn
  <2> QED BY <1>4, <1>6, <2>1, BusyStep
<1> QED BY <1>3, <1>7, CountsUnchanged DEF ReportInv

\* CoreUnblockEvent::execute.
LEMMA UnblockReport ==
  ASSUME TypeOK, CoresInv, BusInv, ReportInv, NEW e \in DOMAIN events, Top(e),
         current_time' = e.timestamp, CoreUnblock(e)
  PROVE  ReportInv'
<1> DEFINE c == e.core_id
           N == {FetchEvent(c, e.timestamp)}
<1>1. DOMAIN events' \subseteq (DOMAIN events \ {e}) \cup N
  BY QueueDomain DEF CoreUnblock
<1>2. \A f \in N : f.core_id = c /\ f.timestamp = e.timestamp
  BY DEF FetchEvent
<1>3. /\ UNCHANGED <<stats, global_stats, bus_queue, trace_exhausted>>
      /\ e.kind = "CoreUnblock"
  BY DEF CoreUnblock
<1>4. /\ c \in Cores /\ EventsOf(c) = {e} /\ RequestsOf(c) = {}
      /\ trace_exhausted[c] = FALSE
  BY <1>3, CoreEventFacts
<1>5. BusyCycles(stats[c]) <= e.timestamp
  BY <1>4 DEF ReportInv, BusyInv, BusyWithin
<1> HIDE DEF N
<1>6. EventsOf(c)' \subseteq N
  BY <1>1, <1>4 DEF EventsOf
<1>7. RequestsOf(c)' = {}
  BY <1>3, <1>4 DEF RequestsOf
<1>8. \A d \in Cores \ {c} : /\ BusyCycles(stats'[d]) = BusyCycles(stats[d])
                            /\ RequestsOf(d)' \subseteq RequestsOf(d)
                            /\ trace_exhausted'[d] = trace_exhausted[d]
  BY <1>3 DEF RequestsOf
<1>9. CountersOK /\ BusyInv
  BY DEF ReportInv
<1>10. BusyWithin(c)'
  BY <1>2, <1>3, <1>4, <1>5, <1>6, <1>7 DEF BusyWithin
<1> HIDE DEF c
<1>11. BusyInv'
  <2>1. SendsOn(e, c, N)
    BY <1>1, <1>2, <1>8 DEF SendsOn
  <2> QED BY <1>9, <1>10, <2>1, BusyStep
<1> QED BY <1>3, <1>11, CountsUnchanged DEF ReportInv

\* FetchEvent::execute at the end of the trace.
LEMMA EndReport ==
  ASSUME TypeOK, CoresInv, BusInv, ReportInv, NEW e \in DOMAIN events, Top(e),
         current_time' = e.timestamp, e.kind = "Fetch", FetchEnd(e.core_id, e)
  PROVE  ReportInv'
<1> DEFINE c == e.core_id
<1>1. DOMAIN events' \subseteq (DOMAIN events \ {e}) \cup {}
  BY QueueDomain DEF FetchEnd
<1>2. /\ UNCHANGED <<stats, global_stats, bus_queue>>
      /\ trace_exhausted' = [trace_exhausted EXCEPT ![c] = TRUE]
  BY DEF FetchEnd
<1>3. c \in Cores /\ EventsOf(c) = {e} /\ RequestsOf(c) = {}
  BY CoreEventFacts
<1>4. BusyCycles(stats[c]) <= e.timestamp
  BY <1>3 DEF ReportInv, BusyInv, BusyWithin
<1>5. EventsOf(c)' = {} /\ RequestsOf(c)' = {}
  BY <1>1, <1>2, <1>3 DEF EventsOf, RequestsOf
<1>6. \A d \in Cores \ {c} : trace_exhausted'[d] = trace_exhausted[d]
  BY <1>2 DEF TypeOK
<1>7. \A d \in Cores \ {c} : /\ BusyCycles(stats'[d]) = BusyCycles(stats[d])
                            /\ RequestsOf(d)' \subseteq RequestsOf(d)
                            /\ trace_exhausted'[d] = trace_exhausted[d]
  BY <1>2, <1>6 DEF RequestsOf
<1>8. CountersOK /\ BusyInv
  BY DEF ReportInv
<1>9. BusyWithin(c)'
  BY <1>2, <1>4, <1>5 DEF BusyWithin
<1> HIDE DEF c
<1>10. BusyInv'
  <2>1. SendsOn(e, c, {})
    BY <1>1, <1>7 DEF SendsOn
  <2> QED BY <1>8, <1>9, <2>1, BusyStep
<1> QED BY <1>2, <1>10, CountsUnchanged DEF ReportInv

\* A step in which core c, which was on top of the queue, counts its work.
LEMMA WorkCounted ==
  ASSUME CountersOK, AccessesCounted, TrafficAccounted, NEW c \in Cores,
         NEW st \in Counters, stats' = [stats EXCEPT ![c] = st],
         UNCHANGED global_stats,
         st.cache_hits + st.cache_misses = st.load_count + st.store_count,
         st.private_accesses + st.shared_accesses = st.cache_hits
  PROVE  /\ CountersOK' /\ AccessesCounted' /\ TrafficAccounted'
         /\ stats'[c] = st
         /\ \A d \in Cores \ {c} :
              BusyCycles(stats'[d]) = BusyCycles(stats[d])
<1>1. stats'[c] = st /\ \A d \in Cores \ {c} : stats'[d] = stats[d]
  BY DEF CountersOK
<1>2. CountersOK'
  BY DEF CountersOK
<1>3. AccessesCounted'
  BY <1>1 DEF AccessesCounted
<1>4. TrafficAccounted'
  BY DEF TrafficAccounted
<1> QED BY <1>1, <1>2, <1>3, <1>4

\* FetchEvent::execute of a compute record.
LEMMA ComputeReport ==
  ASSUME TypeOK, CoresInv, BusInv, ReportInv, NEW e \in DOMAIN events, Top(e),
         current_time' = e.timestamp, e.kind = "Fetch",
         NEW val \in ComputeCycles, FetchCompute(e.core_id, e, val)
  PROVE  ReportInv'
<1> DEFINE c == e.core_id
           st == [stats[c] EXCEPT !.compute_cycles = @ + val]
           N == {FetchEvent(c, e.timestamp + val)}
<1>1. DOMAIN events' \subseteq (DOMAIN events \ {e}) \cup N
  BY QueueDomain DEF FetchCompute
<1>2. \A f \in N : f.core_id = c /\ f.timestamp = e.timestamp + val
  BY DEF FetchEvent
<1>3. /\ stats' = [stats EXCEPT ![c] = st]
      /\ UNCHANGED <<global_stats, bus_queue, trace_exhausted>>
  BY DEF FetchCompute
<1>4. /\ c \in Cores /\ e.timestamp \in Nat
      /\ EventsOf(c) = {e} /\ RequestsOf(c) = {} /\ trace_exhausted[c] = FALSE
  BY CoreEventFacts
<1>5. CountersOK /\ AccessesCounted /\ TrafficAccounted /\ BusyInv
  BY DEF ReportInv
<1>6. stats[c] \in Counters /\ BusyCycles(stats[c]) <= e.timestamp /\ val \in Nat
  BY <1>4, <1>5, SimulatorAssumption DEF CountersOK, BusyInv, BusyWithin
<1>7. /\ st \in Counters /\ st.compute_cycles = stats[c].compute_cycles + val
      /\ st.load_count = stats[c].load_count
      /\ st.store_count = stats[c].store_count
      /\ st.cache_hits = stats[c].cache_hits
      /\ st.cache_misses = stats[c].cache_misses
      /\ st.private_accesses = stats[c].private_accesses
      /\ st.shared_accesses = stats[c].shared_accesses
  BY <1>6 DEF Counters
<1> HIDE DEF st
<1>8. BusyCycles(st) <= e.timestamp + val
  BY <1>4, <1>6, <1>7 DEF BusyCycles, Counters
<1>9. /\ st.cache_hits + st.cache_misses = st.load_count + st.store_count
      /\ st.private_accesses + st.shared_accesses = st.cache_hits
  BY <1>4, <1>5, <1>7 DEF AccessesCounted
<1> HIDE DEF c, N
<1>10. /\ CountersOK' /\ AccessesCounted' /\ TrafficAccounted'
       /\ stats'[c] = st
       /\ \A d \in Cores \ {c} :
            BusyCycles(stats'[d]) = BusyCycles(stats[d])
  BY <1>3, <1>4, <1>5, <1>7, <1>9, WorkCounted
<1>11. EventsOf(c)' \subseteq N /\ RequestsOf(c)' = {}
  BY <1>1, <1>3, <1>4 DEF EventsOf, RequestsOf
<1>12. \A d \in Cores \ {c} : /\ BusyCycles(stats'[d]) = BusyCycles(stats[d])
                              /\ RequestsOf(d)' \subseteq RequestsOf(d)
                              /\ trace_exhausted'[d] = trace_exhausted[d]
  BY <1>3, <1>10 DEF RequestsOf
<1>13. BusyWithin(c)'
  <2>1. \A f \in EventsOf(c)' : BusyCycles(stats'[c]) <= f.timestamp
    BY <1>2, <1>8, <1>10, <1>11
  <2>2. trace_exhausted'[c] = FALSE
    BY <1>3, <1>4
  <2> QED BY <1>11, <2>1, <2>2 DEF BusyWithin
<1>14. BusyInv'
  <2>1. SendsOn(e, c, N)
    BY <1>1, <1>2, <1>12 DEF SendsOn
  <2> QED BY <1>5, <1>13, <2>1, BusyStep
<1> QED BY <1>10, <1>14 DEF ReportInv

\* FetchEvent::execute of a load or store.
LEMMA AccessReport ==
  ASSUME TypeOK, CoresInv, BusInv, CP!IInv, ReportInv,
         NEW e \in DOMAIN events, Top(e),
         current_time' = e.timestamp, e.kind = "Fetch",
         NEW a \in TraceAddrs[e.core_id], NEW w \in BOOLEAN,
         FetchAccess(e.core_id, e, a, w)
  PROVE  ReportInv'
<1> DEFINE c == e.core_id
           resp == handle_processor_request(caches, c, a, w)
           st == CountAccess(stats[c], w, resp, StateOf(resp.cache, a))
           req == [core_id |-> c, type |-> resp.bus_action, addr |-> a,
                   arrival_time |-> e.timestamp]
           N == IF resp.is_hit THEN {FetchEvent(c, e.timestamp + 1)}
                ELSE {BusArbitrationEvent(e.timestamp)}
<1>1. /\ stats' = [stats EXCEPT ![c] = st]
      /\ UNCHANGED <<global_stats, trace_exhausted>>
      /\ \/ /\ resp.is_hit
            /\ events' = schedule(pop(e), FetchEvent(c, e.timestamp + 1))
            /\ bus_queue' = bus_queue
         \/ /\ ~resp.is_hit
            /\ events' = IF bus_busy THEN pop(e)
                         ELSE schedule(pop(e), BusArbitrationEvent(e.timestamp))
            /\ bus_queue' = bus_queue \cup {req}
  BY DEF FetchAccess
<1>2. /\ c \in Cores /\ e.timestamp \in Nat
      /\ EventsOf(c) = {e} /\ RequestsOf(c) = {} /\ trace_exhausted[c] = FALSE
  BY CoreEventFacts
<1>3. resp.is_hit \in BOOLEAN
  BY <1>2, ResponseFacts
<1>4. CountersOK /\ AccessesCounted /\ TrafficAccounted /\ BusyInv
  BY DEF ReportInv
<1>5. stats[c] \in Counters /\ BusyCycles(stats[c]) <= e.timestamp
  BY <1>2, <1>4 DEF CountersOK, BusyInv, BusyWithin
<1> HIDE DEF resp
<1>6. DOMAIN events' \subseteq (DOMAIN events \ {e}) \cup N
  <2>1. CASE resp.is_hit
    <3>1. events' = schedule(pop(e), FetchEvent(c, e.timestamp + 1))
      BY <1>1, <2>1
    <3>2. N = {FetchEvent(c, e.timestamp + 1)}
      BY <2>1
    <3> HIDE DEF N
    <3> QED BY <3>1, <3>2, QueueDomain
  <2>2. CASE ~resp.is_hit
    BY <1>1, <2>2, QueueDomain
  <2> QED BY <2>1, <2>2
<1>7. \A f \in N : /\ f.core_id \in Cores => f.core_id = c
                   /\ f.core_id = c => resp.is_hit /\ f.timestamp = e.timestamp + 1
  BY <1>2, NoCore DEF FetchEvent, BusArbitrationEvent
<1>8. /\ st \in Counters /\ st.compute_cycles = stats[c].compute_cycles
      /\ st.load_count + st.store_count
           = stats[c].load_count + stats[c].store_count + 1
      /\ st.cache_hits + st.cache_misses
           = stats[c].cache_hits + stats[c].cache_misses + 1
      /\ resp.is_hit => st.cache_hits = stats[c].cache_hits + 1
      /\ ~resp.is_hit => st.cache_hits = stats[c].cache_hits
      /\ st.private_accesses + st.shared_accesses - st.cache_hits
           = stats[c].private_accesses + stats[c].shared_accesses
               - stats[c].cache_hits
  BY <1>3, <1>5, CountAccessFacts
<1> HIDE DEF st
<1>9. /\ resp.is_hit => BusyCycles(st) <= e.timestamp + 1
      /\ ~resp.is_hit =>
           BusyCycles(st) <= e.timestamp + IF Protocol = "DRAGON" THEN 1 ELSE 0
  BY <1>2, <1>5, <1>8 DEF BusyCycles, Counters
<1>10. /\ st.cache_hits + st.cache_misses = st.load_count + st.store_count
       /\ st.private_accesses + st.shared_accesses = st.cache_hits
  <2>1. /\ stats[c].cache_hits + stats[c].cache_misses
             = stats[c].load_count + stats[c].store_count
        /\ stats[c].private_accesses + stats[c].shared_accesses
             = stats[c].cache_hits
    BY <1>2, <1>4 DEF AccessesCounted
  <2> QED BY <1>5, <1>8, <2>1 DEF Counters
<1>11. req.core_id = c /\ req.arrival_time = e.timestamp
  OBVIOUS
<1>12. \A r \in RequestsOf(c)' : ~resp.is_hit /\ r.arrival_time = e.timestamp
  BY <1>1, <1>2 DEF RequestsOf
<1>13. \A d \in Cores \ {c} : RequestsOf(d)' \subseteq RequestsOf(d)
  BY <1>1 DEF RequestsOf
<1> HIDE DEF c, N
<1>14. /\ CountersOK' /\ AccessesCounted' /\ TrafficAccounted'
       /\ stats'[c] = st
       /\ \A d \in Cores \ {c} :
            BusyCycles(stats'[d]) = BusyCycles(stats[d])
  BY <1>1, <1>2, <1>4, <1>8, <1>10, WorkCounted
<1>15. \A d \in Cores \ {c} : /\ BusyCycles(stats'[d]) = BusyCycles(stats[d])
                              /\ RequestsOf(d)' \subseteq RequestsOf(d)
                              /\ trace_exhausted'[d] = trace_exhausted[d]
  BY <1>1, <1>13, <1>14
<1>16. EventsOf(c)' \subseteq N /\ \A f \in EventsOf(c)' : f.core_id = c
  BY <1>2, <1>6 DEF EventsOf
<1>17. BusyWithin(c)'
  <2>1. \A f \in EventsOf(c)' : BusyCycles(stats'[c]) <= f.timestamp
    BY <1>7, <1>9, <1>14, <1>16
  <2>2. \A r \in RequestsOf(c)' :
          /\ r.arrival_time <= current_time'
          /\ BusyCycles(stats'[c])
               <= r.arrival_time + IF Protocol = "DRAGON" THEN 1 ELSE 0
    BY <1>2, <1>9, <1>12, <1>14
  <2>3. trace_exhausted'[c] = FALSE
    BY <1>1, <1>2
  <2> QED BY <2>1, <2>2, <2>3 DEF BusyWithin
<1>18. BusyInv'
  <2>1. SendsOn(e, c, N)
    BY <1>6, <1>7, <1>15 DEF SendsOn
  <2> QED BY <1>4, <1>17, <2>1, BusyStep
<1> QED BY <1>14, <1>18 DEF ReportInv

\* Counters that differ in the signals only say the same about the core.
LEMMA SameWorkFacts ==
  ASSUME NEW st, NEW new, SameWork(st, new)
  PROVE  BusyCycles(new) = BusyCycles(st)
BY DEF SameWork, BusyCycles

\* The bus is granted: the requester is unblocked after the latency.
LEMMA GrantReport ==
  ASSUME TypeOK, CoresInv, BusInv, CP!IInv, ReportInv,
         NEW e \in DOMAIN events, Top(e),
         current_time' = e.timestamp, ArbitrationGrant(e)
  PROVE  ReportInv'
<1>1. PICK req \in bus_queue :
        LET res  == handle_bus_transaction(caches, req.core_id, req.type,
                                           req.addr)
            done == e.timestamp + res.latency
        IN  /\ stats' = CountSignals(req.core_id, res.signalled)
            /\ global_stats' = CountTransaction(global_stats, req.type, res)
            /\ LET released == schedule(pop(e), BusReleaseEvent(done))
               IN  events' = IF req.type = "WRITEBACK" THEN released
                             ELSE schedule(released,
                                           CoreUnblockEvent(req.core_id, done))
            /\ bus_queue' = erase(bus_queue, req)
  BY DEF ArbitrationGrant
<1> DEFINE c == req.core_id
           res == handle_bus_transaction(caches, c, req.type, req.addr)
           done == e.timestamp + res.latency
           N == {BusReleaseEvent(done), CoreUnblockEvent(c, done)}
<1>2. /\ c \in Cores /\ req.type \in {"BUS_RD", "BUS_RDX", "BUS_UPGR"}
      /\ req.arrival_time \in Nat /\ req \in RequestsOf(c)
  BY DEF TypeOK, BusRequest, RequestsOf
<1>3. e.timestamp \in Nat /\ current_time \in Nat /\ current_time <= e.timestamp
  BY EventFacts, TopFacts DEF TypeOK
<1>4. DOMAIN caches = Cores
  BY DEF CP!IInv, CP!TypeOK
<1>5. /\ res.signalled \subseteq Cores
      /\ res.writeback \in BOOLEAN
      /\ req.type = "BUS_UPGR" =>
           ~res.writeback /\ res.traffic = IF Protocol = "DRAGON" THEN 4 ELSE 0
      /\ req.type # "BUS_UPGR" =>
           res.traffic = IF res.writeback THEN 2 * BlockSize ELSE BlockSize
  BY <1>2, <1>4, TransactionFacts
<1>6. res.latency \in Nat /\ (Protocol = "DRAGON" => res.latency >= 1)
  BY <1>2, LatencyFacts
<1>7. /\ stats' = CountSignals(c, res.signalled)
      /\ global_stats' = CountTransaction(global_stats, req.type, res)
      /\ events' = schedule(schedule(pop(e), BusReleaseEvent(done)),
                            CoreUnblockEvent(c, done))
      /\ bus_queue' = bus_queue \ {req}
  BY <1>1, <1>2 DEF erase
<1>8. UNCHANGED trace_exhausted
  BY DEF ArbitrationGrant
<1>9. CountersOK /\ AccessesCounted /\ TrafficAccounted /\ BusyInv
  BY DEF ReportInv
<1> HIDE DEF res
<1>10. global_stats' \in GlobalCounters /\ TrafficAccounted'
  BY <1>2, <1>5, <1>7, <1>9, CountTransactionFacts
<1>11. /\ stats' \in [Cores -> Counters]
       /\ \A d \in Cores : SameWork(stats[d], stats'[d])
  BY <1>2, <1>5, <1>7, <1>9, CountSignalsFacts
<1>12. AccessesCounted'
  BY <1>9, <1>11 DEF AccessesCounted, SameWork
<1>13. \A d \in Cores : BusyCycles(stats'[d]) = BusyCycles(stats[d])
  BY <1>11, SameWorkFacts
<1>14. DOMAIN events' \subseteq (DOMAIN events \ {e}) \cup N
  <2> DEFINE rel == BusReleaseEvent(done)
             unb == CoreUnblockEvent(c, done)
  <2> HIDE DEF rel, unb
  <2>1. events' = schedule(schedule(pop(e), rel), unb) /\ N = {rel, unb}
    BY <1>7 DEF rel, unb
  <2> HIDE DEF N
  <2>2. DOMAIN events' = (DOMAIN pop(e) \cup {rel}) \cup {unb}
    BY <2>1, QueueDomain
  <2> QED BY <2>1, <2>2, QueueDomain
<1>15. /\ \A f \in N : f.core_id \in Cores => f.core_id = c
       /\ \A f \in N : f.core_id = c => f.timestamp = done
  BY NoCore DEF BusReleaseEvent, CoreUnblockEvent
<1>16. \A d \in Cores : RequestsOf(d)' \subseteq RequestsOf(d)
  BY <1>7 DEF RequestsOf
<1>17. /\ EventsOf(c) = {} /\ RequestsOf(c) = {req} /\ ~trace_exhausted[c]
  BY <1>2 DEF CoresInv
<1>18. BusyCycles(stats[c]) <= done
  <2>1. /\ req.arrival_time <= current_time
        /\ BusyCycles(stats[c])
             <= req.arrival_time + IF Protocol = "DRAGON" THEN 1 ELSE 0
    BY <1>2, <1>9 DEF BusyInv, BusyWithin
  <2>2. BusyCycles(stats[c]) \in Nat
    BY <1>2, <1>9, BusyType
  <2> QED BY <1>2, <1>3, <1>6, <2>1, <2>2
<1> HIDE DEF N, done, c
<1>19. \A f \in EventsOf(c)' : f \in N /\ f.core_id = c
  BY <1>14, <1>17 DEF EventsOf
<1>20. RequestsOf(c)' = {}
  BY <1>7, <1>16, <1>17 DEF RequestsOf
<1>21. BusyWithin(c)'
  BY <1>2, <1>8, <1>13, <1>15, <1>17, <1>18, <1>19, <1>20 DEF BusyWithin
<1>22. BusyInv'
  <2>1. SendsOn(e, c, N)
    BY <1>8, <1>13, <1>14, <1>15, <1>16 DEF SendsOn
  <2> QED BY <1>9, <1>21, <2>1, BusyStep
<1>23. CountersOK'
  BY <1>10, <1>11 DEF CountersOK
<1> QED BY <1>10, <1>12, <1>22, <1>23 DEF ReportInv

\* One iteration of Simulator::run keeps the figures of the report.
LEMMA NextReport == IInv /\ ReportInv /\ [Next]_vars => ReportInv'
<1> SUFFICES ASSUME IInv, ReportInv, [Next]_vars PROVE ReportInv'
  OBVIOUS
<1>1. TypeOK /\ CoresInv /\ BusInv /\ CP!IInv
  BY DEF IInv
<1>2. ASSUME NEW e \in DOMAIN events, Top(e), current_time' = e.timestamp,
             \/ BusRelease(e) \/ ArbitrationStale(e) \/ ArbitrationGrant(e)
             \/ CoreUnblock(e) \/ Fetch(e)
      PROVE  ReportInv'
  <2>1. CASE BusRelease(e)
    BY <1>1, <1>2, <2>1, ReleaseReport
  <2>2. CASE ArbitrationStale(e)
    BY <1>1, <1>2, <2>2, NoStaleArbitration
  <2>3. CASE ArbitrationGrant(e)
    BY <1>1, <1>2, <2>3, GrantReport
  <2>4. CASE CoreUnblock(e)
    BY <1>1, <1>2, <2>4, UnblockReport
  <2>5. CASE Fetch(e)
    <3>1. e.kind = "Fetch" /\ ~blocked[e.core_id]
      BY <1>1, <1>2, <2>5, CoreEventFacts DEF Fetch
    <3>2. CASE FetchEnd(e.core_id, e)
      BY <1>1, <1>2, <3>1, <3>2, EndReport
    <3>3. ASSUME NEW val \in ComputeCycles, FetchCompute(e.core_id, e, val)
          PROVE  ReportInv'
      BY <1>1, <1>2, <3>1, <3>3, ComputeReport
    <3>4. ASSUME NEW a \in TraceAddrs[e.core_id], NEW w \in BOOLEAN,
                 FetchAccess(e.core_id, e, a, w)
          PROVE  ReportInv'
      BY <1>1, <1>2, <3>1, <3>4, AccessReport
    <3> QED BY <2>5, <3>1, <3>2, <3>3, <3>4 DEF Fetch
  <2> QED BY <1>2, <2>1, <2>2, <2>3, <2>4, <2>5
<1>3. CASE Next
  BY <1>2, <1>3 DEF Next
<1>4. CASE UNCHANGED vars
  BY <1>4 DEF vars, ReportInv, CountersOK, AccessesCounted, TrafficAccounted,
              BusyInv, BusyWithin, EventsOf, RequestsOf
<1> QED BY <1>3, <1>4

\* All counters start at zero.
LEMMA InitReport == Init => ReportInv
<1> SUFFICES ASSUME Init PROVE ReportInv
  OBVIOUS
<1>1. /\ stats = [c \in Cores |-> NoStatistics]
      /\ global_stats = NoGlobalStatistics
      /\ bus_queue = {} /\ current_time = 0
      /\ trace_exhausted = [c \in Cores |-> FALSE]
  BY DEF Init
<1>2. NoStatistics \in Counters /\ NoGlobalStatistics \in GlobalCounters
  BY DEF NoStatistics, Counters, NoGlobalStatistics, GlobalCounters
<1>3. CountersOK
  BY <1>1, <1>2 DEF CountersOK
<1>4. AccessesCounted
  BY <1>1 DEF AccessesCounted, NoStatistics
<1>5. TrafficAccounted
  <2>1. BlockSize \in Nat
    BY SizeAssumption
  <2>2. BlockSize * (0 + 0 + 0) = 0
    BY <2>1
  <2> QED BY <1>1, <2>1, <2>2 DEF TrafficAccounted, NoGlobalStatistics
<1>6. BusyInv
  <2> SUFFICES ASSUME NEW c \in Cores PROVE BusyWithin(c)
    BY DEF BusyInv
  <2>1. BusyCycles(stats[c]) = 0
    BY <1>1 DEF BusyCycles, NoStatistics
  <2>2. \A e \in EventsOf(c) : e.timestamp \in Nat
    BY InitInv, EventFacts DEF EventsOf
  <2> QED BY <1>1, <2>1, <2>2 DEF BusyWithin, RequestsOf
<1> QED BY <1>3, <1>4, <1>5, <1>6 DEF ReportInv

-----------------------------------------------------------------------------
(***************************************************************************)
(* Totals over the cores.  The fold of MapThenSumSet is a recursive        *)
(* function; that it exists, and what it adds up to, is shown by taking a  *)
(* smallest set for which the claim fails.                                 *)
(***************************************************************************)
\* A nonempty family of subsets of a finite set has a minimal member.
LEMMA MinimalSubset ==
  ASSUME NEW S, IsFiniteSet(S), NEW T, T \subseteq SUBSET S, T # {}
  PROVE  \E s \in T : \A t \in SUBSET s : t # s => t \notin T
<1>1. T \subseteq FiniteSubsetsOf(S)
  BY FS_Subset DEF FiniteSubsetsOf
<1>2. PICK s \in T : \A t \in T : ~ (<<t, s>> \in StrictSubsetOrdering(S))
  BY <1>1, FS_StrictSubsetOrderingWellFounded, WFMin
<1>3. ASSUME NEW t \in SUBSET s, t # s
      PROVE  t \notin T
  <2> SUFFICES ASSUME t \in T PROVE FALSE
    OBVIOUS
  <2>1. <<t, s>> \in StrictSubsetOrdering(S)
    BY <1>3 DEF StrictSubsetOrdering
  <2> QED BY <1>2, <2>1
<1> QED BY <1>3, Zenon

\* The member a fold takes from a set first.
First(s) == CHOOSE x \in s : TRUE

\* g sums field fld of the records of v over every subset of S.
SumsUp(g, v, fld, S) ==
  g = [s \in SUBSET S |-> IF s = {} THEN 0
                          ELSE v[First(s)][fld] + g[s \ {First(s)}]]

LEMMA FirstIn == \A s : s # {} => First(s) \in s
BY DEF First

LEMMA SumsUpAt ==
  ASSUME NEW g, NEW v, NEW fld, NEW S, SumsUp(g, v, fld, S), NEW s \in SUBSET S
  PROVE  g[s] = IF s = {} THEN 0 ELSE v[First(s)][fld] + g[s \ {First(s)}]
BY DEF SumsUp

Total(v, fld, S) == (CHOOSE g : SumsUp(g, v, fld, S))[S]

LEMMA TotalIs ==
  ASSUME NEW v, NEW fld, NEW S
  PROVE  MapThenSumSet(LAMBDA x : v[x][fld], S) = Total(v, fld, S)
BY DEF MapThenSumSet, MapThenFoldSet, Total, SumsUp, First

\* Two such functions agree on the sets both are defined on.
LEMMA SumsAgree ==
  ASSUME NEW v, NEW fld, NEW S, IsFiniteSet(S),
         NEW A \in SUBSET S, NEW B \in SUBSET S, NEW g, NEW h,
         SumsUp(g, v, fld, A), SumsUp(h, v, fld, B),
         NEW s \in SUBSET (A \cap B)
  PROVE  g[s] = h[s]
<1> DEFINE T == {t \in SUBSET (A \cap B) : g[t] # h[t]}
<1> SUFFICES ASSUME T # {} PROVE FALSE
  OBVIOUS
<1>1. PICK t \in T : \A u \in SUBSET t : u # t => u \notin T
  <2>1. T \subseteq SUBSET S
    OBVIOUS
  <2> HIDE DEF T
  <2> QED BY <2>1, MinimalSubset
<1>2. t \in SUBSET A /\ t \in SUBSET B
  OBVIOUS
<1>3. CASE t = {}
  BY <1>2, <1>3, SumsUpAt
<1>4. CASE t # {}
  <2>1. First(t) \in t
    BY <1>4, FirstIn
  <2>2. g[t \ {First(t)}] = h[t \ {First(t)}]
    BY <1>1, <2>1
  <2>3. g[t] = v[First(t)][fld] + g[t \ {First(t)}]
    BY <1>2, <1>4, SumsUpAt
  <2>4. h[t] = v[First(t)][fld] + h[t \ {First(t)}]
    BY <1>2, <1>4, SumsUpAt
  <2> QED BY <2>2, <2>3, <2>4
<1> QED BY <1>3, <1>4

\* Over a finite set there is one.
LEMMA SumsExist ==
  ASSUME NEW v, NEW fld, NEW S, IsFiniteSet(S)
  PROVE  \E g : SumsUp(g, v, fld, S)
<1> DEFINE T == {t \in SUBSET S : ~ \E g : SumsUp(g, v, fld, t)}
<1> SUFFICES ASSUME T # {} PROVE FALSE
  OBVIOUS
<1>1. PICK s \in T : \A u \in SUBSET s : u # s => u \notin T
  <2>1. T \subseteq SUBSET S
    OBVIOUS
  <2> HIDE DEF T
  <2> QED BY <2>1, MinimalSubset
<1> DEFINE H(u) == CHOOSE g : SumsUp(g, v, fld, u)
           g == [t \in SUBSET s |->
                   IF t = {} THEN 0
                   ELSE v[First(t)][fld] + H(t \ {First(t)})[t \ {First(t)}]]
<1>2. ASSUME NEW u \in SUBSET s, u # s
      PROVE  SumsUp(H(u), v, fld, u)
  <2>1. \E h : SumsUp(h, v, fld, u)
    BY <1>1, <1>2
  <2> QED BY <2>1, Zenon
<1> HIDE DEF H
<1>3. ASSUME NEW t \in SUBSET s, t # {}
      PROVE  H(t \ {First(t)})[t \ {First(t)}] = g[t \ {First(t)}]
  <2> DEFINE u == t \ {First(t)}
  <2>1. First(t) \in t
    BY <1>3, FirstIn
  <2>2. u \in SUBSET s /\ u # s
    BY <2>1
  <2>3. SumsUp(H(u), v, fld, u)
    BY <1>2, <2>2
  <2>4. H(u)[u] = IF u = {} THEN 0
                  ELSE v[First(u)][fld] + H(u)[u \ {First(u)}]
    <3> HIDE DEF u
    <3> QED BY <2>3, SumsUpAt
  <2>5. g[u] = IF u = {} THEN 0
               ELSE v[First(u)][fld] + H(u \ {First(u)})[u \ {First(u)}]
    BY <2>2
  <2>6. CASE u = {}
    BY <2>4, <2>5, <2>6
  <2>7. CASE u # {}
    <3> DEFINE w == u \ {First(u)}
    <3>1. First(u) \in u
      BY <2>7, FirstIn
    <3>2. w \in SUBSET u /\ w # s /\ w \in SUBSET s
      BY <3>1, <2>2
    <3>3. SumsUp(H(w), v, fld, w)
      BY <1>2, <3>2
    <3>4. w \in SUBSET (u \cap w) /\ u \in SUBSET S /\ w \in SUBSET S
      BY <3>2, <2>2
    <3> HIDE DEF w
    <3>5. H(u)[w] = H(w)[w]
      BY <3>3, <3>4, <2>3, SumsAgree
    <3> QED BY <2>4, <2>5, <2>7, <3>5 DEF w
  <2> QED BY <2>6, <2>7
<1>4. SumsUp(g, v, fld, s)
  <2>1. ASSUME NEW t \in SUBSET s
        PROVE  (IF t = {} THEN 0
                ELSE v[First(t)][fld] + H(t \ {First(t)})[t \ {First(t)}])
               = IF t = {} THEN 0
                 ELSE v[First(t)][fld] + g[t \ {First(t)}]
    BY <1>3, <2>1
  <2> QED BY <2>1 DEF SumsUp
<1> QED BY <1>1, <1>4

\* A total, from the function that sums up.
LEMMA TotalFacts ==
  ASSUME NEW v, NEW fld, NEW S, IsFiniteSet(S)
  PROVE  \E g : SumsUp(g, v, fld, S) /\ g[S] = Total(v, fld, S)
<1>1. SumsUp(CHOOSE g : SumsUp(g, v, fld, S), v, fld, S)
  BY SumsExist, Zenon
<1> QED BY <1>1, Zenon DEF Total

\* A total of integers is an integer.
LEMMA TotalType ==
  ASSUME NEW v, NEW fld, NEW S, IsFiniteSet(S),
         \A x \in S : v[x][fld] \in Int
  PROVE  Total(v, fld, S) \in Int
<1>1. PICK g : SumsUp(g, v, fld, S) /\ g[S] = Total(v, fld, S)
  BY TotalFacts
<1> DEFINE T == {s \in SUBSET S : g[s] \notin Int}
<1> SUFFICES ASSUME T # {} PROVE FALSE
  BY <1>1
<1>2. PICK s \in T : \A u \in SUBSET s : u # s => u \notin T
  <2>1. T \subseteq SUBSET S
    OBVIOUS
  <2> HIDE DEF T
  <2> QED BY <2>1, MinimalSubset
<1>3. g[s] = IF s = {} THEN 0 ELSE v[First(s)][fld] + g[s \ {First(s)}]
  <2>1. s \in SUBSET S
    OBVIOUS
  <2> HIDE DEF T
  <2> QED BY ONLY <1>1, <2>1, SumsUpAt
<1>4. CASE s = {}
  BY <1>3, <1>4
<1>5. CASE s # {}
  <2>1. First(s) \in s
    BY <1>5, FirstIn
  <2>2. g[s \ {First(s)}] \in Int
    BY <1>2, <2>1
  <2> QED BY <1>3, <1>5, <2>1, <2>2
<1> QED BY <1>4, <1>5

\* m measures the subsets of S by what d gives their members.
Measures(m, d, S) ==
  /\ m[{}] = 0
  /\ \A s \in SUBSET S : m[s] \in Int /\ \A x \in s : m[s] = d[x] + m[s \ {x}]

\* In w every member x of S has d[x] more in field fld than in v.
Gains(v, w, fld, d, S) ==
  \A x \in S : /\ v[x][fld] \in Int /\ d[x] \in Int
               /\ w[x][fld] = v[x][fld] + d[x]

\* When every member x of S gains d[x], the total gains the measure
\* of S.
LEMMA TotalShift ==
  ASSUME NEW S, IsFiniteSet(S), NEW fld, NEW v, NEW w, NEW d, NEW m,
         Gains(v, w, fld, d, S), Measures(m, d, S)
  PROVE  Total(w, fld, S) = Total(v, fld, S) + m[S]
<1>1. PICK g : SumsUp(g, v, fld, S) /\ g[S] = Total(v, fld, S)
  BY TotalFacts
<1>2. PICK h : SumsUp(h, w, fld, S) /\ h[S] = Total(w, fld, S)
  BY TotalFacts
<1> DEFINE T == {s \in SUBSET S : ~ (g[s] \in Int /\ h[s] = g[s] + m[s])}
<1> SUFFICES ASSUME T # {} PROVE FALSE
  BY <1>1, <1>2
<1>3. PICK s \in T : \A u \in SUBSET s : u # s => u \notin T
  <2>1. T \subseteq SUBSET S
    OBVIOUS
  <2> HIDE DEF T
  <2> QED BY <2>1, MinimalSubset
<1>4. /\ g[s] = IF s = {} THEN 0 ELSE v[First(s)][fld] + g[s \ {First(s)}]
      /\ h[s] = IF s = {} THEN 0 ELSE w[First(s)][fld] + h[s \ {First(s)}]
  <2>1. s \in SUBSET S
    OBVIOUS
  <2> HIDE DEF T
  <2>2. g[s] = IF s = {} THEN 0 ELSE v[First(s)][fld] + g[s \ {First(s)}]
    BY ONLY <1>1, <2>1, SumsUpAt
  <2>3. h[s] = IF s = {} THEN 0 ELSE w[First(s)][fld] + h[s \ {First(s)}]
    BY ONLY <1>2, <2>1, SumsUpAt
  <2> QED BY ONLY <2>2, <2>3
<1>5. /\ m[{}] = 0
      /\ \A t \in SUBSET S : m[t] \in Int /\ \A x \in t : m[t] = d[x] + m[t \ {x}]
  BY DEF Measures
<1>6. CASE s = {}
  BY <1>4, <1>5, <1>6
<1>7. CASE s # {}
  <2> DEFINE x == First(s)
             u == s \ {x}
  <2>1. x \in s
    BY <1>7, FirstIn
  <2> HIDE DEF x
  <2>2. g[u] \in Int /\ h[u] = g[u] + m[u]
    BY <1>3, <2>1
  <2>3. m[s] = d[x] + m[u] /\ m[u] \in Int
    BY <1>5, <2>1
  <2>4. v[x][fld] \in Int /\ d[x] \in Int /\ w[x][fld] = v[x][fld] + d[x]
    BY <2>1 DEF Gains
  <2>5. g[s] = v[x][fld] + g[u] /\ h[s] = w[x][fld] + h[u]
    BY <1>4, <1>7 DEF x
  <2> HIDE DEF u
  <2>6. g[s] \in Int /\ h[s] = g[s] + m[s]
    BY <2>2, <2>3, <2>4, <2>5
  <2> QED BY <2>6
<1> QED BY <1>6, <1>7

\* In w member c has k more in field fld than in v; each member of A has
\* one more.
GainsAt(v, w, fld, c, k, S) ==
  \A x \in S : /\ v[x][fld] \in Int
               /\ w[x][fld] = v[x][fld] + IF x = c THEN k ELSE 0

GainsIn(v, w, fld, A, S) ==
  /\ A \subseteq S
  /\ \A x \in S : /\ v[x][fld] \in Int
                  /\ w[x][fld] = v[x][fld] + IF x \in A THEN 1 ELSE 0

\* One member gains k.
LEMMA TotalOne ==
  ASSUME NEW S, IsFiniteSet(S), NEW fld, NEW v, NEW w, NEW c \in S, NEW k \in Int,
         GainsAt(v, w, fld, c, k, S)
  PROVE  Total(w, fld, S) = Total(v, fld, S) + k
<1> DEFINE d == [x \in S |-> IF x = c THEN k ELSE 0]
           m == [s \in SUBSET S |-> IF c \in s THEN k ELSE 0]
<1>1. \A x \in S : v[x][fld] \in Int /\ d[x] \in Int
  BY DEF GainsAt
<1>2. Gains(v, w, fld, d, S)
  BY <1>1 DEF Gains, GainsAt
<1>3. m[{}] = 0 /\ m[S] = k
  OBVIOUS
<1>4. \A s \in SUBSET S : m[s] \in Int /\ \A x \in s : m[s] = d[x] + m[s \ {x}]
  OBVIOUS
<1>5. Measures(m, d, S)
  BY <1>3, <1>4 DEF Measures
<1> HIDE DEF d, m
<1>6. Total(w, fld, S) = Total(v, fld, S) + m[S]
  BY ONLY IsFiniteSet(S), <1>2, <1>5, TotalShift
<1> QED BY <1>3, <1>6

\* Each member of A gains one.
LEMMA TotalEach ==
  ASSUME NEW S, IsFiniteSet(S), NEW fld, NEW v, NEW w, NEW A,
         GainsIn(v, w, fld, A, S)
  PROVE  Total(w, fld, S) = Total(v, fld, S) + Cardinality(A)
<1>0. A \subseteq S
  BY DEF GainsIn
<1> DEFINE d == [x \in S |-> IF x \in A THEN 1 ELSE 0]
           m == [s \in SUBSET S |-> Cardinality(s \cap A)]
<1>1. \A x \in S : v[x][fld] \in Int /\ d[x] \in Int
  BY DEF GainsIn
<1>2. Gains(v, w, fld, d, S)
  BY <1>1 DEF Gains, GainsIn
<1>3. m[{}] = 0 /\ m[S] = Cardinality(A)
  <2>1. {} \cap A = {} /\ S \cap A = A
    BY <1>0
  <2>2. m[{}] = Cardinality({}) /\ m[S] = Cardinality(A)
    BY <2>1
  <2> QED BY <2>2, FS_EmptySet
<1>4. ASSUME NEW s \in SUBSET S
      PROVE  m[s] \in Int /\ \A x \in s : m[s] = d[x] + m[s \ {x}]
  <2>1. IsFiniteSet(s \cap A)
    BY FS_Subset
  <2>2. m[s] \in Int
    BY <2>1, FS_CardinalityType
  <2>3. ASSUME NEW x \in s PROVE m[s] = d[x] + m[s \ {x}]
    <3>1. m[s] = Cardinality(s \cap A) /\ m[s \ {x}] = Cardinality((s \ {x}) \cap A)
      OBVIOUS
    <3>2. CASE x \in A
      <4>1. (s \ {x}) \cap A = (s \cap A) \ {x}
        OBVIOUS
      <4>2. Cardinality((s \cap A) \ {x}) = Cardinality(s \cap A) - 1
        BY <2>1, <3>2, FS_RemoveElement
      <4>3. Cardinality(s \cap A) \in Nat
        BY <2>1, FS_CardinalityType
      <4>4. d[x] = 1 /\ m[s \ {x}] = m[s] - 1 /\ m[s] \in Nat
        BY <3>1, <3>2, <4>1, <4>2, <4>3
      <4> QED BY ONLY <4>4
    <3>3. CASE x \notin A
      <4>1. (s \ {x}) \cap A = s \cap A
        BY <3>3
      <4>2. d[x] = 0 /\ m[s \ {x}] = m[s]
        BY <3>1, <3>3, <4>1
      <4> QED BY ONLY <2>2, <4>2
    <3> QED BY <3>2, <3>3
  <2> QED BY <2>2, <2>3
<1>5. Measures(m, d, S)
  BY <1>3, <1>4 DEF Measures
<1> HIDE DEF d, m
<1>6. Total(w, fld, S) = Total(v, fld, S) + m[S]
  BY ONLY IsFiniteSet(S), <1>2, <1>5, TotalShift
<1> QED BY <1>3, <1>6

\* Nobody gains anything.
LEMMA TotalSame ==
  ASSUME NEW S, IsFiniteSet(S), NEW fld, NEW v, NEW w,
         \A x \in S : v[x][fld] \in Int /\ w[x][fld] = v[x][fld]
  PROVE  Total(w, fld, S) = Total(v, fld, S)
<1>1. GainsIn(v, w, fld, {}, S)
  BY DEF GainsIn
<1>2. Total(w, fld, S) = Total(v, fld, S) + Cardinality({})
  BY <1>1, TotalEach
<1> QED BY <1>2, FS_EmptySet, TotalType

\* A total of zeros.
LEMMA TotalZero ==
  ASSUME NEW S, IsFiniteSet(S), NEW fld, NEW v, \A x \in S : v[x][fld] = 0
  PROVE  Total(v, fld, S) = 0
<1>1. PICK g : SumsUp(g, v, fld, S) /\ g[S] = Total(v, fld, S)
  BY TotalFacts
<1> DEFINE T == {s \in SUBSET S : g[s] # 0}
<1> SUFFICES ASSUME T # {} PROVE FALSE
  BY <1>1
<1>2. PICK s \in T : \A u \in SUBSET s : u # s => u \notin T
  <2>1. T \subseteq SUBSET S
    OBVIOUS
  <2> HIDE DEF T
  <2> QED BY <2>1, MinimalSubset
<1>3. g[s] = IF s = {} THEN 0 ELSE v[First(s)][fld] + g[s \ {First(s)}]
  <2>1. s \in SUBSET S
    OBVIOUS
  <2> HIDE DEF T
  <2> QED BY ONLY <1>1, <2>1, SumsUpAt
<1>4. CASE s # {}
  <2>1. First(s) \in s
    BY <1>4, FirstIn
  <2>2. g[s \ {First(s)}] = 0 /\ v[First(s)][fld] = 0
    BY <1>2, <2>1
  <2> QED BY <1>3, <1>4, <2>2
<1> QED BY <1>3, <1>4

-----------------------------------------------------------------------------
(***************************************************************************)
(* The transactions of the bus against the counters of the cores.          *)
(***************************************************************************)
TransactionTotals ==
  LET g == global_stats
  IN  /\ g.bus_reads + g.bus_readx + g.bus_upgrades + Cardinality(bus_queue)
           = Total(stats, "cache_misses", Cores)
      /\ Total(stats, "invalidations_received", Cores) = g.total_invalidations
      /\ Protocol # "DRAGON" =>
           Total(stats, "invalidations_sent", Cores) = g.total_invalidations

TransactionInv == IsFiniteSet(bus_queue) /\ TransactionTotals

\* The sums of the report are these totals.
LEMMA TotalsAreSums == TransactionTotals <=> TransactionsCounted
BY DEF TransactionTotals, TransactionsCounted, MapThenSumSet, MapThenFoldSet,
       Total, SumsUp, First

\* The three fields that are added up hold numbers.
LEMMA SummedFields ==
  ASSUME CountersOK
  PROVE  \A c \in Cores : /\ stats[c]["cache_misses"] \in Int
                          /\ stats[c]["invalidations_received"] \in Int
                          /\ stats[c]["invalidations_sent"] \in Int
<1>1. \A c \in Cores : stats[c] \in Counters
  BY DEF CountersOK
<1> QED BY <1>1 DEF Counters

\* The totals of a step that leaves the fields alone.
LEMMA TotalsUnchanged ==
  ASSUME CountersOK, TransactionInv, UNCHANGED <<bus_queue, global_stats>>,
         \A c \in Cores :
           /\ stats'[c]["cache_misses"] = stats[c]["cache_misses"]
           /\ stats'[c]["invalidations_received"]
                = stats[c]["invalidations_received"]
           /\ stats'[c]["invalidations_sent"] = stats[c]["invalidations_sent"]
  PROVE  TransactionInv'
<1> USE SummedFields, SimulatorAssumption
<1>1. Total(stats', "cache_misses", Cores) = Total(stats, "cache_misses", Cores)
  BY TotalSame
<1>2. Total(stats', "invalidations_received", Cores)
        = Total(stats, "invalidations_received", Cores)
  BY TotalSame
<1>3. Total(stats', "invalidations_sent", Cores)
        = Total(stats, "invalidations_sent", Cores)
  BY TotalSame
<1> QED BY <1>1, <1>2, <1>3 DEF TransactionInv, TransactionTotals

\* A miss is counted and queued, in the same step.
LEMMA AccessTotals ==
  ASSUME TypeOK, CoresInv, CP!IInv, CountersOK, TransactionInv,
         NEW e \in DOMAIN events, e.kind = "Fetch",
         NEW a \in TraceAddrs[e.core_id], NEW w \in BOOLEAN,
         FetchAccess(e.core_id, e, a, w)
  PROVE  TransactionInv'
<1> DEFINE c == e.core_id
           resp == handle_processor_request(caches, c, a, w)
           st == CountAccess(stats[c], w, resp, StateOf(resp.cache, a))
           req == [core_id |-> c, type |-> resp.bus_action, addr |-> a,
                   arrival_time |-> e.timestamp]
<1>1. /\ stats' = [stats EXCEPT ![c] = st]
      /\ UNCHANGED global_stats
      /\ \/ resp.is_hit /\ bus_queue' = bus_queue
         \/ ~resp.is_hit /\ bus_queue' = bus_queue \cup {req}
  BY DEF FetchAccess
<1>2. c \in Cores /\ RequestsOf(c) = {}
  BY CoreEventFacts
<1>3. resp.is_hit \in BOOLEAN
  BY <1>2, ResponseFacts
<1>4. req \notin bus_queue
  BY <1>2 DEF RequestsOf
<1>5. stats[c] \in Counters
  BY <1>2 DEF CountersOK
<1> HIDE DEF resp, req
<1>6. /\ st["cache_misses"] = stats[c]["cache_misses"] + One(~resp.is_hit)
      /\ st["invalidations_received"] = stats[c]["invalidations_received"]
      /\ st["invalidations_sent"] = stats[c]["invalidations_sent"]
  BY <1>5 DEF CountAccess, Counters
<1> HIDE DEF st
<1>7. stats'[c] = st /\ \A d \in Cores \ {c} : stats'[d] = stats[d]
  BY <1>1, <1>2 DEF CountersOK
<1> HIDE DEF c
<1>8. CASE resp.is_hit
  <2>1. One(~resp.is_hit) = 0 /\ bus_queue' = bus_queue
    BY <1>1, <1>8 DEF One
  <2>2. stats[c]["cache_misses"] \in Int
    BY <1>2, SummedFields
  <2> QED BY <1>1, <1>6, <1>7, <2>1, <2>2, TotalsUnchanged
<1>9. CASE ~resp.is_hit
  <2> USE SummedFields, SimulatorAssumption
  <2>1. One(~resp.is_hit) = 1 /\ bus_queue' = bus_queue \cup {req}
    BY <1>1, <1>9 DEF One
  <2>2. Total(stats', "cache_misses", Cores)
          = Total(stats, "cache_misses", Cores) + 1
    <3>1. GainsAt(stats, stats', "cache_misses", c, 1, Cores)
      BY <1>6, <1>7, <2>1 DEF GainsAt
    <3> QED BY ONLY <1>2, <3>1, SimulatorAssumption, TotalOne
  <2>3. Total(stats', "invalidations_received", Cores)
          = Total(stats, "invalidations_received", Cores)
    BY <1>6, <1>7, TotalSame
  <2>4. Total(stats', "invalidations_sent", Cores)
          = Total(stats, "invalidations_sent", Cores)
    BY <1>6, <1>7, TotalSame
  <2>5. /\ IsFiniteSet(bus_queue') /\ Cardinality(bus_queue) \in Nat
        /\ Cardinality(bus_queue') = Cardinality(bus_queue) + 1
    BY <1>4, <2>1, FS_AddElement, FS_CardinalityType DEF TransactionInv
  <2>6. /\ global_stats.bus_reads \in Nat /\ global_stats.bus_readx \in Nat
        /\ global_stats.bus_upgrades \in Nat
    BY DEF CountersOK, GlobalCounters
  <2> QED BY <1>1, <2>2, <2>3, <2>4, <2>5, <2>6
          DEF TransactionInv, TransactionTotals
<1> QED BY <1>3, <1>8, <1>9

\* The request that is granted leaves the queue and is counted as a
\* transaction; every core that is signalled counts one, and the requester
\* as many as there are.
LEMMA GrantTotals ==
  ASSUME TypeOK, CP!IInv, CountersOK, TransactionInv,
         NEW e \in DOMAIN events, ArbitrationGrant(e)
  PROVE  TransactionInv'
<1>1. PICK req \in bus_queue :
        LET res == handle_bus_transaction(caches, req.core_id, req.type,
                                          req.addr)
        IN  /\ stats' = CountSignals(req.core_id, res.signalled)
            /\ global_stats' = CountTransaction(global_stats, req.type, res)
            /\ bus_queue' = erase(bus_queue, req)
  BY DEF ArbitrationGrant
<1> DEFINE c == req.core_id
           res == handle_bus_transaction(caches, c, req.type, req.addr)
           S == res.signalled
           g == global_stats
<1>2. c \in Cores /\ req.type \in {"BUS_RD", "BUS_RDX", "BUS_UPGR"}
  BY DEF TypeOK, BusRequest
<1>3. DOMAIN caches = Cores
  BY DEF CP!IInv, CP!TypeOK
<1>4. S \in SUBSET Cores
  BY <1>2, <1>3, TransactionFacts
<1>5. /\ stats' = CountSignals(c, S)
      /\ g' = CountTransaction(g, req.type, res)
      /\ bus_queue' = bus_queue \ {req}
  BY <1>1 DEF erase
<1> HIDE DEF res
<1>6. Cardinality(S) \in Nat
  BY <1>4, SimulatorAssumption, FS_Subset, FS_CardinalityType
<1>7. /\ g'.bus_reads = g.bus_reads + One(req.type = "BUS_RD")
      /\ g'.bus_readx = g.bus_readx + One(req.type = "BUS_RDX")
      /\ g'.bus_upgrades = g.bus_upgrades + One(req.type = "BUS_UPGR")
      /\ g'.total_invalidations = g.total_invalidations + Cardinality(S)
  BY <1>5 DEF CountTransaction
<1>8. One(req.type = "BUS_RD") + One(req.type = "BUS_RDX")
        + One(req.type = "BUS_UPGR") = 1
  BY <1>2 DEF One
<1>9. ASSUME NEW x \in Cores
      PROVE  /\ stats'[x]["cache_misses"] = stats[x]["cache_misses"]
             /\ stats'[x]["invalidations_received"]
                  = stats[x]["invalidations_received"]
                      + IF x \in S THEN 1 ELSE 0
             /\ Protocol # "DRAGON" =>
                  stats'[x]["invalidations_sent"]
                    = stats[x]["invalidations_sent"]
                        + IF x = c THEN Cardinality(S) ELSE 0
  <2>1. stats[x] \in Counters
    BY DEF CountersOK
  <2>2. stats'[x] = [stats[x] EXCEPT
                       !.invalidations_received = @ + One(x \in S),
                       !.invalidations_sent =
                         @ + IF x = c /\ Protocol # "DRAGON"
                             THEN Cardinality(S) ELSE 0]
    BY <1>5 DEF CountSignals
  <2> HIDE DEF S
  <2> QED BY <2>1, <2>2 DEF Counters, One
<1> HIDE DEF c, S
<1> USE SummedFields, SimulatorAssumption
<1>10. Total(stats', "cache_misses", Cores) = Total(stats, "cache_misses", Cores)
  BY <1>9, TotalSame
<1>11. Total(stats', "invalidations_received", Cores)
         = Total(stats, "invalidations_received", Cores) + Cardinality(S)
  <2>1. GainsIn(stats, stats', "invalidations_received", S, Cores)
    BY <1>4, <1>9 DEF GainsIn
  <2> QED BY ONLY <2>1, SimulatorAssumption, TotalEach
<1>12. Protocol # "DRAGON" =>
         Total(stats', "invalidations_sent", Cores)
           = Total(stats, "invalidations_sent", Cores) + Cardinality(S)
  <2> SUFFICES ASSUME Protocol # "DRAGON"
               PROVE  Total(stats', "invalidations_sent", Cores)
                        = Total(stats, "invalidations_sent", Cores)
                            + Cardinality(S)
    OBVIOUS
  <2>1. GainsAt(stats, stats', "invalidations_sent", c, Cardinality(S), Cores)
    BY <1>9 DEF GainsAt
  <2>2. Cardinality(S) \in Int
    BY <1>6
  <2> QED BY ONLY <1>2, <2>1, <2>2, SimulatorAssumption, TotalOne
<1>13. /\ IsFiniteSet(bus_queue') /\ Cardinality(bus_queue) \in Nat
       /\ Cardinality(bus_queue') = Cardinality(bus_queue) - 1
  BY <1>1, <1>5, FS_RemoveElement, FS_CardinalityType DEF TransactionInv
<1>14. /\ g.bus_reads \in Nat /\ g.bus_readx \in Nat /\ g.bus_upgrades \in Nat
       /\ g.total_invalidations \in Nat
  BY DEF CountersOK, GlobalCounters
<1>15. \A b : One(b) \in Nat
  BY DEF One
<1>16. g'.bus_reads + g'.bus_readx + g'.bus_upgrades + Cardinality(bus_queue')
         = g.bus_reads + g.bus_readx + g.bus_upgrades + Cardinality(bus_queue)
  <2> DEFINE x1 == One(req.type = "BUS_RD")
             x2 == One(req.type = "BUS_RDX")
             x3 == One(req.type = "BUS_UPGR")
  <2>1. x1 \in Nat /\ x2 \in Nat /\ x3 \in Nat /\ x1 + x2 + x3 = 1
    BY <1>8, <1>15
  <2>2. /\ g'.bus_reads = g.bus_reads + x1 /\ g'.bus_readx = g.bus_readx + x2
        /\ g'.bus_upgrades = g.bus_upgrades + x3
    BY <1>7
  <2> HIDE DEF x1, x2, x3
  <2> QED BY ONLY <1>13, <1>14, <2>1, <2>2
<1> QED BY <1>7, <1>10, <1>11, <1>12, <1>13, <1>16
        DEF TransactionInv, TransactionTotals

\* One iteration of Simulator::run keeps the totals.
LEMMA NextTotals ==
  IInv /\ ReportInv /\ TransactionInv /\ [Next]_vars => TransactionInv'
<1> SUFFICES ASSUME IInv, ReportInv, TransactionInv, [Next]_vars
             PROVE  TransactionInv'
  OBVIOUS
<1>1. TypeOK /\ CoresInv /\ BusInv /\ CP!IInv /\ CountersOK
  BY DEF IInv, ReportInv
<1>2. UNCHANGED <<stats, global_stats, bus_queue>> => TransactionInv'
  BY <1>1, TotalsUnchanged
<1>3. ASSUME NEW e \in DOMAIN events, Top(e), current_time' = e.timestamp,
             \/ BusRelease(e) \/ ArbitrationStale(e) \/ ArbitrationGrant(e)
             \/ CoreUnblock(e) \/ Fetch(e)
      PROVE  TransactionInv'
  <2>1. CASE BusRelease(e) \/ ArbitrationStale(e) \/ CoreUnblock(e)
    BY <1>2, <2>1 DEF BusRelease, ArbitrationStale, CoreUnblock
  <2>2. CASE ArbitrationGrant(e)
    BY <1>1, <1>3, <2>2, GrantTotals
  <2>3. CASE Fetch(e)
    <3>1. e.kind = "Fetch" /\ ~blocked[e.core_id] /\ e.core_id \in Cores
      BY <1>1, <1>3, <2>3, CoreEventFacts DEF Fetch
    <3>2. CASE FetchEnd(e.core_id, e)
      BY <1>2, <3>2 DEF FetchEnd
    <3>3. ASSUME NEW val \in ComputeCycles, FetchCompute(e.core_id, e, val)
          PROVE  TransactionInv'
      <4>1. /\ stats' = [stats EXCEPT ![e.core_id].compute_cycles = @ + val]
            /\ UNCHANGED <<bus_queue, global_stats>>
        BY <3>3 DEF FetchCompute
      <4>2. \A c \in Cores :
              /\ stats'[c]["cache_misses"] = stats[c]["cache_misses"]
              /\ stats'[c]["invalidations_received"]
                   = stats[c]["invalidations_received"]
              /\ stats'[c]["invalidations_sent"] = stats[c]["invalidations_sent"]
        BY <1>1, <3>1, <4>1 DEF CountersOK, Counters
      <4> QED BY <1>1, <4>1, <4>2, TotalsUnchanged
    <3>4. ASSUME NEW a \in TraceAddrs[e.core_id], NEW w \in BOOLEAN,
                 FetchAccess(e.core_id, e, a, w)
          PROVE  TransactionInv'
      BY <1>1, <1>3, <3>1, <3>4, AccessTotals
    <3> QED BY <2>3, <3>1, <3>2, <3>3, <3>4 DEF Fetch
  <2> QED BY <1>3, <2>1, <2>2, <2>3
<1>4. CASE Next
  BY <1>3, <1>4 DEF Next
<1>5. CASE UNCHANGED vars
  BY <1>2, <1>5 DEF vars
<1> QED BY <1>4, <1>5

\* No transaction has been done, and none waits.
LEMMA InitTotals == Init => TransactionInv
<1> SUFFICES ASSUME Init PROVE TransactionInv
  OBVIOUS
<1>1. /\ stats = [c \in Cores |-> NoStatistics]
      /\ global_stats = NoGlobalStatistics /\ bus_queue = {}
  BY DEF Init
<1>2. \A c \in Cores : /\ stats[c]["cache_misses"] = 0
                       /\ stats[c]["invalidations_received"] = 0
                       /\ stats[c]["invalidations_sent"] = 0
  BY <1>1 DEF NoStatistics
<1>3. IsFiniteSet(bus_queue) /\ Cardinality(bus_queue) = 0
  BY <1>1, FS_EmptySet
<1> USE SimulatorAssumption
<1>4. Total(stats, "cache_misses", Cores) = 0
  BY <1>2, TotalZero
<1>5. Total(stats, "invalidations_received", Cores) = 0
  BY <1>2, TotalZero
<1>6. Total(stats, "invalidations_sent", Cores) = 0
  BY <1>2, TotalZero
<1>7. /\ global_stats.bus_reads = 0 /\ global_stats.bus_readx = 0
      /\ global_stats.bus_upgrades = 0 /\ global_stats.total_invalidations = 0
  BY <1>1 DEF NoGlobalStatistics
<1> QED BY <1>3, <1>4, <1>5, <1>6, <1>7 DEF TransactionInv, TransactionTotals

-----------------------------------------------------------------------------
(***************************************************************************)
(* The theorems.                                                           *)
(***************************************************************************)
\* The invariant of the report holds in every state of every run.
THEOREM ReportInvariance == Spec => []ReportInv
<1>1. Init => ReportInv
  BY InitReport
<1>2. IInv /\ ReportInv /\ [Next]_vars => ReportInv'
  BY NextReport
<1> QED BY <1>1, <1>2, EngineInvariance, PTL DEF Spec

\* The totals hold in every state of every run.
THEOREM TransactionInvariance == Spec => []TransactionInv
<1>1. Init => TransactionInv
  BY InitTotals
<1>2. IInv /\ ReportInv /\ TransactionInv /\ [Next]_vars => TransactionInv'
  BY NextTotals
<1> QED BY <1>1, <1>2, EngineInvariance, ReportInvariance, PTL DEF Spec

\* Whatever the trace and the number of cores, the report adds up: a core's
\* hits and misses are its loads and stores, and its private and shared
\* accesses its hits; every miss is a bus transaction done or waiting; the
\* invalidations sent and received are the ones the bus counted; and the
\* traffic is what the transactions account for.
THEOREM ReportAddsUp == Spec => []StatisticsConserved
<1>1. ReportInv /\ TransactionInv => StatisticsConserved
  BY TotalsAreSums DEF ReportInv, TransactionInv, StatisticsConserved
<1> QED BY <1>1, ReportInvariance, TransactionInvariance, PTL

\* print_report subtracts a core's busy cycles from the execution time: the
\* difference is never cut off at zero in Dragon, and compute cycles and hits
\* always fit.
THEOREM BusyCyclesBounded == Spec => []BusyCyclesFit
<1>1. IInv /\ ReportInv => BusyCyclesFit
  <2> SUFFICES ASSUME IInv, ReportInv, ~running, NEW c \in Cores
               PROVE  /\ stats[c].compute_cycles + stats[c].cache_hits
                           <= current_time
                      /\ Protocol = "DRAGON" =>
                           idle_cycles(c) + stats[c].compute_cycles
                             + stats[c].load_count + stats[c].store_count
                               = current_time
    BY DEF BusyCyclesFit
  <2>1. trace_exhausted[c]
    BY DEF IInv, RunEndsClean, AllDone
  <2>2. BusyCycles(stats[c]) <= current_time /\ current_time \in Nat
    BY <2>1 DEF ReportInv, BusyInv, BusyWithin, IInv, TypeOK
  <2>3. /\ stats[c].compute_cycles \in Nat /\ stats[c].cache_hits \in Nat
        /\ stats[c].load_count \in Nat /\ stats[c].store_count \in Nat
        /\ stats[c].cache_misses \in Nat
    <3>1. stats[c] \in Counters
      BY DEF ReportInv, CountersOK
    <3> QED BY <3>1 DEF Counters
  <2>4. stats[c].cache_hits + stats[c].cache_misses
          = stats[c].load_count + stats[c].store_count
    BY DEF ReportInv, AccessesCounted
  <2> QED BY <2>2, <2>3, <2>4 DEF BusyCycles, idle_cycles
<1> QED BY <1>1, EngineInvariance, ReportInvariance, PTL
=============================================================================
