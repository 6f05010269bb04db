----------------------------- MODULE Simulator -----------------------------
(***************************************************************************)
(* The discrete-event engine of coherence_simulator.cpp: the event queue,  *)
(* the blocking cores that read their traces, the atomic bus with its      *)
(* arbiter, the selected coherence protocol and the statistics.            *)
(*                                                                         *)
(* Each step is one iteration of the loop of Simulator::run: the earliest  *)
(* event, ties broken by priority, is taken off the queue and executed.    *)
(* Events equal in both are taken in any order (the order that             *)
(* std::priority_queue gives them is unspecified).  Traces are inputs: a   *)
(* fetch may read any record, or the end of the file.                      *)
(***************************************************************************)
EXTENDS ProtocolSelection, Bags

CONSTANTS
  ReadPriority,     \* macro READ_PRIORITY: reads win over other requests
  ComputeCycles,    \* the durations of compute records in the traces
  MaxTrace          \* bound: records per trace

ASSUME SimulatorAssumption ==
  /\ Cores \subseteq Nat
  /\ IsFiniteSet(Cores)
  /\ Cores # {}
  /\ ReadPriority \in BOOLEAN
  /\ ComputeCycles \subseteq Nat
  /\ MaxTrace \in Nat

VARIABLES
  events,             \* the event queue, a bag of events
  current_time,       \* the timestamp of the last event executed
  caches,             \* the protocol's caches
  blocked,            \* CoreState::blocked of each core
  fetched,            \* how many records of each trace have been read
  trace_exhausted,    \* cores that have read the end of their trace
  bus_queue,          \* the waiting requests
  bus_busy,           \* the bus is held by a transaction
  stats,              \* per-core statistics
  global_stats,       \* global statistics
  running             \* the loop of Simulator::run continues

vars == <<events, current_time, caches, blocked, fetched, trace_exhausted,
          bus_queue, bus_busy, stats, global_stats, running>>

-----------------------------------------------------------------------------
(***************************************************************************)
(* Events.  Bus events belong to no core (core_id -1).                     *)
(***************************************************************************)
BusReleaseEvent(t) == [timestamp |-> t, kind |-> "BusRelease", core_id |-> -1]

BusArbitrationEvent(t) ==
  [timestamp |-> t, kind |-> "BusArbitration", core_id |-> -1]

CoreUnblockEvent(c, t) ==
  [timestamp |-> t, kind |-> "CoreUnblock", core_id |-> c]

FetchEvent(c, t) == [timestamp |-> t, kind |-> "Fetch", core_id |-> c]

\* Mutant: fetches come before the bus events of the same cycle.
get_priority_fetch_first(kind) ==
  CASE kind = "Fetch"          -> 0
    [] kind = "CoreUnblock"    -> 1
    [] kind = "BusRelease"     -> 2
    [] kind = "BusArbitration" -> 3

get_priority(kind) ==
  CASE kind = "BusRelease"     -> 0
    [] kind = "BusArbitration" -> 1
    [] kind = "CoreUnblock"    -> 2
    [] kind = "Fetch"          -> 3

\* EventComparator: e comes out of the queue no later than f.
NotLater(e, f) ==
  \/ e.timestamp < f.timestamp
  \/ /\ e.timestamp = f.timestamp
     /\ get_priority(e.kind) <= get_priority(f.kind)

Top(e) == e \in DOMAIN events /\ \A f \in DOMAIN events : NotLater(e, f)

pop(e) == events (-) SetToBag({e})

schedule(queue, e) == queue (+) SetToBag({e})

-----------------------------------------------------------------------------
(***************************************************************************)
(* Statistics.                                                             *)
(***************************************************************************)
NoStatistics ==
  [compute_cycles |-> 0, load_count |-> 0, store_count |-> 0,
   cache_hits |-> 0, cache_misses |-> 0,
   invalidations_sent |-> 0, invalidations_received |-> 0,
   private_accesses |-> 0, shared_accesses |-> 0]

NoGlobalStatistics ==
  [total_data_traffic_bytes |-> 0, total_invalidations |-> 0,
   bus_reads |-> 0, bus_readx |-> 0, bus_upgrades |-> 0,
   bus_writebacks |-> 0, cache_to_cache_transfers |-> 0]

One(b) == IF b THEN 1 ELSE 0

\* A load or store is counted, and then a hit (in a private or a shared
\* state of the line) or a miss.
CountAccess(st, is_write, resp, line) ==
  [st EXCEPT
     !.load_count       = @ + One(~is_write),
     !.store_count      = @ + One(is_write),
     !.cache_hits       = @ + One(resp.is_hit),
     !.cache_misses     = @ + One(~resp.is_hit),
     !.private_accesses = @ + One(resp.is_hit /\ line \in WritableStates),
     !.shared_accesses  = @ + One(resp.is_hit /\ line \notin WritableStates)]

\* The invalidations (updates, in Dragon, which does not count the ones a
\* core sends) of a transaction.
CountSignals(req_id, signalled) ==
  [c \in Cores |->
     [stats[c] EXCEPT
        !.invalidations_received = @ + One(c \in signalled),
        !.invalidations_sent     =
            @ + IF c = req_id /\ Protocol # "DRAGON"
                THEN Cardinality(signalled) ELSE 0]]

CountTransaction(g, type, res) ==
  [total_data_traffic_bytes |-> g.total_data_traffic_bytes + res.traffic,
   total_invalidations      |-> g.total_invalidations
                                  + Cardinality(res.signalled),
   bus_reads                |-> g.bus_reads + One(type = "BUS_RD"),
   bus_readx                |-> g.bus_readx + One(type = "BUS_RDX"),
   bus_upgrades             |-> g.bus_upgrades + One(type = "BUS_UPGR"),
   bus_writebacks           |-> g.bus_writebacks + One(res.writeback),
   cache_to_cache_transfers |-> g.cache_to_cache_transfers
                                  + One(res.cache_to_cache)]

-----------------------------------------------------------------------------
Init ==
  /\ events = SetToBag({FetchEvent(c, 0) : c \in Cores})
  /\ current_time = 0
  /\ caches = [c \in Cores |-> EmptyCache]
  /\ blocked = [c \in Cores |-> FALSE]
  /\ fetched = [c \in Cores |-> 0]
  /\ trace_exhausted = [c \in Cores |-> FALSE]
  /\ bus_queue = {}
  /\ bus_busy = FALSE
  /\ stats = [c \in Cores |-> NoStatistics]
  /\ global_stats = NoGlobalStatistics
  /\ running = TRUE

\* Mutant: no handoff to the requests that wait.
BusRelease_no_handoff(e) ==
  /\ e.kind = "BusRelease"
  /\ bus_busy' = FALSE
  /\ events' = pop(e)
  /\ UNCHANGED <<caches, blocked, fetched, trace_exhausted, bus_queue, stats,
                 global_stats>>

\* The bus becomes free; if a request waits, the arbiter runs at once.
BusRelease(e) ==
  /\ e.kind = "BusRelease"
  /\ bus_busy' = FALSE
  /\ events' = IF bus_queue # {}
               THEN schedule(pop(e), BusArbitrationEvent(e.timestamp))
               ELSE pop(e)
  /\ UNCHANGED <<caches, blocked, fetched, trace_exhausted, bus_queue, stats,
                 global_stats>>

\* The early return of an arbitration that finds the bus busy or no request.
\* (BusHandedOver shows that no such arbitration is ever scheduled.)
ArbitrationStale(e) ==
  /\ e.kind = "BusArbitration"
  /\ bus_busy \/ bus_queue = {}
  /\ events' = pop(e)
  /\ UNCHANGED <<caches, blocked, fetched, trace_exhausted, bus_queue,
                 bus_busy, stats, global_stats>>

\* Mutant: a fixed priority instead of the arrival order.
Before_fixed_priority(a, b) == a.core_id < b.core_id

\* The arbiter's order on requests: first come first served, the lower core
\* id first among simultaneous ones; with READ_PRIORITY reads go first.
Before(a, b) ==
  LET fcfs == \/ a.arrival_time < b.arrival_time
              \/ a.arrival_time = b.arrival_time /\ a.core_id < b.core_id
  IN  IF ReadPriority /\ (a.type = "BUS_RD") # (b.type = "BUS_RD")
      THEN a.type = "BUS_RD"
      ELSE fcfs

\* Mutant: the granted request stays in the queue.
erase_nothing(queue, req) == queue

\* The granted request leaves the queue.
erase(queue, req) == queue \ {req}

\* The bus is granted: the protocol performs the whole transaction, and its
\* latency decides when the bus is released and the requester unblocked.
ArbitrationGrant(e) ==
  /\ e.kind = "BusArbitration"
  /\ ~bus_busy
  /\ \E req \in bus_queue :
       /\ \A other \in bus_queue \ {req} : Before(req, other)
       /\ LET res  == handle_bus_transaction(caches, req.core_id, req.type,
                                             req.addr)
              done == e.timestamp + res.latency
          IN  /\ caches' = res.caches
              /\ stats' = CountSignals(req.core_id, res.signalled)
              /\ global_stats' = CountTransaction(global_stats, req.type, res)
              /\ LET released == schedule(pop(e), BusReleaseEvent(done))
                 IN  events' = IF req.type = "WRITEBACK" THEN released
                               ELSE schedule(released,
                                             CoreUnblockEvent(req.core_id, done))
       /\ bus_queue' = erase(bus_queue, req)
  /\ bus_busy' = TRUE
  /\ UNCHANGED <<blocked, fetched, trace_exhausted>>

\* Mutant: the core is sent on without being unblocked.
CoreUnblock_still_blocked(e) ==
  /\ e.kind = "CoreUnblock"
  /\ events' = schedule(pop(e), FetchEvent(e.core_id, e.timestamp))
  /\ UNCHANGED <<caches, blocked, fetched, trace_exhausted, bus_queue,
                 bus_busy, stats, global_stats>>

CoreUnblock(e) ==
  /\ e.kind = "CoreUnblock"
  /\ blocked' = [blocked EXCEPT ![e.core_id] = FALSE]
  /\ events' = schedule(pop(e), FetchEvent(e.core_id, e.timestamp))
  /\ UNCHANGED <<caches, fetched, trace_exhausted, bus_queue, bus_busy, stats,
                 global_stats>>

\* Mutant: the core polls its trace again in the same cycle.
FetchEnd_polls(c, e) ==
  /\ trace_exhausted' = [trace_exhausted EXCEPT ![c] = TRUE]
  /\ UNCHANGED <<events, caches, blocked, fetched, bus_queue, bus_busy, stats,
                 global_stats>>

\* The trace of core c has ended.
FetchEnd(c, e) ==
  /\ trace_exhausted' = [trace_exhausted EXCEPT ![c] = TRUE]
  /\ events' = pop(e)
  /\ UNCHANGED <<caches, blocked, fetched, bus_queue, bus_busy, stats,
                 global_stats>>

\* The core computes for val cycles.
FetchCompute(c, e, val) ==
  /\ fetched[c] < MaxTrace
  /\ fetched' = [fetched EXCEPT ![c] = @ + 1]
  /\ stats' = [stats EXCEPT ![c].compute_cycles = @ + val]
  /\ events' = schedule(pop(e), FetchEvent(c, e.timestamp + val))
  /\ UNCHANGED <<caches, blocked, trace_exhausted, bus_queue, bus_busy,
                 global_stats>>

\* The core loads or stores.  On a hit it goes on in the next cycle; on a
\* miss it blocks and queues a request, and wakes the arbiter unless a
\* transaction is under way, whose end will wake it.
FetchAccess(c, e, addr, is_write) ==
  LET resp == handle_processor_request(caches, c, addr, is_write)
  IN  /\ fetched[c] < MaxTrace
      /\ fetched' = [fetched EXCEPT ![c] = @ + 1]
      /\ caches' = [caches EXCEPT ![c] = resp.cache]
      /\ stats' = [stats EXCEPT ![c] =
                     CountAccess(@, is_write, resp, StateOf(resp.cache, addr))]
      /\ \/ /\ resp.is_hit
            /\ events' = schedule(pop(e), FetchEvent(c, e.timestamp + 1))
            /\ UNCHANGED <<blocked, bus_queue>>
         \/ /\ ~resp.is_hit
            /\ blocked' = [blocked EXCEPT ![c] = TRUE]
            /\ bus_queue' = bus_queue \cup
                 {[core_id |-> c, type |-> resp.bus_action, addr |-> addr,
                   arrival_time |-> e.timestamp]}
            /\ events' = IF bus_busy
                         THEN pop(e)
                         ELSE schedule(pop(e), BusArbitrationEvent(e.timestamp))
      /\ UNCHANGED <<trace_exhausted, bus_busy, global_stats>>

\* A fetch of a blocked core is dropped; otherwise the next record is read.
Fetch(e) ==
  /\ e.kind = "Fetch"
  /\ IF blocked[e.core_id]
     THEN /\ events' = pop(e)
          /\ UNCHANGED <<caches, blocked, fetched, trace_exhausted, bus_queue,
                         bus_busy, stats, global_stats>>
     ELSE \/ FetchEnd(e.core_id, e)
          \/ \E val \in ComputeCycles : FetchCompute(e.core_id, e, val)
          \/ \E addr \in TraceAddrs[e.core_id], is_write \in BOOLEAN :
               FetchAccess(e.core_id, e, addr, is_write)

\* The loop ends when every trace is read, no core is blocked and the bus is
\* idle, or when the event queue is empty.
AllDone ==
  /\ \A c \in Cores : trace_exhausted[c] /\ ~blocked[c]
  /\ ~bus_busy
  /\ bus_queue = {}

Next ==
  /\ running
  /\ \E e \in DOMAIN events :
       /\ Top(e)
       /\ current_time' = e.timestamp
       /\ \/ BusRelease(e)
          \/ ArbitrationStale(e)
          \/ ArbitrationGrant(e)
          \/ CoreUnblock(e)
          \/ Fetch(e)
  /\ running' = (events' # EmptyBag /\ ~AllDone')

\* run() executes its loop without pause, so some step is always taken while
\* it can be.
Spec == Init /\ [][Next]_vars /\ WF_vars(Next)

\* The idle cycles print_report computes for a core when the run is over.
idle_cycles(c) ==
  LET busy == stats[c].compute_cycles + stats[c].load_count
                + stats[c].store_count
  IN  IF current_time > busy THEN current_time - busy ELSE 0

-----------------------------------------------------------------------------
(***************************************************************************)
(* Safety.                                                                 *)
(***************************************************************************)
EventsOf(c) == {e \in DOMAIN events : e.core_id = c}

RequestsOf(c) == {req \in bus_queue : req.core_id = c}

\* Every core has exactly one continuation: a fetch, an unblock, a waiting
\* request or the end of its trace; and it is blocked from the miss to the
\* unblock.  So no core is forgotten, none runs twice, and the fetch that
\* FetchEvent::execute would drop for a blocked core never exists.
OneContinuationPerCore ==
  \A c \in Cores :
    /\ \A e \in EventsOf(c) : events[e] = 1
    /\ Cardinality(EventsOf(c)) + Cardinality(RequestsOf(c))
         + One(trace_exhausted[c]) = 1
    /\ blocked[c] <=> \/ RequestsOf(c) # {}
                      \/ \E e \in EventsOf(c) : e.kind = "CoreUnblock"

\* The bus is never lost and never offered twice: while it is busy exactly
\* one release is on its way, and an arbitration is due - now, and only one -
\* exactly while the bus is free and a request waits.  So the early return
\* of BusArbitrationEvent::execute is never taken: that an arbitration comes
\* before the fetches of its cycle keeps two misses from scheduling two.
BusHandedOver ==
  LET releases     == {e \in DOMAIN events : e.kind = "BusRelease"}
      arbitrations == {e \in DOMAIN events : e.kind = "BusArbitration"}
  IN  /\ IF bus_busy THEN Cardinality(releases) = 1 ELSE releases = {}
      /\ arbitrations = IF ~bus_busy /\ bus_queue # {}
                        THEN {BusArbitrationEvent(current_time)} ELSE {}
      /\ \A e \in releases \cup arbitrations : events[e] = 1

\* The loop never stops with a core still blocked or a trace not read: an
\* empty event queue means that everything is done.
RunEndsClean == ~running => AllDone

\* Every access is a hit or a miss, and every hit private or shared.
AccessesCounted ==
  \A c \in Cores :
    LET st == stats[c]
    IN  /\ st.cache_hits + st.cache_misses = st.load_count + st.store_count
        /\ st.private_accesses + st.shared_accesses = st.cache_hits

\* Every miss is a bus transaction done or waiting, and the signals the
\* cores received and sent add up to the ones the bus counted.
TransactionsCounted ==
  LET total(field) == MapThenSumSet(LAMBDA c : stats[c][field], Cores)
      g == global_stats
  IN  /\ g.bus_reads + g.bus_readx + g.bus_upgrades + Cardinality(bus_queue)
           = total("cache_misses")
      /\ total("invalidations_received") = g.total_invalidations
      /\ Protocol # "DRAGON" =>
           total("invalidations_sent") = g.total_invalidations

\* The traffic is a block for every read, exclusive read and writeback, and
\* in Dragon a word for every update.
TrafficAccounted ==
  LET g == global_stats
  IN  g.total_data_traffic_bytes
        = BlockSize * (g.bus_reads + g.bus_readx + g.bus_writebacks)
            + IF Protocol = "DRAGON" THEN 4 * g.bus_upgrades ELSE 0

\* The counters of the report fit together.
StatisticsConserved ==
  AccessesCounted /\ TransactionsCounted /\ TrafficAccounted

\* When the run is over, the cycles a core computed and the accesses that
\* took it a cycle fit into the execution time of the report.  In Dragon
\* every access takes one, so the idle cycles of print_report are exact; in
\* the other protocols an upgrade takes none.
BusyCyclesFit ==
  ~running =>
    \A c \in Cores :
      /\ stats[c].compute_cycles + stats[c].cache_hits <= current_time
      /\ Protocol = "DRAGON" =>
           idle_cycles(c) + stats[c].compute_cycles + stats[c].load_count
             + stats[c].store_count = current_time

\* The simulation of finite traces ends.
Termination == <>~running

-----------------------------------------------------------------------------
(***************************************************************************)
(* Refinement: without clock, events and statistics the engine is the      *)
(* coherence state machine of module Coherence.                            *)
(***************************************************************************)
Untimed(req) ==
  [core_id |-> req.core_id, type |-> req.type, addr |-> req.addr]

C == INSTANCE Coherence WITH bus_queue <- {Untimed(req) : req \in bus_queue}

\* Every run of the engine is a run of the coherence state machine, so what
\* holds there for any order of grants holds under the arbiter's order.
ImplementsCoherence == C!Spec

=============================================================================
