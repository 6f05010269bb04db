-------------------------- MODULE SimulatorProofs --------------------------
(***************************************************************************)
(* The event engine, for every number of cores, every trace, every         *)
(* protocol and both builds of the arbiter: no core and no bus is ever     *)
(* lost or offered twice, the run ends clean, and every step of the engine *)
(* is a step of the coherence state machine, so that what CoherenceProofs  *)
(* shows of that machine holds of the caches of a simulation.              *)
(***************************************************************************)
EXTENDS BusHistory, FiniteSetTheorems, TLAPS

CP == INSTANCE CoherenceProofs
        WITH bus_queue <- {Untimed(req) : req \in bus_queue}

-----------------------------------------------------------------------------
(***************************************************************************)
(* The event queue.  No event is in it twice, so it is a set.              *)
(***************************************************************************)
\* Popping an event removes it.
LEMMA PopFacts ==
  ASSUME NEW E, NEW e \in E
  PROVE  SetToBag(E) (-) SetToBag({e}) = SetToBag(E \ {e})
BY DEF SetToBag, (-)

\* Scheduling an event that is not queued adds it once.
LEMMA ScheduleFacts ==
  ASSUME NEW E, NEW e, e \notin E
  PROVE  SetToBag(E) (+) SetToBag({e}) = SetToBag(E \cup {e})
BY DEF SetToBag, (+)

\* The events of a queue without duplicates.
LEMMA DomainFacts == ASSUME NEW E PROVE DOMAIN SetToBag(E) = E
BY DEF SetToBag

-----------------------------------------------------------------------------
(***************************************************************************)
(* The operators of the two instances of Coherence are the ones of this    *)
(* module.                                                                 *)
(***************************************************************************)
\* The processor side of the protocols, in the coherence state machine.
LEMMA CRequest ==
  ASSUME NEW cs, NEW c, NEW a, NEW w
  PROVE  C!handle_processor_request(cs, c, a, w)
           = handle_processor_request(cs, c, a, w)
BY DEF find, C!find, Cons, C!Cons, remove, C!remove, set_idx, C!set_idx,
       num_sets, C!num_sets, tag_of, C!tag_of, LineState, C!LineState,
       SetLine, C!SetLine, SetState, C!SetState, StateOf, C!StateOf,
       get_line, C!get_line, handle_processor_request,
       C!handle_processor_request, MESI_handle_processor_request,
       C!MESI_handle_processor_request,
       Dragon_handle_processor_request,
       C!Dragon_handle_processor_request,
       MESIF_handle_processor_request,
       C!MESIF_handle_processor_request,
       Smart_handle_processor_request,
       C!Smart_handle_processor_request,
       MOESI_handle_processor_request, C!MOESI_handle_processor_request

\* The bus side of the protocols, in the coherence state machine.
LEMMA CTransaction ==
  ASSUME NEW cs, NEW c, NEW type, NEW a
  PROVE  C!handle_bus_transaction(cs, c, type, a)
           = handle_bus_transaction(cs, c, type, a)
<1> USE DEF find, C!find, Cons, C!Cons, remove, C!remove, set_idx, C!set_idx,
            num_sets, C!num_sets, tag_of, C!tag_of, LineState,
            C!LineState, SetLine, C!SetLine, SetState, C!SetState,
            StateOf, C!StateOf, get_line, C!get_line, SnoopLine,
            C!SnoopLine, Holders, C!Holders, WritebackResult,
            C!WritebackResult, UpgradeResult, C!UpgradeResult,
            FillResult, C!FillResult, FillLatency, C!FillLatency,
            FillTraffic, C!FillTraffic, Evict, C!Evict, RemoveAt,
            C!RemoveAt, Restrict, C!Restrict, Install, C!Install,
            Cardinality, C!Cardinality
<1>1. C!MESI_handle_bus_transaction(cs, c, type, a)
        = MESI_handle_bus_transaction(cs, c, type, a)
  BY Zenon DEF MESI_handle_bus_transaction, C!MESI_handle_bus_transaction,
                MESI_SnoopState, C!MESI_SnoopState,
                MESI_FillState, C!MESI_FillState, allocate,
                C!allocate, allocate_line, C!allocate_line
<1>2. C!Dragon_handle_bus_transaction(cs, c, type, a)
        = Dragon_handle_bus_transaction(cs, c, type, a)
  BY Zenon DEF Dragon_handle_bus_transaction,
                C!Dragon_handle_bus_transaction,
                Dragon_SnoopState, C!Dragon_SnoopState,
                Dragon_FillState, C!Dragon_FillState,
                allocate, C!allocate, allocate_line,
                C!allocate_line, Dragon_allocate,
                C!Dragon_allocate, Dragon_UpdateState,
                C!Dragon_UpdateState
<1>3. C!MESIF_handle_bus_transaction(cs, c, type, a)
        = MESIF_handle_bus_transaction(cs, c, type, a)
  BY Zenon DEF MESIF_handle_bus_transaction, C!MESIF_handle_bus_transaction,
                MESIF_SnoopState, C!MESIF_SnoopState,
                MESIF_FillState, C!MESIF_FillState, allocate,
                C!allocate, allocate_line, C!allocate_line,
                MESIF_allocate, C!MESIF_allocate
<1>4. C!Smart_handle_bus_transaction(cs, c, type, a)
        = Smart_handle_bus_transaction(cs, c, type, a)
  BY Zenon DEF Smart_handle_bus_transaction, C!Smart_handle_bus_transaction,
                Smart_SnoopState, C!Smart_SnoopState,
                Smart_FillState, C!Smart_FillState,
                SmartVictim, C!SmartVictim, SelectLastInSeq,
                C!SelectLastInSeq, Max, C!Max, SmartAllocate,
                C!SmartAllocate, SmartAllocateLine,
                C!SmartAllocateLine
<1>5. C!MOESI_handle_bus_transaction(cs, c, type, a)
        = MOESI_handle_bus_transaction(cs, c, type, a)
  BY Zenon DEF MOESI_handle_bus_transaction, C!MOESI_handle_bus_transaction,
                MOESI_SnoopState, C!MOESI_SnoopState,
                MOESI_FillState, C!MOESI_FillState, allocate,
                C!allocate, allocate_line, C!allocate_line,
                MOESI_allocate, C!MOESI_allocate
<1> QED
  BY ONLY <1>1, <1>2, <1>3, <1>4, <1>5
     DEF handle_bus_transaction, C!handle_bus_transaction

\* The processor side, in the module of the coherence proofs.
LEMMA CPRequest ==
  ASSUME NEW cs, NEW c, NEW a, NEW w
  PROVE  CP!handle_processor_request(cs, c, a, w)
           = handle_processor_request(cs, c, a, w)
BY DEF find, CP!find, Cons, CP!Cons, remove, CP!remove, set_idx, CP!set_idx,
       num_sets, CP!num_sets, tag_of, CP!tag_of, LineState,
       CP!LineState, SetLine, CP!SetLine, SetState, CP!SetState,
       StateOf, CP!StateOf, get_line, CP!get_line,
       handle_processor_request, CP!handle_processor_request,
       MESI_handle_processor_request, CP!MESI_handle_processor_request,
       Dragon_handle_processor_request,
       CP!Dragon_handle_processor_request,
       MESIF_handle_processor_request,
       CP!MESIF_handle_processor_request,
       Smart_handle_processor_request,
       CP!Smart_handle_processor_request,
       MOESI_handle_processor_request,
       CP!MOESI_handle_processor_request

\* The bus side, in the module of the coherence proofs.
LEMMA CPTransaction ==
  ASSUME NEW cs, NEW c, NEW type, NEW a
  PROVE  CP!handle_bus_transaction(cs, c, type, a)
           = handle_bus_transaction(cs, c, type, a)
<1> USE DEF find, CP!find, Cons, CP!Cons, remove, CP!remove, set_idx,
            CP!set_idx, num_sets, CP!num_sets, tag_of, CP!tag_of,
            LineState, CP!LineState, SetLine, CP!SetLine,
            SetState, CP!SetState, StateOf, CP!StateOf, get_line,
            CP!get_line, SnoopLine, CP!SnoopLine, Holders,
            CP!Holders, WritebackResult, CP!WritebackResult,
            UpgradeResult, CP!UpgradeResult, FillResult,
            CP!FillResult, FillLatency, CP!FillLatency,
            FillTraffic, CP!FillTraffic, Evict, CP!Evict,
            RemoveAt, CP!RemoveAt, Restrict, CP!Restrict, Install,
            CP!Install, Cardinality, CP!Cardinality
<1>1. CP!MESI_handle_bus_transaction(cs, c, type, a)
        = MESI_handle_bus_transaction(cs, c, type, a)
  BY Zenon DEF MESI_handle_bus_transaction, CP!MESI_handle_bus_transaction,
                MESI_SnoopState, CP!MESI_SnoopState,
                MESI_FillState, CP!MESI_FillState, allocate,
                CP!allocate, allocate_line, CP!allocate_line
<1>2. CP!Dragon_handle_bus_transaction(cs, c, type, a)
        = Dragon_handle_bus_transaction(cs, c, type, a)
  BY Zenon DEF Dragon_handle_bus_transaction,
                CP!Dragon_handle_bus_transaction,
                Dragon_SnoopState, CP!Dragon_SnoopState,
                Dragon_FillState, CP!Dragon_FillState,
                allocate, CP!allocate, allocate_line,
                CP!allocate_line, Dragon_allocate,
                CP!Dragon_allocate, Dragon_UpdateState,
                CP!Dragon_UpdateState
<1>3. CP!MESIF_handle_bus_transaction(cs, c, type, a)
        = MESIF_handle_bus_transaction(cs, c, type, a)
  BY Zenon DEF MESIF_handle_bus_transaction, CP!MESIF_handle_bus_transaction,
                MESIF_SnoopState, CP!MESIF_SnoopState,
                MESIF_FillState, CP!MESIF_FillState, allocate,
                CP!allocate, allocate_line, CP!allocate_line,
                MESIF_allocate, CP!MESIF_allocate
<1>4. CP!Smart_handle_bus_transaction(cs, c, type, a)
        = Smart_handle_bus_transaction(cs, c, type, a)
  BY Zenon DEF Smart_handle_bus_transaction, CP!Smart_handle_bus_transaction,
                Smart_SnoopState, CP!Smart_SnoopState,
                Smart_FillState, CP!Smart_FillState,
                SmartVictim, CP!SmartVictim, SelectLastInSeq,
                CP!SelectLastInSeq, Max, CP!Max,
                SmartAllocate, CP!SmartAllocate,
                SmartAllocateLine, CP!SmartAllocateLine
<1>5. CP!MOESI_handle_bus_transaction(cs, c, type, a)
        = MOESI_handle_bus_transaction(cs, c, type, a)
  BY Zenon DEF MOESI_handle_bus_transaction, CP!MOESI_handle_bus_transaction,
                MOESI_SnoopState, CP!MOESI_SnoopState,
                MOESI_FillState, CP!MOESI_FillState, allocate,
                CP!allocate, allocate_line, CP!allocate_line,
                MOESI_allocate, CP!MOESI_allocate
<1> QED
  BY ONLY <1>1, <1>2, <1>3, <1>4, <1>5
     DEF handle_bus_transaction, CP!handle_bus_transaction

\* Both instances are the same state machine.
LEMMA SameMachine ==
  /\ C!Init <=> CP!Init
  /\ C!Next <=> CP!Next
  /\ C!vars = CP!vars
<1>1. C!EmptyCache = CP!EmptyCache
  BY DEF C!EmptyCache, CP!EmptyCache, C!SetIndices, CP!SetIndices, C!num_sets,
         CP!num_sets, C!EmptySet, CP!EmptySet
<1>2. \A c, a, w : /\ C!Hit(c, a, w) <=> CP!Hit(c, a, w)
                   /\ C!Miss(c, a, w) <=> CP!Miss(c, a, w)
  BY CRequest, CPRequest
     DEF C!Hit, CP!Hit, C!Miss, CP!Miss, C!blocked, CP!blocked
<1>3. \A req : C!Grant(req) <=> CP!Grant(req)
  BY CTransaction, CPTransaction DEF C!Grant, CP!Grant
<1> QED
  BY <1>1, <1>2, <1>3
     DEF C!Init, CP!Init, C!Next, CP!Next, C!vars, CP!vars

\* What CoherenceProofs shows, with the assumptions of this module.
LEMMA MachineIInv ==
  /\ CP!Init => CP!IInv
  /\ CP!IInv /\ [CP!Next]_CP!vars => CP!IInv'
<1>1. CP!SizeAssumption
  BY SizeAssumption DEF CP!num_sets, CP!IsPowerOfTwo, num_sets, IsPowerOfTwo
<1> QED
  BY <1>1, AssocAssumption, ProtocolAssumption, TraceAssumption,
     CP!InitIInv, CP!NextIInv

-----------------------------------------------------------------------------
(***************************************************************************)
(* The inductive invariant.                                                *)
(***************************************************************************)
Event ==
  [timestamp : Nat, kind : {"BusRelease", "BusArbitration"}, core_id : {-1}]
    \cup [timestamp : Nat, kind : {"CoreUnblock", "Fetch"}, core_id : Cores]

BusRequest ==
  [core_id : Cores, type : {"BUS_RD", "BUS_RDX", "BUS_UPGR"}, addr : Addrs,
   arrival_time : Nat]

\* The queue is a set of events that are not in the past, and the requests
\* are reads, exclusive reads and upgrades.
TypeOK ==
  /\ events = SetToBag(DOMAIN events)
  /\ DOMAIN events \subseteq Event
  /\ current_time \in Nat
  /\ \A e \in DOMAIN events : current_time <= e.timestamp
  /\ blocked \in [Cores -> BOOLEAN]
  /\ trace_exhausted \in [Cores -> BOOLEAN]
  /\ bus_queue \subseteq BusRequest
  /\ bus_busy \in BOOLEAN

\* Of every core, one event, one request or the end of its trace.
CoresInv ==
  \A c \in Cores :
    /\ \A e, f \in EventsOf(c) : e = f
    /\ \A r, s \in RequestsOf(c) : r = s
    /\ EventsOf(c) # {} => RequestsOf(c) = {}
    /\ trace_exhausted[c] <=> EventsOf(c) = {} /\ RequestsOf(c) = {}
    /\ blocked[c] <=> \/ RequestsOf(c) # {}
                      \/ \E e \in EventsOf(c) : e.kind = "CoreUnblock"

\* One release while the bus is busy; an arbitration, now, while the bus is
\* free and a request waits.
BusInv ==
  /\ bus_busy <=> \E e \in DOMAIN events : e.kind = "BusRelease"
  /\ \A e, f \in DOMAIN events :
       e.kind = "BusRelease" /\ f.kind = "BusRelease" => e = f
  /\ \A e \in DOMAIN events :
       e.kind = "BusArbitration" => e.timestamp = current_time
  /\ (\E e \in DOMAIN events : e.kind = "BusArbitration")
       <=> ~bus_busy /\ bus_queue # {}

\* The coherence state machine's own invariant comes with it: a request's
\* type, on which its continuation depends, is chosen from the line's state.
IInv == TypeOK /\ CoresInv /\ BusInv /\ RunEndsClean /\ CP!IInv

-----------------------------------------------------------------------------
(***************************************************************************)
(* What the invariant means.                                               *)
(***************************************************************************)
\* What a queued event is.
LEMMA EventFacts ==
  ASSUME TypeOK, NEW e \in DOMAIN events
  PROVE  /\ e.timestamp \in Nat
         /\ e.kind \in {"BusRelease", "BusArbitration", "CoreUnblock", "Fetch"}
         /\ e.kind \in {"BusRelease", "BusArbitration"} => e.core_id = -1
         /\ e.kind \in {"CoreUnblock", "Fetch"} => e.core_id \in Cores
         /\ e.kind = "BusArbitration" => e = BusArbitrationEvent(e.timestamp)
         /\ events[e] = 1
<1>1. e \in Event
  BY DEF TypeOK
<1>2. events[e] = 1
  BY DEF TypeOK, SetToBag
<1> QED BY <1>1, <1>2 DEF Event, BusArbitrationEvent

\* Bus events belong to no core.
LEMMA NoCore == \A c \in Cores : c # -1
BY SimulatorAssumption

\* A set whose members are all equal has at most one.
LEMMA CardinalityFacts ==
  ASSUME NEW S, \A x, y \in S : x = y
  PROVE  /\ S = {} => Cardinality(S) = 0
         /\ S # {} => Cardinality(S) = 1
<1>1. S = {} => Cardinality(S) = 0
  BY FS_EmptySet
<1>2. ASSUME S # {} PROVE Cardinality(S) = 1
  <2>1. PICK x : x \in S
    BY <1>2
  <2>2. S = {x}
    BY <2>1
  <2> QED BY <2>2, FS_Singleton
<1> QED BY <1>1, <1>2

\* The invariant of the cores gives OneContinuationPerCore.
LEMMA ContinuationFacts ==
  ASSUME TypeOK, CoresInv
  PROVE  OneContinuationPerCore
<1> SUFFICES ASSUME NEW c \in Cores
             PROVE  /\ \A e \in EventsOf(c) : events[e] = 1
                    /\ Cardinality(EventsOf(c)) + Cardinality(RequestsOf(c))
                         + One(trace_exhausted[c]) = 1
                    /\ blocked[c] <=>
                         \/ RequestsOf(c) # {}
                         \/ \E e \in EventsOf(c) : e.kind = "CoreUnblock"
  BY DEF OneContinuationPerCore
<1>1. \A e \in EventsOf(c) : events[e] = 1
  BY EventFacts DEF EventsOf
<1>2. /\ EventsOf(c) = {} => Cardinality(EventsOf(c)) = 0
      /\ EventsOf(c) # {} => Cardinality(EventsOf(c)) = 1
  BY CardinalityFacts DEF CoresInv
<1>3. /\ RequestsOf(c) = {} => Cardinality(RequestsOf(c)) = 0
      /\ RequestsOf(c) # {} => Cardinality(RequestsOf(c)) = 1
  BY CardinalityFacts DEF CoresInv
<1>4. /\ EventsOf(c) # {} => RequestsOf(c) = {}
      /\ trace_exhausted[c] <=> EventsOf(c) = {} /\ RequestsOf(c) = {}
  BY DEF CoresInv
<1>5. /\ trace_exhausted[c] => One(trace_exhausted[c]) = 1
      /\ ~trace_exhausted[c] => One(trace_exhausted[c]) = 0
  BY DEF One
<1>6. Cardinality(EventsOf(c)) + Cardinality(RequestsOf(c))
        + One(trace_exhausted[c]) = 1
  <2>1. CASE EventsOf(c) # {}
    BY <1>2, <1>3, <1>4, <1>5, <2>1
  <2>2. CASE EventsOf(c) = {} /\ RequestsOf(c) # {}
    BY <1>2, <1>3, <1>4, <1>5, <2>2
  <2>3. CASE EventsOf(c) = {} /\ RequestsOf(c) = {}
    BY <1>2, <1>3, <1>4, <1>5, <2>3
  <2> QED BY <2>1, <2>2, <2>3
<1> QED BY <1>1, <1>6 DEF CoresInv

\* The invariant of the bus gives BusHandedOver.
LEMMA BusFacts ==
  ASSUME TypeOK, BusInv
  PROVE  BusHandedOver
<1> DEFINE releases == {e \in DOMAIN events : e.kind = "BusRelease"}
           arbitrations == {e \in DOMAIN events : e.kind = "BusArbitration"}
<1>1. IF bus_busy THEN Cardinality(releases) = 1 ELSE releases = {}
  <2>1. \A x, y \in releases : x = y
    BY DEF BusInv
  <2>2. bus_busy <=> releases # {}
    BY DEF BusInv
  <2> HIDE DEF releases
  <2>3. releases # {} => Cardinality(releases) = 1
    BY <2>1, CardinalityFacts
  <2> QED BY <2>2, <2>3
<1>2. arbitrations = IF ~bus_busy /\ bus_queue # {}
                     THEN {BusArbitrationEvent(current_time)} ELSE {}
  <2>1. \A e \in arbitrations : e = BusArbitrationEvent(current_time)
    BY EventFacts DEF BusInv
  <2>2. arbitrations # {} <=> ~bus_busy /\ bus_queue # {}
    BY DEF BusInv
  <2> HIDE DEF arbitrations
  <2> QED BY <2>1, <2>2
<1>3. \A e \in releases \cup arbitrations : events[e] = 1
  BY EventFacts
<1> QED BY <1>1, <1>2, <1>3 DEF BusHandedOver

\* An empty queue means that everything is done.
LEMMA EmptyQueueFacts ==
  TypeOK /\ CoresInv /\ BusInv /\ events = EmptyBag => AllDone
<1> SUFFICES ASSUME TypeOK, CoresInv, BusInv, events = EmptyBag
             PROVE  AllDone
  OBVIOUS
<1>1. DOMAIN events = {}
  BY DomainFacts DEF EmptyBag
<1>2. ~bus_busy /\ bus_queue = {}
  BY <1>1 DEF BusInv, TypeOK
<1>3. \A c \in Cores : EventsOf(c) = {} /\ RequestsOf(c) = {}
  BY <1>1, <1>2 DEF EventsOf, RequestsOf
<1> QED BY <1>2, <1>3 DEF AllDone, CoresInv

-----------------------------------------------------------------------------
(***************************************************************************)
(* Steps.                                                                  *)
(***************************************************************************)
\* While an arbitration is due, nothing but a bus event can be on top.
LEMMA TopFacts ==
  ASSUME TypeOK, BusInv, NEW e \in DOMAIN events, Top(e)
  PROVE  /\ current_time <= e.timestamp
         /\ \A f \in DOMAIN events : e.timestamp <= f.timestamp
         /\ e.kind \in {"CoreUnblock", "Fetch"} => bus_busy \/ bus_queue = {}
         /\ e.kind = "BusRelease" => bus_busy
         /\ e.kind = "BusArbitration" => ~bus_busy /\ bus_queue # {}
<1>1. \A f \in DOMAIN events : f.timestamp \in Nat
  BY EventFacts
<1>2. current_time <= e.timestamp /\ current_time \in Nat
  BY DEF TypeOK
<1>3. \A f \in DOMAIN events : NotLater(e, f)
  BY DEF Top
<1>4. \A f \in DOMAIN events : e.timestamp <= f.timestamp
  BY <1>1, <1>3 DEF NotLater
<1>5. ASSUME e.kind \in {"CoreUnblock", "Fetch"},
             NEW f \in DOMAIN events, f.kind = "BusArbitration"
      PROVE  FALSE
  <2>1. e.timestamp = f.timestamp
    BY <1>1, <1>2, <1>4, <1>5 DEF BusInv
  <2>2. get_priority(e.kind) <= get_priority(f.kind)
    BY <1>1, <1>3, <2>1 DEF NotLater
  <2> QED BY <1>5, <2>2 DEF get_priority
<1> QED BY <1>2, <1>4, <1>5 DEF BusInv, TypeOK

\* The queue after e is taken off and the events of N are scheduled, none of
\* which it holds.
Replaced(e, N) ==
  /\ current_time' = e.timestamp
  /\ events' = SetToBag((DOMAIN events \ {e}) \cup N)
  /\ N \subseteq Event
  /\ \A f \in N : e.timestamp <= f.timestamp

\* The queue after one event has been replaced by others.
LEMMA ReplacedFacts ==
  ASSUME TypeOK, BusInv, NEW e \in DOMAIN events, Top(e), NEW N, Replaced(e, N)
  PROVE  /\ DOMAIN events' = (DOMAIN events \ {e}) \cup N
         /\ events' = SetToBag(DOMAIN events')
         /\ DOMAIN events' \subseteq Event
         /\ current_time' \in Nat
         /\ \A f \in DOMAIN events' : current_time' <= f.timestamp
<1>1. DOMAIN events' = (DOMAIN events \ {e}) \cup N
  BY DomainFacts DEF Replaced
<1>2. events' = SetToBag(DOMAIN events')
  BY <1>1 DEF Replaced
<1>3. DOMAIN events' \subseteq Event
  BY <1>1 DEF Replaced, TypeOK
<1>4. current_time' \in Nat
  BY EventFacts DEF Replaced
<1>5. \A f \in DOMAIN events' : current_time' <= f.timestamp
  BY <1>1, TopFacts DEF Replaced
<1> QED BY <1>1, <1>2, <1>3, <1>4, <1>5

\* The queues that the events' execute methods leave behind.
LEMMA QueueFacts ==
  ASSUME TypeOK, NEW e \in DOMAIN events
  PROVE  /\ pop(e) = SetToBag(DOMAIN events \ {e})
         /\ \A f : f \notin DOMAIN events \ {e} =>
              schedule(pop(e), f) = SetToBag((DOMAIN events \ {e}) \cup {f})
         /\ \A f, g : /\ f \notin DOMAIN events \ {e}
                      /\ g \notin DOMAIN events \ {e}
                      /\ f # g
              => schedule(schedule(pop(e), f), g)
                   = SetToBag((DOMAIN events \ {e}) \cup {f, g})
<1> DEFINE E == DOMAIN events
           F == E \ {e}
<1>1. pop(e) = SetToBag(F)
  BY PopFacts DEF pop, TypeOK
<1> HIDE DEF F
<1>2. ASSUME NEW f, f \notin F
      PROVE  schedule(pop(e), f) = SetToBag(F \cup {f})
  BY <1>1, <1>2, ScheduleFacts DEF schedule
<1>3. ASSUME NEW f, NEW g, f \notin F, g \notin F, f # g
      PROVE  schedule(schedule(pop(e), f), g) = SetToBag(F \cup {f, g})
  <2> DEFINE G == F \cup {f}
  <2>1. schedule(pop(e), f) = SetToBag(G)
    BY <1>2, <1>3
  <2>2. g \notin G /\ G \cup {g} = F \cup {f, g}
    BY <1>3
  <2> HIDE DEF G
  <2>3. schedule(SetToBag(G), g) = SetToBag(G \cup {g})
    BY <2>2, ScheduleFacts DEF schedule
  <2> QED BY <2>1, <2>2, <2>3
<1> QED BY <1>1, <1>2, <1>3 DEF F

\* The events of the queues that the events' execute methods leave behind.
LEMMA QueueDomain ==
  ASSUME TypeOK, NEW e \in DOMAIN events
  PROVE  /\ DOMAIN pop(e) = DOMAIN events \ {e}
         /\ \A q, f : DOMAIN schedule(q, f) = DOMAIN q \cup {f}
<1>1. DOMAIN pop(e) = DOMAIN events \ {e}
  BY QueueFacts, DomainFacts
<1>2. \A q, f : DOMAIN schedule(q, f) = DOMAIN q \cup {f}
  BY DEF schedule, (+), SetToBag
<1> QED BY <1>1, <1>2

\* BusReleaseEvent::execute keeps the invariant.
LEMMA ReleaseStep ==
  ASSUME TypeOK, CoresInv, BusInv, NEW e \in DOMAIN events, Top(e),
         current_time' = e.timestamp, BusRelease(e)
  PROVE  TypeOK' /\ CoresInv' /\ BusInv'
<1> DEFINE new == BusArbitrationEvent(e.timestamp)
           N == IF bus_queue # {} THEN {new} ELSE {}
<1>1. /\ e.kind = "BusRelease" /\ bus_busy' = FALSE
      /\ events' = IF bus_queue # {} THEN schedule(pop(e), new) ELSE pop(e)
      /\ blocked' = blocked /\ trace_exhausted' = trace_exhausted
      /\ bus_queue' = bus_queue
  BY DEF BusRelease
<1>2. /\ bus_busy
      /\ \A f \in DOMAIN events : f.kind # "BusArbitration"
      /\ \A f \in DOMAIN events : f.kind = "BusRelease" => f = e
  BY <1>1, TopFacts DEF BusInv
<1>3. e.timestamp \in Nat /\ e.core_id = -1
  BY <1>1, EventFacts
<1>4. /\ new \in Event /\ new.timestamp = e.timestamp /\ new.core_id = -1
      /\ new.kind = "BusArbitration"
  BY <1>3 DEF Event, BusArbitrationEvent
<1> HIDE DEF new
<1>5. Replaced(e, N)
  <2>1. new \notin DOMAIN events
    BY <1>2, <1>4
  <2>2. events' = SetToBag((DOMAIN events \ {e}) \cup N)
    BY <1>1, <2>1, QueueFacts
  <2> QED BY <1>3, <1>4, <2>2 DEF Replaced
<1>6. /\ DOMAIN events' = (DOMAIN events \ {e}) \cup N
      /\ current_time' = e.timestamp
  BY <1>5, ReplacedFacts
<1>7. TypeOK'
  BY <1>1, <1>5, ReplacedFacts DEF TypeOK
<1>8. \A c \in Cores : EventsOf(c)' = EventsOf(c) /\ RequestsOf(c)' = RequestsOf(c)
  BY <1>1, <1>3, <1>4, <1>6, NoCore DEF EventsOf, RequestsOf
<1>9. CoresInv'
  BY <1>1, <1>8 DEF CoresInv
<1>10. BusInv'
  BY <1>1, <1>2, <1>4, <1>6 DEF BusInv
<1> QED BY <1>7, <1>9, <1>10

\* The early return of an arbitration is never taken.
LEMMA NoStaleArbitration ==
  ASSUME TypeOK, BusInv, NEW e \in DOMAIN events, Top(e), ArbitrationStale(e)
  PROVE  FALSE
BY TopFacts DEF ArbitrationStale

\* A transaction takes a number of cycles; in Dragon, at least one.
LEMMA LatencyFacts ==
  ASSUME NEW cs, NEW c, NEW a, NEW type \in {"BUS_RD", "BUS_RDX", "BUS_UPGR"}
  PROVE  LET latency == handle_bus_transaction(cs, c, type, a).latency
         IN  latency \in Nat /\ (Protocol = "DRAGON" => latency >= 1)
<1>1. \A x, y : FillLatency(x, y) \in Nat /\ FillLatency(x, y) >= 1
  <2>1. BlockSize \div 4 \in Nat
    BY SizeAssumption
  <2> QED BY <2>1 DEF FillLatency
<1> USE <1>1 DEF handle_bus_transaction, UpgradeResult, FillResult
<1>2. CASE Protocol = "MESI"
  BY <1>2 DEF MESI_handle_bus_transaction
<1>3. CASE Protocol = "DRAGON"
  BY <1>3 DEF Dragon_handle_bus_transaction
<1>4. CASE Protocol = "MESIF"
  BY <1>4 DEF MESIF_handle_bus_transaction
<1>5. CASE Protocol = "SMART"
  BY <1>5 DEF Smart_handle_bus_transaction
<1>6. CASE Protocol = "MOESI"
  BY <1>6 DEF MOESI_handle_bus_transaction
<1> QED BY ONLY <1>2, <1>3, <1>4, <1>5, <1>6, ProtocolAssumption

\* The request that is granted, and what the step does with it.
GrantOf(e, req, done) ==
  /\ req \in bus_queue
  /\ caches' = handle_bus_transaction(caches, req.core_id, req.type,
                                      req.addr).caches
  /\ done = e.timestamp + handle_bus_transaction(caches, req.core_id, req.type,
                                                 req.addr).latency
  /\ events' = schedule(schedule(pop(e), BusReleaseEvent(done)),
                        CoreUnblockEvent(req.core_id, done))
  /\ bus_queue' = bus_queue \ {req}
  /\ bus_busy' = TRUE
  /\ UNCHANGED <<blocked, trace_exhausted>>

\* A grant in the terms of GrantOf: no request is a WRITEBACK.
LEMMA GrantFacts ==
  ASSUME TypeOK, NEW e \in DOMAIN events, ArbitrationGrant(e)
  PROVE  \E req, done : GrantOf(e, req, done)
<1>1. PICK req \in bus_queue :
        LET res  == handle_bus_transaction(caches, req.core_id, req.type,
                                           req.addr)
            done == e.timestamp + res.latency
        IN  /\ caches' = res.caches
            /\ LET released == schedule(pop(e), BusReleaseEvent(done))
               IN  events' = IF req.type = "WRITEBACK" THEN released
                             ELSE schedule(released,
                                           CoreUnblockEvent(req.core_id, done))
            /\ bus_queue' = erase(bus_queue, req)
  BY DEF ArbitrationGrant
<1>2. req.type # "WRITEBACK"
  BY DEF TypeOK, BusRequest
<1>3. bus_busy' = TRUE /\ UNCHANGED <<blocked, trace_exhausted>>
  BY DEF ArbitrationGrant
<1> QED BY <1>1, <1>2, <1>3 DEF GrantOf, erase

\* BusArbitrationEvent::execute keeps the invariant.
LEMMA GrantStep ==
  ASSUME TypeOK, CoresInv, BusInv, NEW e \in DOMAIN events, Top(e),
         e.kind = "BusArbitration", current_time' = e.timestamp,
         NEW req, NEW done, GrantOf(e, req, done)
  PROVE  TypeOK' /\ CoresInv' /\ BusInv'
<1> DEFINE r == req.core_id
           rel == BusReleaseEvent(done)
           unb == CoreUnblockEvent(r, done)
           N == {rel, unb}
<1>1. /\ req \in bus_queue /\ req.core_id \in Cores
      /\ req.type \in {"BUS_RD", "BUS_RDX", "BUS_UPGR"}
  BY DEF GrantOf, TypeOK, BusRequest
<1>2. e.timestamp \in Nat /\ e.core_id = -1
  BY EventFacts
<1>3. done \in Nat /\ e.timestamp <= done
  BY <1>1, <1>2, LatencyFacts DEF GrantOf
<1>4. /\ rel \in Event /\ rel.timestamp = done /\ rel.core_id = -1
      /\ rel.kind = "BusRelease"
      /\ unb \in Event /\ unb.timestamp = done /\ unb.core_id = r
      /\ unb.kind = "CoreUnblock"
  BY <1>1, <1>3 DEF Event, BusReleaseEvent, CoreUnblockEvent
<1>5. /\ ~bus_busy
      /\ \A f \in DOMAIN events : f.kind # "BusRelease"
      /\ \A f \in DOMAIN events : f.core_id # r
      /\ \A q \in bus_queue : q.core_id = r => q = req
      /\ \A f \in DOMAIN events : f.kind = "BusArbitration" => f = e
  <2>1. ~bus_busy
    BY TopFacts
  <2>2. RequestsOf(r) # {}
    BY <1>1 DEF RequestsOf
  <2>3. \A f \in DOMAIN events : f.core_id # r
    BY <1>1, <2>2 DEF CoresInv, EventsOf
  <2>4. \A q \in bus_queue : q.core_id = r => q = req
    BY <1>1 DEF CoresInv, RequestsOf
  <2>5. \A f \in DOMAIN events : f.kind = "BusArbitration" => f = e
    BY EventFacts DEF BusInv
  <2> QED BY <2>1, <2>3, <2>4, <2>5 DEF BusInv
<1> HIDE DEF rel, unb, r
<1>6. Replaced(e, N)
  <2>1. rel \notin DOMAIN events /\ unb \notin DOMAIN events /\ rel # unb
    BY <1>4, <1>5
  <2>2. events' = schedule(schedule(pop(e), rel), unb)
    BY Zenon DEF GrantOf, rel, unb, r
  <2>3. schedule(schedule(pop(e), rel), unb)
          = SetToBag((DOMAIN events \ {e}) \cup {rel, unb})
    BY <2>1, QueueFacts
  <2> QED BY <1>3, <1>4, <2>2, <2>3 DEF Replaced
<1>7. /\ DOMAIN events' = (DOMAIN events \ {e}) \cup N
      /\ current_time' = e.timestamp
  BY <1>6, ReplacedFacts
<1>8. /\ bus_queue' = bus_queue \ {req} /\ bus_busy' = TRUE
      /\ blocked' = blocked /\ trace_exhausted' = trace_exhausted
  BY DEF GrantOf
<1>9. TypeOK'
  BY <1>6, <1>8, ReplacedFacts DEF TypeOK
<1>10. ASSUME NEW c \in Cores, c # r
       PROVE  EventsOf(c)' = EventsOf(c) /\ RequestsOf(c)' = RequestsOf(c)
  <2>1. EventsOf(c)' = EventsOf(c)
    BY <1>2, <1>4, <1>7, <1>10, NoCore DEF EventsOf
  <2>2. RequestsOf(c)' = RequestsOf(c)
    BY <1>8, <1>10 DEF RequestsOf, r
  <2> QED BY <2>1, <2>2
<1>11. EventsOf(r)' = {unb} /\ RequestsOf(r)' = {} /\ RequestsOf(r) # {}
  BY <1>1, <1>4, <1>5, <1>7, <1>8, NoCore DEF EventsOf, RequestsOf, r
<1>12. CoresInv'
  BY <1>4, <1>8, <1>10, <1>11 DEF CoresInv
<1>13. BusInv'
  <2>1. \A f \in DOMAIN events' : f.kind = "BusRelease" <=> f = rel
    BY <1>4, <1>5, <1>7
  <2>2. \A f \in DOMAIN events' : f.kind # "BusArbitration"
    BY <1>4, <1>5, <1>7
  <2> QED BY <1>7, <1>8, <2>1, <2>2 DEF BusInv
<1> QED BY <1>9, <1>12, <1>13

\* The one event of a core on top of the queue.
LEMMA CoreEventFacts ==
  ASSUME TypeOK, CoresInv, NEW e \in DOMAIN events,
         e.kind \in {"CoreUnblock", "Fetch"}
  PROVE  /\ e.core_id \in Cores /\ e.timestamp \in Nat
         /\ EventsOf(e.core_id) = {e}
         /\ RequestsOf(e.core_id) = {}
         /\ trace_exhausted[e.core_id] = FALSE
         /\ blocked[e.core_id] <=> e.kind = "CoreUnblock"
<1>1. e.core_id \in Cores /\ e.timestamp \in Nat
  BY EventFacts
<1>2. e \in EventsOf(e.core_id)
  BY DEF EventsOf
<1>3. EventsOf(e.core_id) = {e}
  BY <1>1, <1>2 DEF CoresInv
<1> QED BY <1>1, <1>3 DEF CoresInv, TypeOK

\* The core goes on with a fetch: after an unblock, a computation or a hit.
LEMMA ContinueStep ==
  ASSUME TypeOK, CoresInv, BusInv, NEW e \in DOMAIN events, Top(e),
         current_time' = e.timestamp, e.kind \in {"CoreUnblock", "Fetch"},
         NEW t \in Nat, e.timestamp <= t,
         events' = schedule(pop(e), FetchEvent(e.core_id, t)),
         blocked' = [blocked EXCEPT ![e.core_id] = FALSE],
         UNCHANGED <<trace_exhausted, bus_queue, bus_busy>>
  PROVE  TypeOK' /\ CoresInv' /\ BusInv'
<1> DEFINE c == e.core_id
           new == FetchEvent(c, t)
<1>1. /\ c \in Cores /\ e.timestamp \in Nat
      /\ EventsOf(c) = {e} /\ RequestsOf(c) = {} /\ trace_exhausted[c] = FALSE
  BY CoreEventFacts
<1>2. new \in Event /\ new.timestamp = t /\ new.core_id = c /\ new.kind = "Fetch"
  BY <1>1 DEF Event, FetchEvent
<1>3. new \notin DOMAIN events \ {e}
  BY <1>1, <1>2 DEF EventsOf
<1> HIDE DEF new
<1>4. Replaced(e, {new})
  BY <1>2, <1>3, QueueFacts DEF Replaced, new
<1>5. DOMAIN events' = (DOMAIN events \ {e}) \cup {new}
  BY <1>4, ReplacedFacts
<1>6. blocked' \in [Cores -> BOOLEAN] /\ blocked'[c] = FALSE
      /\ \A d \in Cores : d # c => blocked'[d] = blocked[d]
  BY <1>1 DEF TypeOK
<1>7. TypeOK'
  BY <1>4, <1>6, ReplacedFacts DEF TypeOK
<1>8. /\ EventsOf(c)' = {new} /\ RequestsOf(c)' = {}
      /\ \A d \in Cores : RequestsOf(d)' = RequestsOf(d)
      /\ \A d \in Cores : d # c => EventsOf(d)' = EventsOf(d)
  BY <1>1, <1>2, <1>5 DEF EventsOf, RequestsOf
<1>9. CoresInv'
  BY <1>1, <1>2, <1>6, <1>8 DEF CoresInv
<1>10. BusInv'
  <2>1. bus_busy \/ bus_queue = {}
    BY TopFacts
  <2>2. \A f \in DOMAIN events : f.kind # "BusArbitration"
    BY <2>1 DEF BusInv
  <2> QED BY <1>2, <1>5, <2>1, <2>2 DEF BusInv
<1> QED BY <1>7, <1>9, <1>10

\* The core has read the end of its trace.
LEMMA EndStep ==
  ASSUME TypeOK, CoresInv, BusInv, NEW e \in DOMAIN events, Top(e),
         current_time' = e.timestamp, e.kind = "Fetch", FetchEnd(e.core_id, e)
  PROVE  TypeOK' /\ CoresInv' /\ BusInv'
<1> DEFINE c == e.core_id
<1>1. /\ c \in Cores /\ e.timestamp \in Nat
      /\ EventsOf(c) = {e} /\ RequestsOf(c) = {} /\ ~blocked[c]
  BY CoreEventFacts
<1>2. /\ trace_exhausted' = [trace_exhausted EXCEPT ![c] = TRUE]
      /\ events' = pop(e) /\ blocked' = blocked /\ bus_queue' = bus_queue
      /\ bus_busy' = bus_busy
  BY DEF FetchEnd
<1>3. Replaced(e, {})
  BY <1>2, QueueFacts DEF Replaced
<1>4. DOMAIN events' = DOMAIN events \ {e}
  <2>1. DOMAIN events' = (DOMAIN events \ {e}) \cup {}
    BY <1>3, ReplacedFacts
  <2> QED BY <2>1
<1>5. trace_exhausted' \in [Cores -> BOOLEAN] /\ trace_exhausted'[c] = TRUE
      /\ \A d \in Cores : d # c => trace_exhausted'[d] = trace_exhausted[d]
  BY <1>1, <1>2 DEF TypeOK
<1>6. TypeOK'
  BY <1>2, <1>3, <1>5, ReplacedFacts DEF TypeOK
<1>7. /\ EventsOf(c)' = {} /\ RequestsOf(c)' = {}
      /\ \A d \in Cores : RequestsOf(d)' = RequestsOf(d)
      /\ \A d \in Cores : d # c => EventsOf(d)' = EventsOf(d)
  BY <1>1, <1>2, <1>4 DEF EventsOf, RequestsOf
<1>8. CoresInv'
  BY <1>1, <1>2, <1>5, <1>7 DEF CoresInv
<1>9. BusInv'
  <2>1. bus_busy \/ bus_queue = {}
    BY TopFacts
  <2>2. \A f \in DOMAIN events : f.kind # "BusArbitration"
    BY <2>1 DEF BusInv
  <2> QED BY <1>2, <1>4, <2>1, <2>2 DEF BusInv
<1> QED BY <1>6, <1>8, <1>9

\* The core blocks on a miss.  An arbitration is scheduled only if none is
\* due: had a request waited for a free bus, the arbitration would have come
\* before this fetch.
LEMMA MissStep ==
  ASSUME TypeOK, CoresInv, BusInv, NEW e \in DOMAIN events, Top(e),
         current_time' = e.timestamp, e.kind = "Fetch",
         NEW req \in BusRequest, req.core_id = e.core_id,
         blocked' = [blocked EXCEPT ![e.core_id] = TRUE],
         bus_queue' = bus_queue \cup {req},
         events' = IF bus_busy THEN pop(e)
                   ELSE schedule(pop(e), BusArbitrationEvent(e.timestamp)),
         UNCHANGED <<trace_exhausted, bus_busy>>
  PROVE  TypeOK' /\ CoresInv' /\ BusInv'
<1> DEFINE c == e.core_id
           new == BusArbitrationEvent(e.timestamp)
           N == IF bus_busy THEN {} ELSE {new}
<1>1. /\ c \in Cores /\ e.timestamp \in Nat
      /\ EventsOf(c) = {e} /\ RequestsOf(c) = {} /\ trace_exhausted[c] = FALSE
  BY CoreEventFacts
<1>2. bus_busy \/ bus_queue = {}
  BY TopFacts
<1>3. \A f \in DOMAIN events : f.kind # "BusArbitration"
  BY <1>2 DEF BusInv
<1>4. /\ new \in Event /\ new.timestamp = e.timestamp /\ new.core_id = -1
      /\ new.kind = "BusArbitration"
  BY <1>1 DEF Event, BusArbitrationEvent
<1> HIDE DEF new
<1>5. Replaced(e, N)
  <2>1. new \notin DOMAIN events
    BY <1>3, <1>4
  <2>2. events' = SetToBag((DOMAIN events \ {e}) \cup N)
    BY <2>1, QueueFacts DEF new
  <2> QED BY <1>1, <1>4, <2>2 DEF Replaced
<1>6. DOMAIN events' = (DOMAIN events \ {e}) \cup N
  BY <1>5, ReplacedFacts
<1>7. blocked' \in [Cores -> BOOLEAN] /\ blocked'[c] = TRUE
      /\ \A d \in Cores : d # c => blocked'[d] = blocked[d]
  BY <1>1 DEF TypeOK
<1>8. TypeOK'
  BY <1>5, <1>7, ReplacedFacts DEF TypeOK
<1>9. /\ EventsOf(c)' = {} /\ RequestsOf(c)' = {req}
      /\ \A d \in Cores : d # c => RequestsOf(d)' = RequestsOf(d)
      /\ \A d \in Cores : d # c => EventsOf(d)' = EventsOf(d)
  BY <1>1, <1>4, <1>6, NoCore DEF EventsOf, RequestsOf
<1>10. CoresInv'
  BY <1>1, <1>7, <1>9 DEF CoresInv
<1>11. BusInv'
  BY <1>2, <1>3, <1>4, <1>6 DEF BusInv
<1> QED BY <1>8, <1>10, <1>11

-----------------------------------------------------------------------------
(***************************************************************************)
(* Every step is a step of the coherence state machine, or leaves it alone.*)
(***************************************************************************)
\* Steps that touch neither caches nor requests.
LEMMA MachineUnchanged ==
  ASSUME UNCHANGED <<caches, bus_queue>>
  PROVE  UNCHANGED C!vars
BY DEF C!vars

\* What the protocol answers to an access.
LEMMA ResponseFacts ==
  ASSUME CP!IInv, NEW c \in Cores, NEW a \in TraceAddrs[c], NEW w \in BOOLEAN
  PROVE  LET resp == handle_processor_request(caches, c, a, w)
         IN  /\ a \in Addrs
             /\ resp.is_hit \in BOOLEAN
             /\ ~resp.is_hit =>
                  resp.bus_action \in {"BUS_RD", "BUS_RDX", "BUS_UPGR"}
<1> DEFINE resp == handle_processor_request(caches, c, a, w)
<1>1. a \in Addrs /\ a \in CP!Addrs
  BY DEF Addrs, CP!Addrs
<1>2. CP!SizeAssumption
  BY SizeAssumption DEF CP!num_sets, CP!IsPowerOfTwo, num_sets, IsPowerOfTwo
<1>3. CP!CacheOK(caches[c])
  BY DEF CP!IInv, CP!TypeOK
<1>4. CP!RequestOutcome(caches[c], a, CP!handle_processor_request(caches, c, a, w))
  BY <1>1, <1>2, <1>3, AssocAssumption, ProtocolAssumption, TraceAssumption,
     CP!RequestBranches
<1>5. CP!RequestOutcome(caches[c], a, resp)
  BY <1>4, CPRequest
<1> HIDE DEF resp
<1>6. /\ resp.is_hit \in BOOLEAN
      /\ ~resp.is_hit => resp.bus_action \in {"BUS_RD", "BUS_RDX", "BUS_UPGR"}
  BY <1>5 DEF CP!RequestOutcome
<1> QED BY <1>1, <1>6 DEF resp

\* A fetched access is a Hit or a Miss of the state machine.
LEMMA AccessIsMachineStep ==
  ASSUME NEW c \in Cores, RequestsOf(c) = {}, NEW a \in TraceAddrs[c],
         NEW w \in BOOLEAN, NEW e, FetchAccess(c, e, a, w)
  PROVE  C!Next
<1> DEFINE resp == handle_processor_request(caches, c, a, w)
           req == [core_id |-> c, type |-> resp.bus_action, addr |-> a,
                   arrival_time |-> e.timestamp]
<1>1. ~C!blocked(c)
  BY DEF C!blocked, RequestsOf, Untimed
<1>2. C!handle_processor_request(caches, c, a, w) = resp
  BY CRequest
<1>3. /\ caches' = [caches EXCEPT ![c] = resp.cache]
      /\ \/ resp.is_hit /\ bus_queue' = bus_queue
         \/ ~resp.is_hit /\ bus_queue' = bus_queue \cup {req}
  BY DEF FetchAccess
<1> HIDE DEF resp
<1>4. CASE resp.is_hit /\ bus_queue' = bus_queue
  <2>1. C!Hit(c, a, w)
    BY <1>1, <1>2, <1>3, <1>4 DEF C!Hit
  <2> QED BY <2>1 DEF C!Next
<1>5. CASE ~resp.is_hit /\ bus_queue' = bus_queue \cup {req}
  <2>1. {Untimed(r) : r \in bus_queue'}
          = {Untimed(r) : r \in bus_queue}
              \cup {[core_id |-> c, type |-> resp.bus_action, addr |-> a]}
    <3>1. Untimed(req)
            = [core_id |-> c, type |-> resp.bus_action, addr |-> a]
      BY DEF Untimed
    <3> HIDE DEF req
    <3> QED BY <1>5, <3>1
  <2>2. C!Miss(c, a, w)
    BY <1>1, <1>2, <1>3, <1>5, <2>1 DEF C!Miss
  <2> QED BY <2>2 DEF C!Next
<1> QED BY <1>3, <1>4, <1>5

\* A granted request is a Grant of the state machine.
LEMMA GrantIsMachineStep ==
  ASSUME TypeOK, CoresInv, NEW e, NEW req, NEW done, GrantOf(e, req, done)
  PROVE  C!Next
<1>1. req \in bus_queue /\ req.core_id \in Cores
  BY DEF GrantOf, TypeOK, BusRequest
<1>2. \A r \in bus_queue : r.core_id = req.core_id => r = req
  BY <1>1 DEF CoresInv, RequestsOf
<1>3. \A r \in bus_queue : r # req => Untimed(r) # Untimed(req)
  BY <1>2 DEF Untimed
<1>4. {Untimed(r) : r \in bus_queue'}
        = {Untimed(r) : r \in bus_queue} \ {Untimed(req)}
  BY <1>1, <1>3 DEF GrantOf
<1>5. caches' = C!handle_bus_transaction(caches, Untimed(req).core_id,
                  Untimed(req).type, Untimed(req).addr).caches
  BY CTransaction DEF GrantOf, Untimed
<1>6. C!Grant(Untimed(req))
  BY <1>4, <1>5 DEF C!Grant
<1> QED BY <1>1, <1>6 DEF C!Next

-----------------------------------------------------------------------------
(***************************************************************************)
(* The whole step.                                                         *)
(***************************************************************************)
\* A load or store keeps the invariant, whether it hits or misses.
LEMMA AccessStep ==
  ASSUME TypeOK, CoresInv, BusInv, CP!IInv, NEW e \in DOMAIN events, Top(e),
         current_time' = e.timestamp, e.kind = "Fetch",
         NEW a \in TraceAddrs[e.core_id], NEW w \in BOOLEAN,
         FetchAccess(e.core_id, e, a, w)
  PROVE  TypeOK' /\ CoresInv' /\ BusInv'
<1> DEFINE c == e.core_id
           resp == handle_processor_request(caches, c, a, w)
           req == [core_id |-> c, type |-> resp.bus_action, addr |-> a,
                   arrival_time |-> e.timestamp]
<1>1. /\ c \in Cores /\ e.timestamp \in Nat
      /\ ~blocked[c] /\ blocked \in [Cores -> BOOLEAN]
  BY CoreEventFacts DEF TypeOK
<1>2. /\ a \in Addrs
      /\ ~resp.is_hit => resp.bus_action \in {"BUS_RD", "BUS_RDX", "BUS_UPGR"}
  BY <1>1, ResponseFacts
<1>3. /\ UNCHANGED <<trace_exhausted, bus_busy>>
      /\ \/ /\ resp.is_hit
            /\ events' = schedule(pop(e), FetchEvent(c, e.timestamp + 1))
            /\ UNCHANGED <<blocked, bus_queue>>
         \/ /\ ~resp.is_hit
            /\ blocked' = [blocked EXCEPT ![c] = TRUE]
            /\ bus_queue' = bus_queue \cup {req}
            /\ events' = IF bus_busy THEN pop(e)
                         ELSE schedule(pop(e), BusArbitrationEvent(e.timestamp))
  BY DEF FetchAccess
<1> HIDE DEF resp
<1>4. CASE /\ resp.is_hit
           /\ events' = schedule(pop(e), FetchEvent(c, e.timestamp + 1))
           /\ UNCHANGED <<blocked, bus_queue>>
  <2>1. blocked' = [blocked EXCEPT ![c] = FALSE]
    BY <1>1, <1>4
  <2>2. e.timestamp + 1 \in Nat /\ e.timestamp <= e.timestamp + 1
    BY <1>1
  <2> QED BY <1>3, <1>4, <2>1, <2>2, ContinueStep
<1>5. CASE /\ ~resp.is_hit
           /\ blocked' = [blocked EXCEPT ![c] = TRUE]
           /\ bus_queue' = bus_queue \cup {req}
           /\ events' = IF bus_busy THEN pop(e)
                        ELSE schedule(pop(e), BusArbitrationEvent(e.timestamp))
  <2>1. req \in BusRequest /\ req.core_id = c
    BY <1>1, <1>2, <1>5 DEF BusRequest
  <2> QED BY <1>3, <1>5, <2>1, MissStep
<1> QED BY <1>3, <1>4, <1>5

\* One iteration of Simulator::run.
LEMMA EngineStep ==
  ASSUME TypeOK, CoresInv, BusInv, CP!IInv, NEW e \in DOMAIN events, Top(e),
         current_time' = e.timestamp,
         \/ BusRelease(e) \/ ArbitrationStale(e) \/ ArbitrationGrant(e)
         \/ CoreUnblock(e) \/ Fetch(e)
  PROVE  /\ TypeOK' /\ CoresInv' /\ BusInv'
         /\ C!Next \/ UNCHANGED C!vars
<1>1. CASE BusRelease(e)
  BY <1>1, ReleaseStep, MachineUnchanged DEF BusRelease
<1>2. CASE ArbitrationStale(e)
  BY <1>2, NoStaleArbitration
<1>3. CASE ArbitrationGrant(e)
  <2>1. PICK req, done : GrantOf(e, req, done)
    BY <1>3, GrantFacts
  <2>2. e.kind = "BusArbitration"
    BY <1>3 DEF ArbitrationGrant
  <2> QED BY <2>1, <2>2, GrantStep, GrantIsMachineStep
<1>4. CASE CoreUnblock(e)
  <2>1. /\ e.kind = "CoreUnblock"
        /\ events' = schedule(pop(e), FetchEvent(e.core_id, e.timestamp))
        /\ blocked' = [blocked EXCEPT ![e.core_id] = FALSE]
        /\ UNCHANGED <<trace_exhausted, bus_queue, bus_busy, caches>>
    BY <1>4 DEF CoreUnblock
  <2>2. e.timestamp \in Nat /\ e.timestamp <= e.timestamp
    BY EventFacts
  <2>3. TypeOK' /\ CoresInv' /\ BusInv'
    BY <2>1, <2>2, ContinueStep
  <2> QED BY <2>1, <2>3, MachineUnchanged
<1>5. CASE Fetch(e)
  <2> DEFINE c == e.core_id
  <2>1. /\ e.kind = "Fetch" /\ c \in Cores /\ e.timestamp \in Nat
        /\ ~blocked[c] /\ RequestsOf(c) = {}
    BY <1>5, CoreEventFacts DEF Fetch
  <2>2. CASE FetchEnd(c, e)
    BY <2>1, <2>2, EndStep, MachineUnchanged DEF FetchEnd
  <2>3. ASSUME NEW val \in ComputeCycles, FetchCompute(c, e, val)
        PROVE  /\ TypeOK' /\ CoresInv' /\ BusInv'
               /\ C!Next \/ UNCHANGED C!vars
    <3>1. /\ events' = schedule(pop(e), FetchEvent(c, e.timestamp + val))
          /\ UNCHANGED <<blocked, trace_exhausted, bus_queue, bus_busy, caches>>
      BY <2>3 DEF FetchCompute
    <3>2. blocked' = [blocked EXCEPT ![c] = FALSE]
      BY <2>1, <3>1 DEF TypeOK
    <3>3. e.timestamp + val \in Nat /\ e.timestamp <= e.timestamp + val
      BY <2>1, SimulatorAssumption
    <3>4. TypeOK' /\ CoresInv' /\ BusInv'
      BY <2>1, <3>1, <3>2, <3>3, ContinueStep
    <3> QED BY <3>1, <3>4, MachineUnchanged
  <2>4. ASSUME NEW a \in TraceAddrs[c], NEW w \in BOOLEAN, FetchAccess(c, e, a, w)
        PROVE  /\ TypeOK' /\ CoresInv' /\ BusInv'
               /\ C!Next \/ UNCHANGED C!vars
    BY <2>1, <2>4, AccessStep, AccessIsMachineStep
  <2> QED BY <1>5, <2>1, <2>2, <2>3, <2>4 DEF Fetch
<1> QED BY <1>1, <1>2, <1>3, <1>4, <1>5

\* Every core starts with one fetch, and the bus is idle.
LEMMA InitInv == Init => TypeOK /\ CoresInv /\ BusInv
<1> SUFFICES ASSUME Init PROVE TypeOK /\ CoresInv /\ BusInv
  OBVIOUS
<1> DEFINE E == {FetchEvent(c, 0) : c \in Cores}
<1>1. /\ events = SetToBag(E) /\ current_time = 0 /\ bus_queue = {}
      /\ bus_busy = FALSE
      /\ blocked = [c \in Cores |-> FALSE]
      /\ trace_exhausted = [c \in Cores |-> FALSE]
  BY DEF Init
<1>2. DOMAIN events = E
  BY <1>1, DomainFacts
<1>3. \A e \in E : /\ e.timestamp = 0 /\ e.kind = "Fetch"
                   /\ e.core_id \in Cores /\ e = FetchEvent(e.core_id, 0)
  BY DEF FetchEvent
<1>4. E \subseteq Event
  BY DEF FetchEvent, Event
<1>5. ASSUME NEW c \in Cores
      PROVE  RequestsOf(c) = {} /\ EventsOf(c) = {FetchEvent(c, 0)}
  BY <1>1, <1>2 DEF RequestsOf, EventsOf, FetchEvent
<1>6. TypeOK
  <2>1. events = SetToBag(DOMAIN events)
    BY <1>1, <1>2
  <2>2. \A e \in DOMAIN events : current_time <= e.timestamp
    BY <1>1, <1>2, <1>3
  <2>3. /\ current_time \in Nat /\ bus_queue \subseteq BusRequest
        /\ bus_busy \in BOOLEAN
        /\ blocked \in [Cores -> BOOLEAN]
        /\ trace_exhausted \in [Cores -> BOOLEAN]
    BY <1>1
  <2> HIDE DEF E
  <2> QED BY <1>2, <1>4, <2>1, <2>2, <2>3 DEF TypeOK
<1>7. CoresInv
  <2> SUFFICES ASSUME NEW c \in Cores
               PROVE  /\ \A e, f \in EventsOf(c) : e = f
                      /\ \A r, s \in RequestsOf(c) : r = s
                      /\ EventsOf(c) # {} => RequestsOf(c) = {}
                      /\ trace_exhausted[c] <=> EventsOf(c) = {} /\ RequestsOf(c) = {}
                      /\ blocked[c] <=> \/ RequestsOf(c) # {}
                                        \/ \E e \in EventsOf(c) : e.kind = "CoreUnblock"
    BY DEF CoresInv
  <2>1. FetchEvent(c, 0).kind = "Fetch"
    BY DEF FetchEvent
  <2>2. ~blocked[c] /\ ~trace_exhausted[c]
    BY <1>1
  <2> QED BY <1>5, <2>1, <2>2
<1>8. BusInv
  <2> HIDE DEF E
  <2> QED BY <1>1, <1>2, <1>3 DEF BusInv
<1> QED BY <1>6, <1>7, <1>8

\* The engine starts with the state machine's empty caches.
LEMMA InitIsMachineInit == Init => C!Init
<1>1. EmptyCache = C!EmptyCache
  BY DEF C!EmptyCache, EmptyCache, C!SetIndices, SetIndices, C!num_sets,
         num_sets, C!EmptySet, EmptySet
<1> QED BY <1>1 DEF Init, C!Init

\* The invariant holds at the start.
LEMMA InitIInv == Init => IInv
<1> SUFFICES ASSUME Init PROVE IInv
  OBVIOUS
<1>1. CP!IInv
  BY InitIsMachineInit, SameMachine, MachineIInv
<1>2. RunEndsClean
  BY DEF Init, RunEndsClean
<1> QED BY <1>1, <1>2, InitInv DEF IInv

\* A step of the specification is one iteration of the loop.
LEMMA NextStep ==
  ASSUME IInv, Next
  PROVE  /\ TypeOK' /\ CoresInv' /\ BusInv'
         /\ C!Next \/ UNCHANGED C!vars
         /\ running' = (events' # EmptyBag /\ ~AllDone')
<1>1. PICK e \in DOMAIN events :
        /\ Top(e)
        /\ current_time' = e.timestamp
        /\ \/ BusRelease(e) \/ ArbitrationStale(e) \/ ArbitrationGrant(e)
           \/ CoreUnblock(e) \/ Fetch(e)
  BY DEF Next
<1>2. TypeOK /\ CoresInv /\ BusInv /\ CP!IInv
  BY DEF IInv
<1>3. /\ TypeOK' /\ CoresInv' /\ BusInv'
      /\ C!Next \/ UNCHANGED C!vars
  BY ONLY <1>1, <1>2, EngineStep
<1> QED BY <1>3 DEF Next

\* A step that changes nothing.
LEMMA StutterStep ==
  ASSUME IInv, UNCHANGED vars
  PROVE  /\ TypeOK' /\ CoresInv' /\ BusInv' /\ RunEndsClean'
         /\ UNCHANGED C!vars
<1>1. /\ events' = events /\ current_time' = current_time /\ caches' = caches
      /\ blocked' = blocked /\ trace_exhausted' = trace_exhausted
      /\ bus_queue' = bus_queue /\ bus_busy' = bus_busy /\ running' = running
  BY DEF vars
<1>2. UNCHANGED C!vars
  BY <1>1 DEF C!vars
<1>3. TypeOK /\ CoresInv /\ BusInv /\ RunEndsClean
  BY DEF IInv
<1>4. TypeOK'
  BY <1>1, <1>3 DEF TypeOK
<1>5. CoresInv'
  BY <1>1, <1>3 DEF CoresInv, EventsOf, RequestsOf
<1>6. BusInv'
  BY <1>1, <1>3 DEF BusInv
<1>7. RunEndsClean'
  BY <1>1, <1>3 DEF RunEndsClean, AllDone
<1> QED BY <1>2, <1>4, <1>5, <1>6, <1>7

\* Each step of the engine is a step of the coherence state machine or
\* leaves caches and requests alone.
LEMMA MachineStep == IInv /\ [Next]_vars => [C!Next]_C!vars
BY NextStep, StutterStep

\* Every step keeps the invariant.
LEMMA NextIInv == IInv /\ [Next]_vars => IInv'
<1>1. (TypeOK /\ CoresInv /\ BusInv /\ events = EmptyBag => AllDone)'
  BY EmptyQueueFacts, PTL
<1> SUFFICES ASSUME IInv, [Next]_vars PROVE IInv'
  OBVIOUS
<1>2. TypeOK' /\ CoresInv' /\ BusInv'
  BY NextStep, StutterStep
<1>3. RunEndsClean'
  <2>1. CASE Next
    <3>1. running' = (events' # EmptyBag /\ ~AllDone')
      BY <2>1, NextStep
    <3>2. (events = EmptyBag)' => AllDone'
      BY <1>1, <1>2
    <3> QED BY <3>1, <3>2 DEF RunEndsClean
  <2>2. CASE UNCHANGED vars
    BY <2>2, StutterStep
  <2> QED BY <2>1, <2>2
<1>4. CP!IInv'
  <2>1. [C!Next]_C!vars
    BY MachineStep
  <2>2. [CP!Next]_CP!vars
    BY <2>1, SameMachine DEF C!vars, CP!vars
  <2> QED BY <2>2, MachineIInv DEF IInv
<1> QED BY <1>2, <1>3, <1>4 DEF IInv

-----------------------------------------------------------------------------
(***************************************************************************)
(* The theorems.                                                           *)
(***************************************************************************)
\* The engine's inductive invariant holds in every state of every run.
THEOREM EngineInvariance == Spec => []IInv
<1>1. Init => IInv
  BY InitIInv
<1>2. IInv /\ [Next]_vars => IInv'
  BY NextIInv
<1> QED BY <1>1, <1>2, PTL DEF Spec

\* No core is lost or runs twice: FetchEvent, CoreUnblockEvent, the waiting
\* BusRequest and the end of the trace exclude each other.
THEOREM CoresKeepGoing == Spec => []OneContinuationPerCore
<1>1. IInv => OneContinuationPerCore
  BY ContinuationFacts DEF IInv
<1> QED BY <1>1, EngineInvariance, PTL

\* Bus::release and the misses hand the bus over exactly once: no
\* BusArbitrationEvent finds the bus busy or the queue empty.
THEOREM BusKeepsGoing == Spec => []BusHandedOver
<1>1. IInv => BusHandedOver
  BY BusFacts DEF IInv
<1> QED BY <1>1, EngineInvariance, PTL

\* Simulator::run never stops with work left, although it also stops when
\* its event queue is empty.
THEOREM RunsEndClean == Spec => []RunEndsClean
<1>1. IInv => RunEndsClean
  BY DEF IInv
<1> QED BY <1>1, EngineInvariance, PTL

\* The engine implements the coherence state machine.
THEOREM EngineRefinesCoherence == Spec => ImplementsCoherence
<1>1. Init => C!Init
  BY InitIsMachineInit
<1>2. IInv /\ [Next]_vars => [C!Next]_C!vars
  BY MachineStep
<1> QED BY <1>1, <1>2, EngineInvariance, PTL DEF Spec, ImplementsCoherence, C!Spec

\* What CoherenceProofs shows of the state machine holds of the caches of a
\* simulation: one writer, one owner, and no upgrade of a line that is gone.
THEOREM CachesCoherent ==
  Spec => [](C!ExclusiveCopy /\ C!SingleOwner /\ C!UpgradeFindsLine)
<1>1. CP!IInv => CP!ExclusiveCopy /\ CP!SingleOwner /\ CP!UpgradeFindsLine
  <2>1. CP!SizeAssumption
    BY SizeAssumption DEF CP!num_sets, CP!IsPowerOfTwo, num_sets, IsPowerOfTwo
  <2> QED BY <2>1, AssocAssumption, ProtocolAssumption, TraceAssumption,
             CP!PairsFacts DEF CP!IInv
<1>2. /\ CP!ExclusiveCopy <=> C!ExclusiveCopy
      /\ CP!SingleOwner <=> C!SingleOwner
      /\ CP!UpgradeFindsLine <=> C!UpgradeFindsLine
  BY DEF CP!ExclusiveCopy, C!ExclusiveCopy, CP!SingleOwner, C!SingleOwner,
         CP!UpgradeFindsLine, C!UpgradeFindsLine, CP!Valid, C!Valid,
         CP!StateOf, C!StateOf, CP!Resident, C!Resident, CP!find, C!find,
         CP!set_idx, C!set_idx, CP!tag_of, C!tag_of, CP!num_sets, C!num_sets,
         CP!Addrs, C!Addrs, CP!WritableStates, C!WritableStates,
         CP!OwnerStates, C!OwnerStates, CP!LineState, C!LineState
<1>3. IInv => CP!IInv
  BY DEF IInv
<1> QED BY <1>1, <1>2, <1>3, EngineInvariance, PTL

-----------------------------------------------------------------------------
(***************************************************************************)
(* The arbiter is fair in both of its builds, for every number of cores,   *)
(* every trace and every protocol: while a request waits - with            *)
(* READ_PRIORITY, while a read waits - no core is granted the bus twice.   *)
(* That a core may be granted it once more in the very cycle of its grant, *)
(* because an upgrade takes no time, is what makes this need a proof.      *)
(***************************************************************************)
-----------------------------------------------------------------------------
(***************************************************************************)
(* The inductive invariant.                                                *)
(***************************************************************************)
\* A core that does not wait has been overtaken by nobody.
HistoryOK ==
  /\ overtaken \in [Cores -> SUBSET Cores]
  /\ \A c \in Cores : RequestsOf(c) = {} => overtaken[c] = {}

\* The requests that wait for a busy bus were there before it is released.
WaitersBeforeRelease ==
  \A f \in DOMAIN events, req \in bus_queue :
    f.kind = "BusRelease" => req.arrival_time < f.timestamp

\* Of the requests at a free bus, only a lonely one can be of this cycle.
WaitersBeforeNow ==
  ~bus_busy => \A r, s \in bus_queue : r # s => r.arrival_time < current_time

\* A core that has overtaken a request goes on later than the request came.
OvertakerLater(c, d) ==
  \A req \in RequestsOf(c) :
    /\ \A f \in EventsOf(d) : req.arrival_time < f.timestamp
    /\ \A r \in RequestsOf(d) : req.arrival_time < r.arrival_time

OvertakersLater == \A c \in Cores : \A d \in overtaken[c] : OvertakerLater(c, d)

ArbiterInv ==
  HistoryOK /\ WaitersBeforeRelease /\ WaitersBeforeNow /\ OvertakersLater

-----------------------------------------------------------------------------
(***************************************************************************)
(* Steps that leave the waiting requests alone.                            *)
(***************************************************************************)
\* Event e is replaced by the events of N, none of them a release, all of
\* them of e's core or of none; the bus changes hands only in a release.
GoesOn(e, N) ==
  /\ current_time' = e.timestamp
  /\ bus_queue' = bus_queue
  /\ DOMAIN events' \subseteq (DOMAIN events \ {e}) \cup N
  /\ \A f \in N : /\ f.timestamp \in Nat /\ e.timestamp <= f.timestamp
                  /\ f.kind # "BusRelease"
                  /\ f.core_id \in Cores => f.core_id = e.core_id
  /\ e.kind = "BusRelease" \/ bus_busy' = bus_busy

\* What a waiting request is.
LEMMA RequestFacts ==
  ASSUME TypeOK, NEW req \in bus_queue
  PROVE  /\ req.core_id \in Cores /\ req.arrival_time \in Nat
         /\ req.type \in {"BUS_RD", "BUS_RDX", "BUS_UPGR"}
         /\ req \in RequestsOf(req.core_id)
BY DEF TypeOK, BusRequest, RequestsOf

\* No request leaves the queue, so nobody is overtaken.
LEMMA NothingRecorded ==
  ASSUME HistoryOK, Record, bus_queue' = bus_queue
  PROVE  /\ overtaken' = overtaken
         /\ GrantedNow = {}
         /\ \A c \in Cores : RequestsOf(c)' = RequestsOf(c)
<1>1. \A c \in Cores : RequestsOf(c)' = RequestsOf(c)
  BY DEF RequestsOf
<1>2. GrantedNow = {}
  BY <1>1 DEF GrantedNow
<1>3. overtaken' = [c \in Cores |-> overtaken[c]]
  <2>1. overtaken' = [c \in Cores |-> IF RequestsOf(c)' = {} THEN {}
                                      ELSE overtaken[c] \cup GrantedNow]
    BY DEF Record
  <2>2. \A c \in Cores : (IF RequestsOf(c)' = {} THEN {}
                          ELSE overtaken[c] \cup GrantedNow) = overtaken[c]
    BY <1>1, <1>2 DEF HistoryOK
  <2> QED BY <2>1, <2>2
<1> QED BY <1>1, <1>2, <1>3 DEF HistoryOK

\* Such a step keeps the invariant.
LEMMA GoesOnStep ==
  ASSUME TypeOK, BusInv, ArbiterInv, NEW e \in DOMAIN events, Top(e), Record,
         NEW N, GoesOn(e, N)
  PROVE  ArbiterInv' /\ GrantedNow = {}
<1>1. HistoryOK /\ WaitersBeforeRelease /\ WaitersBeforeNow /\ OvertakersLater
  BY DEF ArbiterInv
<1>2. /\ overtaken' = overtaken /\ GrantedNow = {}
      /\ \A c \in Cores : RequestsOf(c)' = RequestsOf(c)
  BY <1>1, NothingRecorded DEF GoesOn
<1>3. /\ e.timestamp \in Nat /\ current_time \in Nat
      /\ current_time <= e.timestamp /\ current_time' = e.timestamp
      /\ bus_queue' = bus_queue
  BY EventFacts, TopFacts DEF TypeOK, GoesOn
<1>4. HistoryOK'
  BY <1>1, <1>2 DEF HistoryOK
<1>5. WaitersBeforeRelease'
  BY <1>1, <1>3 DEF WaitersBeforeRelease, GoesOn
<1>6. WaitersBeforeNow'
  <2> SUFFICES ASSUME ~bus_busy', NEW r \in bus_queue, NEW s \in bus_queue, r # s
               PROVE  r.arrival_time < e.timestamp
    BY <1>3 DEF WaitersBeforeNow
  <2>1. r.arrival_time \in Nat
    BY RequestFacts
  <2>2. CASE e.kind = "BusRelease"
    BY <1>1, <2>2 DEF WaitersBeforeRelease
  <2>3. CASE e.kind # "BusRelease"
    BY <1>1, <1>3, <2>1, <2>3 DEF WaitersBeforeNow, GoesOn
  <2> QED BY <2>2, <2>3
<1>7. OvertakersLater'
  <2> SUFFICES ASSUME NEW c \in Cores, NEW d \in overtaken[c],
                      NEW req \in RequestsOf(c)
               PROVE  /\ \A f \in EventsOf(d)' : req.arrival_time < f.timestamp
                      /\ \A r \in RequestsOf(d)' : req.arrival_time < r.arrival_time
    BY <1>2 DEF OvertakersLater, OvertakerLater
  <2>1. d \in Cores
    BY <1>1 DEF HistoryOK
  <2>2. /\ \A f \in EventsOf(d) : req.arrival_time < f.timestamp
        /\ \A r \in RequestsOf(d) : req.arrival_time < r.arrival_time
    BY <1>1 DEF OvertakersLater, OvertakerLater
  <2>3. req.arrival_time \in Nat
    BY RequestFacts DEF RequestsOf
  <2>4. ASSUME NEW f \in EventsOf(d)' PROVE req.arrival_time < f.timestamp
    <3>1. f \in DOMAIN events' /\ f.core_id = d
      BY DEF EventsOf
    <3>2. CASE f \in DOMAIN events
      BY <2>2, <3>1, <3>2 DEF EventsOf
    <3>3. CASE f \in N
      <4>1. f.timestamp \in Nat /\ e.timestamp <= f.timestamp /\ e.core_id = d
        BY <2>1, <3>1, <3>3 DEF GoesOn
      <4>2. req.arrival_time < e.timestamp
        BY <2>2, <4>1 DEF EventsOf
      <4> QED BY <1>3, <2>3, <4>1, <4>2
    <3> QED BY <3>1, <3>2, <3>3 DEF GoesOn
  <2> QED BY <1>2, <2>1, <2>2, <2>4
<1> QED BY <1>2, <1>4, <1>5, <1>6, <1>7 DEF ArbiterInv

-----------------------------------------------------------------------------
(***************************************************************************)
(* A grant.                                                                *)
(***************************************************************************)
\* A grant in the terms of GrantOf, of the request the arbiter puts first.
LEMMA GrantFirst ==
  ASSUME TypeOK, NEW e \in DOMAIN events, ArbitrationGrant(e)
  PROVE  \E req, done : /\ GrantOf(e, req, done)
                        /\ \A other \in bus_queue \ {req} : Before(req, other)
<1>1. PICK req \in bus_queue :
        /\ \A other \in bus_queue \ {req} : Before(req, other)
        /\ LET res  == handle_bus_transaction(caches, req.core_id, req.type,
                                              req.addr)
               done == e.timestamp + res.latency
           IN  /\ caches' = res.caches
               /\ LET released == schedule(pop(e), BusReleaseEvent(done))
                  IN  events' = IF req.type = "WRITEBACK" THEN released
                                ELSE schedule(released,
                                              CoreUnblockEvent(req.core_id, done))
        /\ bus_queue' = erase(bus_queue, req)
  BY DEF ArbitrationGrant
<1>2. req.type # "WRITEBACK"
  BY RequestFacts
<1>3. bus_busy' = TRUE /\ UNCHANGED <<blocked, trace_exhausted>>
  BY DEF ArbitrationGrant
<1> QED BY <1>1, <1>2, <1>3 DEF GrantOf, erase

\* What a grant does to the waiting requests and the events of the cores.
LEMMA GrantQueues ==
  ASSUME TypeOK, CoresInv, BusInv, NEW e \in DOMAIN events, Top(e),
         e.kind = "BusArbitration", NEW req, NEW done, GrantOf(e, req, done)
  PROVE  /\ req \in bus_queue /\ req.core_id \in Cores
         /\ done \in Nat /\ e.timestamp <= done /\ e.timestamp = current_time
         /\ ~bus_busy
         /\ RequestsOf(req.core_id) = {req}
         /\ RequestsOf(req.core_id)' = {}
         /\ \A c \in Cores \ {req.core_id} : RequestsOf(c)' = RequestsOf(c)
         /\ GrantedNow = {req.core_id}
         /\ \A f \in DOMAIN events' :
              \/ f \in DOMAIN events /\ f.kind # "BusRelease"
              \/ f.timestamp = done /\ f.core_id \in {-1, req.core_id}
<1> DEFINE r == req.core_id
<1>1. /\ req \in bus_queue /\ r \in Cores
      /\ req.type \in {"BUS_RD", "BUS_RDX", "BUS_UPGR"}
      /\ req \in RequestsOf(r)
  BY RequestFacts DEF GrantOf
<1>2. e.timestamp \in Nat
  BY EventFacts
<1>3. done \in Nat /\ e.timestamp <= done
  BY <1>1, <1>2, LatencyFacts DEF GrantOf
<1>4. e.timestamp = current_time /\ ~bus_busy
  BY TopFacts DEF BusInv
<1>5. RequestsOf(r) = {req}
  BY <1>1 DEF CoresInv
<1>6. bus_queue' = bus_queue \ {req}
  BY DEF GrantOf
<1>7. RequestsOf(r)' = {}
  BY <1>5, <1>6 DEF RequestsOf
<1>8. \A c \in Cores \ {r} : RequestsOf(c)' = RequestsOf(c)
  BY <1>6 DEF RequestsOf
<1>9. GrantedNow = {r}
  BY <1>1, <1>5, <1>7, <1>8 DEF GrantedNow
<1>10. DOMAIN events' = (DOMAIN events \ {e})
                          \cup {BusReleaseEvent(done), CoreUnblockEvent(r, done)}
  <2> DEFINE rel == BusReleaseEvent(done)
             unb == CoreUnblockEvent(r, done)
             mid == schedule(pop(e), rel)
  <2>1. events' = schedule(mid, unb)
    BY DEF GrantOf
  <2> HIDE DEF rel, unb, r
  <2>2. DOMAIN mid = (DOMAIN events \ {e}) \cup {rel}
    BY QueueDomain
  <2> HIDE DEF mid
  <2>3. DOMAIN schedule(mid, unb) = DOMAIN mid \cup {unb}
    BY QueueDomain
  <2> QED BY <2>1, <2>2, <2>3 DEF rel, unb
<1>11. \A f \in DOMAIN events : f.kind # "BusRelease"
  BY <1>4 DEF BusInv
<1>12. \A f \in DOMAIN events' :
         \/ f \in DOMAIN events /\ f.kind # "BusRelease"
         \/ f.timestamp = done /\ f.core_id \in {-1, r}
  BY <1>10, <1>11 DEF BusReleaseEvent, CoreUnblockEvent
<1> QED BY <1>1, <1>3, <1>4, <1>5, <1>7, <1>8, <1>9, <1>12

\* The requests left behind came before this cycle, so the release and the
\* unblock are later than all of them.
LEMMA GrantKeeps ==
  ASSUME TypeOK, CoresInv, BusInv, ArbiterInv, NEW e \in DOMAIN events, Top(e),
         e.kind = "BusArbitration", current_time' = e.timestamp, Record,
         NEW req, NEW done, GrantOf(e, req, done)
  PROVE  ArbiterInv'
<1> DEFINE r == req.core_id
<1>1. HistoryOK /\ WaitersBeforeNow /\ OvertakersLater
  BY DEF ArbiterInv
<1>2. /\ req \in bus_queue /\ r \in Cores
      /\ done \in Nat /\ e.timestamp <= done /\ e.timestamp = current_time
      /\ ~bus_busy
      /\ RequestsOf(r)' = {}
      /\ \A c \in Cores \ {r} : RequestsOf(c)' = RequestsOf(c)
      /\ GrantedNow = {r}
      /\ \A f \in DOMAIN events' :
           \/ f \in DOMAIN events /\ f.kind # "BusRelease"
           \/ f.timestamp = done /\ f.core_id \in {-1, r}
  BY GrantQueues
<1>3. bus_queue' = bus_queue \ {req} /\ bus_busy' = TRUE
  BY DEF GrantOf
<1>4. ASSUME NEW q \in bus_queue' PROVE q.arrival_time < done /\ q \in bus_queue
  <2>1. q \in bus_queue /\ q # req
    BY <1>3
  <2>2. q.arrival_time \in Nat /\ current_time \in Nat
    BY <2>1, RequestFacts DEF TypeOK
  <2>3. q.arrival_time < current_time
    BY <1>1, <1>2, <2>1 DEF WaitersBeforeNow
  <2> QED BY <1>2, <2>1, <2>2, <2>3
<1>5. overtaken' = [c \in Cores |-> IF RequestsOf(c)' = {} THEN {}
                                    ELSE overtaken[c] \cup {r}]
  BY <1>2 DEF Record
<1>6. HistoryOK'
  BY <1>1, <1>2, <1>5 DEF HistoryOK
<1>7. WaitersBeforeRelease'
  BY <1>2, <1>4 DEF WaitersBeforeRelease
<1>8. WaitersBeforeNow'
  BY <1>3 DEF WaitersBeforeNow
<1>9. OvertakersLater'
  <2> SUFFICES ASSUME NEW c \in Cores, NEW d \in overtaken'[c],
                      NEW q \in RequestsOf(c)'
               PROVE  /\ \A f \in EventsOf(d)' : q.arrival_time < f.timestamp
                      /\ \A s \in RequestsOf(d)' : q.arrival_time < s.arrival_time
    BY DEF OvertakersLater, OvertakerLater
  <2>1. /\ c # r /\ q \in RequestsOf(c) /\ q.arrival_time < done
        /\ d \in overtaken[c] \cup {r}
    <3>1. c # r /\ d \in overtaken[c] \cup {r}
      BY <1>2, <1>5
    <3>2. q \in RequestsOf(c) /\ q \in bus_queue'
      BY <1>2, <3>1 DEF RequestsOf
    <3> QED BY <1>4, <3>1, <3>2
  <2>2. CASE d = r
    <3>1. \A f \in DOMAIN events : f.core_id # r
      BY <1>2, RequestFacts DEF CoresInv, EventsOf
    <3> QED BY <1>2, <2>1, <2>2, <3>1 DEF EventsOf
  <2>3. CASE d # r
    <3>1. d \in overtaken[c] /\ d \in Cores
      BY <1>1, <2>1, <2>3 DEF HistoryOK
    <3>2. /\ \A f \in EventsOf(d) : q.arrival_time < f.timestamp
          /\ \A s \in RequestsOf(d) : q.arrival_time < s.arrival_time
      BY <1>1, <2>1, <3>1 DEF OvertakersLater, OvertakerLater
    <3>3. EventsOf(d)' \subseteq EventsOf(d)
      BY <1>2, <2>3, <3>1, NoCore DEF EventsOf
    <3> QED BY <1>2, <2>3, <3>1, <3>2, <3>3
  <2> QED BY <2>2, <2>3
<1> QED BY <1>6, <1>7, <1>8, <1>9 DEF ArbiterInv

\* The request granted did not come after one left behind - of the reads, if
\* those go first - while the request of an overtaker did.
LEMMA GrantOvertakesOnce ==
  ASSUME TypeOK, CoresInv, BusInv, ArbiterInv, NEW e \in DOMAIN events, Top(e),
         e.kind = "BusArbitration", NEW req, NEW done, GrantOf(e, req, done),
         \A other \in bus_queue \ {req} : Before(req, other)
  PROVE  OvertakesOnce(ReadPriority)
<1> DEFINE r == req.core_id
<1>1. /\ req \in bus_queue /\ r \in Cores
      /\ RequestsOf(r) = {req} /\ RequestsOf(r)' = {}
      /\ \A c \in Cores \ {r} : RequestsOf(c)' = RequestsOf(c)
      /\ GrantedNow = {r}
  BY GrantQueues
<1> SUFFICES ASSUME NEW c \in Cores, NEW q \in RequestsOf(c)',
                    ReadPriority => q.type = "BUS_RD", r \in overtaken[c]
             PROVE  FALSE
  BY <1>1 DEF OvertakesOnce
<1>2. c # r /\ q \in RequestsOf(c) /\ q \in bus_queue /\ q.core_id = c
  BY <1>1 DEF RequestsOf
<1>3. q.arrival_time < req.arrival_time
  BY <1>1, <1>2 DEF ArbiterInv, OvertakersLater, OvertakerLater
<1>4. q.arrival_time \in Nat /\ req.arrival_time \in Nat
  BY <1>1, <1>2, RequestFacts
<1>5. Before(req, q)
  BY <1>2
<1>6. ReadPriority \in BOOLEAN
  BY SimulatorAssumption
<1>7. \/ req.arrival_time < q.arrival_time
      \/ req.arrival_time = q.arrival_time
  BY <1>5, <1>6 DEF Before
<1> QED BY <1>3, <1>4, <1>7

-----------------------------------------------------------------------------
(***************************************************************************)
(* A miss.                                                                 *)
(***************************************************************************)
\* The new request comes before the release of a busy bus, which had come
\* first in its own cycle, and finds no other request at a free one.
LEMMA MissKeeps ==
  ASSUME TypeOK, CoresInv, BusInv, ArbiterInv, NEW e \in DOMAIN events, Top(e),
         e.kind = "Fetch", current_time' = e.timestamp, Record,
         NEW req \in BusRequest, req.core_id = e.core_id,
         req.arrival_time = e.timestamp, bus_queue' = bus_queue \cup {req},
         events' = IF bus_busy THEN pop(e)
                   ELSE schedule(pop(e), BusArbitrationEvent(e.timestamp)),
         bus_busy' = bus_busy
  PROVE  ArbiterInv' /\ GrantedNow = {}
<1> DEFINE c == e.core_id
           new == BusArbitrationEvent(e.timestamp)
<1>1. /\ HistoryOK /\ WaitersBeforeRelease /\ WaitersBeforeNow
      /\ OvertakersLater
  BY DEF ArbiterInv
<1>2. /\ c \in Cores /\ e.timestamp \in Nat /\ RequestsOf(c) = {}
      /\ EventsOf(c) = {e}
  BY CoreEventFacts
<1>3. DOMAIN events' \subseteq (DOMAIN events \ {e}) \cup {new}
  BY QueueDomain
<1>4. new.kind = "BusArbitration" /\ new.core_id = -1
  BY DEF BusArbitrationEvent
<1> HIDE DEF new
<1>5. /\ RequestsOf(c)' = {req}
      /\ \A d \in Cores \ {c} : RequestsOf(d)' = RequestsOf(d)
  BY <1>2 DEF RequestsOf
<1>6. GrantedNow = {}
  BY <1>5 DEF GrantedNow
<1>7. overtaken' = overtaken
  <2>1. overtaken' = [d \in Cores |-> IF RequestsOf(d)' = {} THEN {}
                                      ELSE overtaken[d] \cup GrantedNow]
    BY DEF Record
  <2>2. ASSUME NEW d \in Cores
        PROVE  (IF RequestsOf(d)' = {} THEN {}
                ELSE overtaken[d] \cup GrantedNow) = overtaken[d]
    BY <1>1, <1>2, <1>5, <1>6 DEF HistoryOK
  <2>3. overtaken' = [d \in Cores |-> overtaken[d]]
    BY <2>1, <2>2
  <2> QED BY <1>1, <2>3 DEF HistoryOK
<1>8. HistoryOK'
  BY <1>1, <1>2, <1>5, <1>7 DEF HistoryOK
<1>9. WaitersBeforeRelease'
  <2> SUFFICES ASSUME NEW f \in DOMAIN events', NEW q \in bus_queue',
                      f.kind = "BusRelease"
               PROVE  q.arrival_time < f.timestamp
    BY DEF WaitersBeforeRelease
  <2>1. f \in DOMAIN events
    BY <1>3, <1>4
  <2>2. NotLater(e, f) /\ f.timestamp \in Nat
    BY <2>1, EventFacts DEF Top
  <2>3. get_priority(e.kind) = 3 /\ get_priority(f.kind) = 0
    BY DEF get_priority
  <2>4. e.timestamp < f.timestamp
    BY <1>2, <2>2, <2>3 DEF NotLater
  <2> QED BY <1>1, <2>1, <2>4 DEF WaitersBeforeRelease
<1>10. WaitersBeforeNow'
  <2> SUFFICES ASSUME ~bus_busy
               PROVE  \A r, s \in bus_queue' : r = s
    BY DEF WaitersBeforeNow
  <2>1. bus_queue = {}
    BY TopFacts
  <2> QED BY <2>1
<1>11. OvertakersLater'
  <2> SUFFICES ASSUME NEW d \in Cores, NEW o \in overtaken[d],
                      NEW q \in RequestsOf(d)'
               PROVE  /\ \A f \in EventsOf(o)' : q.arrival_time < f.timestamp
                      /\ \A s \in RequestsOf(o)' : q.arrival_time < s.arrival_time
    BY <1>7 DEF OvertakersLater, OvertakerLater
  <2>1. d # c /\ q \in RequestsOf(d) /\ o \in Cores
    BY <1>1, <1>2, <1>5 DEF HistoryOK
  <2>2. /\ \A f \in EventsOf(o) : q.arrival_time < f.timestamp
        /\ \A s \in RequestsOf(o) : q.arrival_time < s.arrival_time
    BY <1>1, <2>1 DEF OvertakersLater, OvertakerLater
  <2>3. EventsOf(o)' \subseteq EventsOf(o)
    BY <1>3, <1>4, <2>1, NoCore DEF EventsOf
  <2>4. CASE o = c
    BY <1>2, <1>5, <2>2, <2>3, <2>4
  <2>5. CASE o # c
    BY <1>5, <2>1, <2>2, <2>3, <2>5
  <2> QED BY <2>4, <2>5
<1> QED BY <1>6, <1>8, <1>9, <1>10, <1>11 DEF ArbiterInv

-----------------------------------------------------------------------------
(***************************************************************************)
(* All steps.                                                              *)
(***************************************************************************)
\* A step that grants nothing overtakes nobody.
LEMMA NoGrant == GrantedNow = {} => OvertakesOnce(ReadPriority)
BY DEF OvertakesOnce

\* FetchEvent::execute.
LEMMA FetchKeeps ==
  ASSUME TypeOK, CoresInv, BusInv, CP!IInv, ArbiterInv, NEW e \in DOMAIN events,
         Top(e), current_time' = e.timestamp, Record, Fetch(e)
  PROVE  ArbiterInv' /\ GrantedNow = {}
<1> DEFINE c == e.core_id
<1>1. /\ e.kind = "Fetch" /\ c \in Cores /\ e.timestamp \in Nat
      /\ ~blocked[c]
  BY CoreEventFacts DEF Fetch
<1>2. CASE FetchEnd(c, e)
  <2>1. GoesOn(e, {})
    BY <1>2, QueueDomain DEF FetchEnd, GoesOn
  <2> QED BY <2>1, GoesOnStep
<1>3. ASSUME NEW t \in Nat, e.timestamp <= t,
             events' = schedule(pop(e), FetchEvent(c, t)),
             UNCHANGED <<bus_queue, bus_busy>>
      PROVE  ArbiterInv' /\ GrantedNow = {}
  <2> DEFINE new == FetchEvent(c, t)
  <2>1. new.timestamp = t /\ new.kind = "Fetch" /\ new.core_id = c
    BY DEF FetchEvent
  <2>2. DOMAIN events' = (DOMAIN events \ {e}) \cup {new}
    BY <1>3, QueueDomain
  <2> HIDE DEF new
  <2>3. GoesOn(e, {new})
    BY <1>3, <2>1, <2>2 DEF GoesOn
  <2> QED BY <2>3, GoesOnStep
<1>4. ASSUME NEW val \in ComputeCycles, FetchCompute(c, e, val)
      PROVE  ArbiterInv' /\ GrantedNow = {}
  <2>1. e.timestamp + val \in Nat /\ e.timestamp <= e.timestamp + val
    BY <1>1, SimulatorAssumption
  <2> QED BY <1>3, <1>4, <2>1 DEF FetchCompute
<1>5. ASSUME NEW a \in TraceAddrs[c], NEW w \in BOOLEAN, FetchAccess(c, e, a, w)
      PROVE  ArbiterInv' /\ GrantedNow = {}
  <2> DEFINE resp == handle_processor_request(caches, c, a, w)
             req == [core_id |-> c, type |-> resp.bus_action, addr |-> a,
                     arrival_time |-> e.timestamp]
  <2>1. /\ a \in Addrs
        /\ ~resp.is_hit => resp.bus_action \in {"BUS_RD", "BUS_RDX", "BUS_UPGR"}
    BY <1>1, ResponseFacts
  <2>2. /\ bus_busy' = bus_busy
        /\ \/ /\ resp.is_hit
              /\ events' = schedule(pop(e), FetchEvent(c, e.timestamp + 1))
              /\ bus_queue' = bus_queue
           \/ /\ ~resp.is_hit
              /\ bus_queue' = bus_queue \cup {req}
              /\ events' = IF bus_busy THEN pop(e)
                           ELSE schedule(pop(e), BusArbitrationEvent(e.timestamp))
    BY <1>5 DEF FetchAccess
  <2> HIDE DEF resp
  <2>3. CASE /\ resp.is_hit
             /\ events' = schedule(pop(e), FetchEvent(c, e.timestamp + 1))
             /\ bus_queue' = bus_queue
    <3>1. e.timestamp + 1 \in Nat /\ e.timestamp <= e.timestamp + 1
      BY <1>1
    <3> QED BY <1>3, <2>2, <2>3, <3>1
  <2>4. CASE /\ ~resp.is_hit
             /\ bus_queue' = bus_queue \cup {req}
             /\ events' = IF bus_busy THEN pop(e)
                          ELSE schedule(pop(e), BusArbitrationEvent(e.timestamp))
    <3>1. /\ req \in BusRequest /\ req.core_id = c
          /\ req.arrival_time = e.timestamp
      BY <1>1, <2>1, <2>4 DEF BusRequest
    <3> HIDE DEF req
    <3> QED BY <1>1, <2>2, <2>4, <3>1, MissKeeps
  <2> QED BY <2>2, <2>3, <2>4
<1> QED BY <1>1, <1>2, <1>4, <1>5 DEF Fetch

\* Every step keeps the invariant and overtakes no request twice.
LEMMA ArbiterStep ==
  ASSUME IInv, ArbiterInv, HistoryNext
  PROVE  ArbiterInv' /\ OvertakesOnce(ReadPriority)
<1>1. PICK e \in DOMAIN events :
        /\ Top(e)
        /\ current_time' = e.timestamp
        /\ \/ BusRelease(e) \/ ArbitrationStale(e) \/ ArbitrationGrant(e)
           \/ CoreUnblock(e) \/ Fetch(e)
  BY DEF HistoryNext, Next
<1>2. TypeOK /\ CoresInv /\ BusInv /\ CP!IInv /\ Record
  BY DEF IInv, HistoryNext
<1>3. CASE BusRelease(e)
  <2> DEFINE new == BusArbitrationEvent(e.timestamp)
  <2>1. /\ new.timestamp = e.timestamp /\ new.kind = "BusArbitration"
        /\ new.core_id = -1 /\ e.timestamp \in Nat
    BY <1>2, EventFacts DEF BusArbitrationEvent
  <2>2. DOMAIN events' \subseteq (DOMAIN events \ {e}) \cup {new}
    BY <1>2, <1>3, QueueDomain DEF BusRelease
  <2> HIDE DEF new
  <2>3. GoesOn(e, {new})
    BY <1>1, <1>3, <2>1, <2>2, NoCore DEF GoesOn, BusRelease
  <2> QED BY <1>1, <1>2, <2>3, GoesOnStep, NoGrant
<1>4. CASE ArbitrationStale(e)
  BY <1>1, <1>2, <1>4, NoStaleArbitration
<1>5. CASE ArbitrationGrant(e)
  <2>1. PICK req, done :
          /\ GrantOf(e, req, done)
          /\ \A other \in bus_queue \ {req} : Before(req, other)
    BY <1>2, <1>5, GrantFirst
  <2>2. e.kind = "BusArbitration"
    BY <1>5 DEF ArbitrationGrant
  <2> QED BY <1>1, <1>2, <2>1, <2>2, GrantKeeps, GrantOvertakesOnce
<1>6. CASE CoreUnblock(e)
  <2> DEFINE new == FetchEvent(e.core_id, e.timestamp)
  <2>1. /\ new.timestamp = e.timestamp /\ new.kind = "Fetch"
        /\ new.core_id = e.core_id /\ e.timestamp \in Nat
    BY <1>2, EventFacts DEF FetchEvent
  <2>2. DOMAIN events' = (DOMAIN events \ {e}) \cup {new}
    BY <1>2, <1>6, QueueDomain DEF CoreUnblock
  <2> HIDE DEF new
  <2>3. GoesOn(e, {new})
    BY <1>1, <1>6, <2>1, <2>2 DEF GoesOn, CoreUnblock
  <2> QED BY <1>1, <1>2, <2>3, GoesOnStep, NoGrant
<1>7. CASE Fetch(e)
  BY <1>1, <1>2, <1>7, FetchKeeps, NoGrant
<1> QED BY <1>1, <1>3, <1>4, <1>5, <1>6, <1>7

\* At the start nobody waits.
LEMMA InitArbiter == HistoryInit => ArbiterInv
<1> SUFFICES ASSUME HistoryInit PROVE ArbiterInv
  OBVIOUS
<1>1. bus_queue = {} /\ overtaken = [c \in Cores |-> {}]
  BY DEF HistoryInit, Init
<1>2. \A c \in Cores : RequestsOf(c) = {}
  BY <1>1 DEF RequestsOf
<1> QED BY <1>1, <1>2
        DEF ArbiterInv, HistoryOK, WaitersBeforeRelease, WaitersBeforeNow,
            OvertakersLater, OvertakerLater

\* A step that changes nothing.
LEMMA ArbiterStutter ==
  ASSUME ArbiterInv, UNCHANGED historyVars
  PROVE  ArbiterInv'
<1>1. /\ events' = events /\ current_time' = current_time
      /\ bus_queue' = bus_queue /\ bus_busy' = bus_busy
      /\ overtaken' = overtaken
  BY DEF historyVars, vars
<1>2. \A c : RequestsOf(c)' = RequestsOf(c) /\ EventsOf(c)' = EventsOf(c)
  BY <1>1 DEF RequestsOf, EventsOf
<1>3. HistoryOK'
  BY <1>1, <1>2 DEF ArbiterInv, HistoryOK
<1>4. WaitersBeforeRelease' /\ WaitersBeforeNow'
  BY <1>1 DEF ArbiterInv, WaitersBeforeRelease, WaitersBeforeNow
<1>5. OvertakersLater'
  BY <1>1, <1>2 DEF ArbiterInv, OvertakersLater, OvertakerLater
<1> QED BY <1>3, <1>4, <1>5 DEF ArbiterInv

-----------------------------------------------------------------------------
\* BusArbitrationEvent::execute is fair: while a request waits in the queue
\* of the bus no other core is granted the bus twice; with READ_PRIORITY the
\* same holds while a read waits.
THEOREM ArbiterFair == HistorySpec => FirstComeFirstServed
<1>1. HistoryInit => IInv /\ ArbiterInv
  BY InitIInv, InitArbiter DEF HistoryInit
<1>2. IInv /\ [HistoryNext]_historyVars => IInv'
  BY NextIInv DEF HistoryNext, historyVars
<1>3. IInv /\ ArbiterInv /\ [HistoryNext]_historyVars => ArbiterInv'
  BY ArbiterStep, ArbiterStutter
<1>4. IInv /\ ArbiterInv /\ [HistoryNext]_historyVars
        => [OvertakesOnce(ReadPriority)]_historyVars
  BY ArbiterStep
<1> QED BY <1>1, <1>2, <1>3, <1>4, PTL DEF HistorySpec, FirstComeFirstServed

=============================================================================
