------------------------------ MODULE MCEngine ------------------------------
(***************************************************************************)
(* Instances of the simulator for TLC, with the history of who overtook    *)
(* whom.  How the program was compiled is chosen at the start: with        *)
(* READ_PRIORITY or, as the instance this module extends, without.         *)
(***************************************************************************)
EXTENDS BusHistory

VARIABLE read_priority    \* the program was compiled with READ_PRIORITY

MCvars == <<historyVars, read_priority>>

ReadFirst == INSTANCE Simulator WITH ReadPriority <- TRUE

MCInit == HistoryInit /\ read_priority \in BOOLEAN

MCNext ==
  /\ \/ ~read_priority /\ Next
     \/ read_priority /\ ReadFirst!Next
  /\ Record
  /\ UNCHANGED read_priority

MCSpec == MCInit /\ [][MCNext]_MCvars

-----------------------------------------------------------------------------
\* First come, first served, in both builds of the arbiter: while a request
\* waits - with READ_PRIORITY, while a read waits - no other core is granted
\* the bus twice.
NoSecondOvertaking == [][OvertakesOnce(read_priority)]_MCvars

-----------------------------------------------------------------------------
\* What the engine's future depends on, as long as no trace is used up: time
\* relative to the clock, of the arrival times only their order (new ones
\* are never before current_time), and neither statistics nor trace positions.
EngineView ==
  <<{<<e.timestamp - current_time, e.kind, e.core_id, events[e]>> :
       e \in DOMAIN events},
    {<<req.core_id, req.type, req.addr, req.arrival_time = current_time,
       {r.core_id : r \in {r \in bus_queue :
                              r.arrival_time < req.arrival_time}}>> :
       req \in bus_queue},
    caches, blocked, trace_exhausted, bus_busy, running, overtaken,
    read_priority>>

\* All cores contend for one block.
OneBlock == [c \in Cores |-> {0}]

=============================================================================
