---------------------------- MODULE MCProtocols ----------------------------
(***************************************************************************)
(* The coherence state machine under all five protocols, for TLC.  The     *)
(* protocol is chosen at the start and kept; each choice has traces that   *)
(* make its own difficulties happen.  MESI is the instance this module     *)
(* extends, the other four are instances on the same variables.            *)
(***************************************************************************)
EXTENDS StoreHistory, TLC

CONSTANTS c0, c1, c2

VARIABLE proto    \* the protocol named on the command line

MCvars == <<caches, bus_queue, storing, proto>>

\* Core c0 works on three blocks of one two-way set, c1 on two of them: the
\* set overflows, and c1 invalidates lines that c0 still has resident.
TwoCores == (c0 :> {0, 4, 8}) @@ (c1 :> {0, 4}) @@ (c2 :> {})

\* Three cores contend for one block; two of them use a second one.
ThreeCores == (c0 :> {0, 4}) @@ (c1 :> {0, 4}) @@ (c2 :> {0})

\* The same, and two of them evict.
ThreeCoresEvicting == (c0 :> {0, 4, 8}) @@ (c1 :> {0, 4}) @@ (c2 :> {0})

DRAGON == INSTANCE StoreHistory
            WITH Protocol <- "DRAGON", TraceAddrs <- ThreeCoresEvicting
SMART  == INSTANCE StoreHistory WITH Protocol <- "SMART"
MESIF  == INSTANCE StoreHistory
            WITH Protocol <- "MESIF", TraceAddrs <- ThreeCores,
                 Assoc <- 1, CacheSize <- BlockSize
MOESI  == INSTANCE StoreHistory
            WITH Protocol <- "MOESI", TraceAddrs <- ThreeCores,
                 Assoc <- 1, CacheSize <- BlockSize

\* MESIF and MOESI seen as MESI, with their geometry and traces.
AsMESI == INSTANCE MESIRefinement
            WITH TraceAddrs <- ThreeCores, Assoc <- 1, CacheSize <- BlockSize

MCInit ==
  /\ HistoryInit
  /\ proto \in {"MESI", "DRAGON", "SMART", "MESIF", "MOESI"}

MCNext ==
  /\ \/ proto = "MESI"   /\ HistoryNext
     \/ proto = "DRAGON" /\ DRAGON!HistoryNext
     \/ proto = "SMART"  /\ SMART!HistoryNext
     \/ proto = "MESIF"  /\ MESIF!HistoryNext
     \/ proto = "MOESI"  /\ MOESI!HistoryNext
  /\ UNCHANGED proto

MCSpec == MCInit /\ [][MCNext]_MCvars

-----------------------------------------------------------------------------

\* A transaction is charged for a writeback exactly when it throws a dirty
\* line out of the requester's cache, under every protocol.
WritebackCharged ==
  [][/\ proto = "MESI"   => ChargesWriteback
     /\ proto = "DRAGON" => DRAGON!ChargesWriteback
     /\ proto = "SMART"  => SMART!ChargesWriteback
     /\ proto = "MESIF"  => MESIF!ChargesWriteback
     /\ proto = "MOESI"  => MOESI!ChargesWriteback]_MCvars

\* What a store wrote stays in a dirty line until it is evicted.  The line is
\* dirty when the store's transaction is done, under every protocol that
\* invalidates; MOESI and Dragon, which share dirty blocks, then keep a dirty
\* copy in some cache.
DirtyDataKept ==
  [][/\ proto # "DRAGON" => StoreLeavesLineDirty
     /\ proto \in {"MOESI", "DRAGON"} => KeepsDirtyData]_MCvars

\* Smart eviction gives up a dirty line only when all lines are dirty.
CleanVictimFirst == [][proto = "SMART" => EvictsCleanFirst]_MCvars

\* Every step of MESIF and MOESI is a step of MESI once their extra sharing
\* state is read as SHARED.
ImplementsMESI ==
  [][(proto \in {"MESIF", "MOESI"}) =>
       AsMESI!MESI!Next \/ UNCHANGED AsMESI!MESI!vars]_MCvars

=============================================================================
