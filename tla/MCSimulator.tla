---------------------------- MODULE MCSimulator ----------------------------
(***************************************************************************)
(* Whole simulations for TLC: all runs of finite traces, under MESI, whose *)
(* upgrades take no time, and under Dragon, whose updates have a latency   *)
(* and traffic of their own.  The protocol is chosen at the start.         *)
(***************************************************************************)
EXTENDS Simulator

VARIABLE proto    \* the protocol named on the command line

MCvars == <<vars, proto>>

Dragon == INSTANCE Simulator
            WITH Protocol <- "DRAGON", ComputeCycles <- {3},
                 MaxTrace <- 3

MCInit == Init /\ proto \in {"MESI", "DRAGON"}

MCNext ==
  /\ \/ proto = "MESI" /\ Next
     \/ proto = "DRAGON" /\ Dragon!Next
  /\ UNCHANGED proto

\* The loop of run() executes without pause.
MCSpec == MCInit /\ [][MCNext]_MCvars /\ WF_MCvars(MCNext)

\* Both cores share two blocks.
SharedBlocks == [c \in Cores |-> {0, 4}]

-----------------------------------------------------------------------------

\* The figures of the report fit together: the counters, in the traffic and
\* signals each protocol accounts for, and at the end of a run the cycles.
CountersAddUp ==
  IF proto = "MESI" THEN StatisticsConserved /\ BusyCyclesFit
  ELSE Dragon!StatisticsConserved /\ Dragon!BusyCyclesFit

=============================================================================
