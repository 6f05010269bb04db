--------------------------- MODULE MESIRefinement ---------------------------
(***************************************************************************)
(* MESIF and MOESI as refinements of MESI.  Both add one state to the      *)
(* readers of a shared block (FORWARD, OWNED) to decide who supplies the   *)
(* data.  If that state is read as SHARED, every step of theirs is a step  *)
(* of MESI with the same cache contents, the same LRU order and the same   *)
(* bus requests: under one interleaving the three protocols have the same  *)
(* hits, misses and invalidations, and differ in who supplies a block and  *)
(* in when it is written back, that is, in latency and traffic only.       *)
(***************************************************************************)
EXTENDS Coherence

AsShared(state) == IF state \in {"FORWARD", "OWNED"} THEN "SHARED" ELSE state

MESICaches ==
  [c \in Cores |-> [i \in SetIndices |->
     [lru_order |-> caches[c][i].lru_order,
      lines     |-> [t \in DOMAIN caches[c][i].lines |->
                       AsShared(caches[c][i].lines[t])]]]]

MESI == INSTANCE Coherence WITH Protocol <- "MESI", caches <- MESICaches

\* Every behaviour of the protocol is a behaviour of MESI once its extra
\* sharing state is read as SHARED.
ImplementsMESI == MESI!Spec

=============================================================================
