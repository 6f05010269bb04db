---------------------------- MODULE MCCoherence ----------------------------
(***************************************************************************)
(* The coherence state machine of one protocol for TLC, with two cores.    *)
(***************************************************************************)
EXTENDS StoreHistory, TLC

CONSTANTS c0, c1

\* Core c0 works on three blocks of one two-way set, c1 on two of them: the
\* set overflows, and c1 invalidates lines that c0 still has resident.
TwoCores == (c0 :> {0, 4, 8}) @@ (c1 :> {0, 4})

=============================================================================
