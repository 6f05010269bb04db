----------------------------- MODULE BusHistory -----------------------------
(***************************************************************************)
(* The simulator with a history variable that records by whom each waiting *)
(* request has been overtaken at the arbiter.                              *)
(***************************************************************************)
EXTENDS Simulator

VARIABLE overtaken    \* core -> cores granted the bus since it queued

historyVars == <<vars, overtaken>>

\* The core whose request leaves the queue in this step, if there is one.
GrantedNow == {c \in Cores : RequestsOf(c) # {} /\ RequestsOf(c)' = {}}

Record ==
  overtaken' = [c \in Cores |-> IF RequestsOf(c)' = {}
                                THEN {} ELSE overtaken[c] \cup GrantedNow]

HistoryInit == Init /\ overtaken = [c \in Cores |-> {}]

HistoryNext == Next /\ Record

HistorySpec == HistoryInit /\ [][HistoryNext]_historyVars

\* A step grants the bus to no core that has overtaken a request which still
\* waits - if reads come first, a read which still waits.
OvertakesOnce(reads_first) ==
  \A c \in Cores :
    (\E req \in RequestsOf(c)' : reads_first => req.type = "BUS_RD") =>
      overtaken[c] \cap GrantedNow = {}

\* First come, first served: while a request waits, no other core is granted
\* the bus twice - not even with upgrades that take no time at all.  With
\* READ_PRIORITY the same holds for a waiting read.
FirstComeFirstServed == [][OvertakesOnce(ReadPriority)]_historyVars
=============================================================================
