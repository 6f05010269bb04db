---------------------------- MODULE ResourcePool ----------------------------
(***************************************************************************)
(* The functional units of the out-of-order core (resource.c).  A pool is  *)
(* a sequence of units; a unit maps every class of operation it can        *)
(* execute to that operation's latencies.  Which units are busy, and for   *)
(* how many more cycles, is the state the pool's users keep.               *)
(***************************************************************************)
EXTENDS Naturals, Sequences, SequencesExt

CONSTANT fu_config    \* unit descriptors: [quantity, x : class -> latencies]

MAX_INSTS_PER_CLASS == 8

ASSUME FuConfigAssumption ==
  /\ fu_config \in Seq(Range(fu_config))
  /\ \A k \in 1..Len(fu_config) :
       /\ fu_config[k].quantity \in 0..MAX_INSTS_PER_CLASS
       /\ \A c \in DOMAIN fu_config[k].x :
            /\ fu_config[k].x[c].oplat \in Nat \ {0}
            /\ fu_config[k].x[c].issuelat \in Nat \ {0}

\* One entry per unit instance, in the order of the descriptors.
res_create_pool ==
  LET pool[k \in 0..Len(fu_config)] ==
        IF k = 0 THEN <<>>
        ELSE pool[k - 1] \o [j \in 1..fu_config[k].quantity |-> fu_config[k].x]
  IN  pool[Len(fu_config)]

fu_pool == res_create_pool

Units == DOMAIN fu_pool

\* The free units that execute operations of a class.
FreeUnits(busy, class) ==
  {u \in Units : class \in DOMAIN fu_pool[u] /\ busy[u] = 0}

\* The first free unit of the class.
res_get(busy, class) ==
  CHOOSE u \in FreeUnits(busy, class) :
    \A v \in FreeUnits(busy, class) : u <= v

\* A unit that executes an operation takes no other for the issue latency.
Reserve(busy, u, class) == [busy EXCEPT ![u] = fu_pool[u][class].issuelat]

\* Once per cycle the busy counts go down by one.
ruu_release_fu(busy) ==
  [u \in Units |-> IF busy[u] > 0 THEN busy[u] - 1 ELSE 0]

=============================================================================
