-------------------------- MODULE WritebackProofs --------------------------
(***************************************************************************)
(* What happens to dirty data, for every number of cores, every trace and  *)
(* every geometry: which transactions are charged for a writeback, that a  *)
(* store leaves a dirty line, that the protocols that share dirty blocks   *)
(* keep a dirty copy until it is evicted, and that smart eviction gives up *)
(* a dirty line only where it has no clean one.                            *)
(***************************************************************************)
EXTENDS StoreHistory, CoherenceProofs, WellFoundedInduction, FiniteSetTheorems

-----------------------------------------------------------------------------
(***************************************************************************)
(* Which lines leave the requester's cache.                                *)
(***************************************************************************)
\* The victim of an allocation: the tag at the place of the list that the
\* selected protocol's allocate() chooses, if the set is full.
VictimPlace(set) ==
  IF Protocol = "SMART" THEN SmartVictim(set) ELSE Len(set.lru_order)

Full(set) == Cardinality(DOMAIN set.lines) >= Assoc

Victim(set) == set.lru_order[VictimPlace(set)]

\* The tags that leave the set when a line is allocated in it.
Leaves(set, tag) == IF Full(set) THEN {Victim(set)} \ {tag} ELSE {}

\* The selected allocate(), and what it reports as evicted.
Allocation(set, tag) ==
  IF Protocol = "SMART" THEN SmartAllocate(set, tag) ELSE allocate(set, tag)

\* Allocation removes the victim's line, adds the new one and keeps the
\* states of all others; it reports the state of the victim.
LEMMA AllocationFacts ==
  ASSUME NEW set, NEW tag
  PROVE  LET new == Allocation(set, tag).set
         IN  /\ DOMAIN new.lines = (DOMAIN set.lines \ Leaves(set, tag)) \cup {tag}
             /\ \A t \in DOMAIN new.lines : t # tag => new.lines[t] = set.lines[t]
             /\ Allocation(set, tag).evicted =
                  IF Full(set) THEN LineState(set, Victim(set)) ELSE "INVALID"
<1> DEFINE i == VictimPlace(set)
           mid == IF Full(set) THEN Evict(set, i) ELSE set
           new == Allocation(set, tag).set
<1>1. /\ new = Install(mid, tag)
      /\ Allocation(set, tag).evicted =
           IF Full(set) THEN LineState(set, Victim(set)) ELSE "INVALID"
  BY DEF Allocation, allocate, SmartAllocate, Full, Victim, VictimPlace
<1>3. /\ DOMAIN mid.lines = IF Full(set) THEN DOMAIN set.lines \ {Victim(set)}
                                         ELSE DOMAIN set.lines
      /\ \A t \in DOMAIN mid.lines : mid.lines[t] = set.lines[t]
  <2>1. Evict(set, i).lines = [t \in DOMAIN set.lines \ {Victim(set)} |-> set.lines[t]]
    BY DEF Evict, Restrict, Victim
  <2> QED BY <2>1
<1> HIDE DEF mid
<1>4. new.lines = [t \in DOMAIN mid.lines \cup {tag} |->
                     IF t = tag THEN "INVALID" ELSE mid.lines[t]]
  BY <1>1 DEF Install
<1> HIDE DEF new
<1>5. DOMAIN new.lines = (DOMAIN set.lines \ Leaves(set, tag)) \cup {tag}
  BY <1>3, <1>4 DEF Leaves
<1>6. \A t \in DOMAIN new.lines : t # tag => new.lines[t] = set.lines[t]
  BY <1>3, <1>4
<1> QED BY <1>1, <1>5, <1>6 DEF new

\* The domain of a set never grows but by the tag of an allocation.
SetsWithin(cache, new, a) ==
  \A i \in SetIndices :
    DOMAIN new[i].lines \subseteq
      DOMAIN cache[i].lines \cup (IF i = set_idx(a) THEN {tag_of(a)} ELSE {})

\* Writing one set of a cache leaves every other set as it was.
LEMMA ReplacedSet ==
  ASSUME NEW cache, CacheOK(cache), NEW a \in Addrs, NEW set
  PROVE  \A i \in SetIndices :
           [cache EXCEPT ![set_idx(a)] = set][i] =
             IF i = set_idx(a) THEN set ELSE cache[i]
<1>1. cache = [i \in SetIndices |-> cache[i]]
  BY DEF CacheOK
<1> QED BY <1>1

\* A lookup and an assignment through the pointer keep every set's tags.
LEMMA AssignedTags ==
  ASSUME NEW cache, CacheOK(cache), NEW a \in Addrs, NEW s
  PROVE  /\ \A i \in SetIndices :
              DOMAIN SetState(cache, a, s)[i].lines = DOMAIN cache[i].lines
         /\ \A i \in SetIndices :
              DOMAIN get_line(cache, a)[i].lines = DOMAIN cache[i].lines
<1>1. /\ DOMAIN SetLine(cache[set_idx(a)], tag_of(a), s).lines
           = DOMAIN cache[set_idx(a)].lines
      /\ DOMAIN find(cache[set_idx(a)], tag_of(a)).lines
           = DOMAIN cache[set_idx(a)].lines
  BY DEF SetLine, find
<1> DEFINE sl == SetLine(cache[set_idx(a)], tag_of(a), s)
           fl == find(cache[set_idx(a)], tag_of(a))
<1>2. /\ SetState(cache, a, s) = [cache EXCEPT ![set_idx(a)] = sl]
      /\ get_line(cache, a) = [cache EXCEPT ![set_idx(a)] = fl]
  BY DEF SetState, get_line
<1> HIDE DEF sl, fl
<1>3. \A i \in SetIndices :
        SetState(cache, a, s)[i] = IF i = set_idx(a) THEN sl ELSE cache[i]
  BY <1>2, ReplacedSet
<1>4. \A i \in SetIndices :
        get_line(cache, a)[i] = IF i = set_idx(a) THEN fl ELSE cache[i]
  BY <1>2, ReplacedSet
<1> QED BY <1>1, <1>3, <1>4 DEF sl, fl

\* The requester's cache after a transaction, in terms of its tags: after a fill
\* the victim's tag is replaced by the block's, and nothing else changes.
TagsAfter(cache, new, type, a) ==
  \A i \in SetIndices :
    DOMAIN new[i].lines =
      IF type # "BUS_UPGR" /\ i = set_idx(a)
      THEN (DOMAIN cache[i].lines \ Leaves(cache[i], tag_of(a))) \cup {tag_of(a)}
      ELSE DOMAIN cache[i].lines

\* A fill gives the set the tags allocation leaves in it, and only that set.
LEMMA FilledTags ==
  ASSUME NEW cache, CacheOK(cache), NEW a \in Addrs, NEW s, NEW mid,
         mid = [cache EXCEPT ![set_idx(a)] =
                  Allocation(cache[set_idx(a)], tag_of(a)).set],
         NEW type, type # "BUS_UPGR"
  PROVE  TagsAfter(cache, SetState(mid, a, s), type, a)
<1> DEFINE old == cache[set_idx(a)]
           set == Allocation(old, tag_of(a)).set
           m == [cache EXCEPT ![set_idx(a)] = set]
           new == SetState(m, a, s)
<1>1. CacheSetOK(old) /\ tag_of(a) \in Tags /\ set_idx(a) \in SetIndices
  BY AddressFacts DEF CacheOK
<1>2. CacheSetOK(set)
  BY <1>1, AllocateFacts DEF Allocation, Allocated
<1>3. DOMAIN set.lines = (DOMAIN old.lines \ Leaves(old, tag_of(a))) \cup {tag_of(a)}
  BY AllocationFacts
<1>8. mid = m
  OBVIOUS
<1> HIDE DEF set
<1>4. CacheOK(m)
  BY <1>2, ReplaceSet
<1>5. \A i \in SetIndices : m[i] = IF i = set_idx(a) THEN set ELSE cache[i]
  BY ReplacedSet
<1> HIDE DEF m
<1>6. \A i \in SetIndices : DOMAIN new[i].lines = DOMAIN m[i].lines
  BY <1>4, AssignedTags
<1> HIDE DEF new, old
<1>7. \A i \in SetIndices :
        DOMAIN new[i].lines =
          IF i = set_idx(a)
          THEN (DOMAIN old.lines \ Leaves(old, tag_of(a))) \cup {tag_of(a)}
          ELSE DOMAIN cache[i].lines
  BY <1>3, <1>5, <1>6
<1> QED BY <1>7, <1>8 DEF TagsAfter, new, old

\* The requester's tags after a granted transaction: what TagsAfter says.
LEMMA RequesterTags ==
  ASSUME NEW cs, cs = [c \in Cores |-> cs[c]], \A c \in Cores : CacheOK(cs[c]),
         NEW r \in Cores, NEW type \in {"BUS_RD", "BUS_RDX", "BUS_UPGR"},
         NEW a \in Addrs
  PROVE  TagsAfter(cs[r], handle_bus_transaction(cs, r, type, a).caches[r], type, a)
<1> DEFINE s == RequesterState(type, SharedSignal(cs, r, a))
           snooped == Snooped(cs, r, type, a)
           ds == handle_bus_transaction(cs, r, type, a).caches
<1>1. snooped[r] = cs[r] /\ DOMAIN snooped = Cores
  BY DEF Snooped
<1> HIDE DEF s
<1>2. CASE type = "BUS_UPGR"
  <2>1. ds = [snooped EXCEPT ![r] = SetState(get_line(snooped[r], a), a, s)]
    BY <1>2, BranchFacts DEF s
  <2> HIDE DEF ds, snooped
  <2>2. ds[r] = SetState(get_line(cs[r], a), a, s)
    BY <1>1, <2>1
  <2>3. CacheOK(get_line(cs[r], a))
    BY GetLineFacts
  <2>4. \A i \in SetIndices :
          DOMAIN get_line(cs[r], a)[i].lines = DOMAIN cs[r][i].lines
    BY AssignedTags
  <2>5. \A i \in SetIndices :
          DOMAIN ds[r][i].lines = DOMAIN get_line(cs[r], a)[i].lines
    BY <2>2, <2>3, AssignedTags
  <2> QED BY <1>2, <2>4, <2>5 DEF TagsAfter, ds
<1>3. CASE type # "BUS_UPGR"
  <2> DEFINE old == cs[r][set_idx(a)]
             mid == [cs[r] EXCEPT ![set_idx(a)] = Allocation(old, tag_of(a)).set]
  <2>1. mid = IF Protocol = "SMART" THEN SmartAllocateLine(cs[r], a).cache
                                    ELSE allocate_line(cs[r], a).cache
    BY DEF SmartAllocateLine, allocate_line, Allocation
  <2> HIDE DEF mid
  <2>2. ds = [snooped EXCEPT ![r] = SetState(mid, a, s)]
    <3>1. CASE Protocol = "SMART"
      <4>1. ds = [snooped EXCEPT ![r] = SetState(SmartAllocateLine(cs[r], a).cache, a, s)]
        BY <1>3, <3>1, BranchFacts DEF s
      <4> QED BY <2>1, <3>1, <4>1
    <3>2. CASE Protocol # "SMART"
      <4>1. ds = [snooped EXCEPT ![r] = SetState(allocate_line(cs[r], a).cache, a, s)]
        BY <1>3, <3>2, BranchFacts DEF s
      <4> QED BY <2>1, <3>2, <4>1
    <3> QED BY <3>1, <3>2
  <2> HIDE DEF ds, snooped
  <2>3. ds[r] = SetState(mid, a, s)
    BY <1>1, <2>2
  <2> DEFINE cache == cs[r]
  <2>4. CacheOK(cache) /\ mid = [cache EXCEPT ![set_idx(a)] =
                                   Allocation(cache[set_idx(a)], tag_of(a)).set]
    BY DEF mid
  <2> HIDE DEF cache
  <2>5. TagsAfter(cache, SetState(mid, a, s), type, a)
    BY <1>3, <2>4, FilledTags
  <2> QED BY <2>3, <2>5 DEF ds, cache
<1> QED BY <1>2, <1>3

\* A transaction is charged for a writeback when the line its allocate()
\* reports as evicted is dirty; an upgrade never is.
LEMMA WritebackFlag ==
  ASSUME NEW cs, NEW r, NEW type \in {"BUS_RD", "BUS_RDX", "BUS_UPGR"},
         NEW a,
         LET ev == Allocation(cs[r][set_idx(a)], tag_of(a)).evicted
         IN  ev \in LineStates
  PROVE  handle_bus_transaction(cs, r, type, a).writeback <=>
           /\ type # "BUS_UPGR"
           /\ Allocation(cs[r][set_idx(a)], tag_of(a)).evicted \in DirtyStates
<1> DEFINE ev == Allocation(cs[r][set_idx(a)], tag_of(a)).evicted
<1>1. CASE Protocol = "MESI"
  <2>1. ev = allocate_line(cs[r], a).evicted /\ ev \in MESIState
    BY <1>1 DEF allocate_line, Allocation, LineStates
  <2> HIDE DEF ev
  <2> QED BY <1>1, <2>1
     DEF handle_bus_transaction, MESI_handle_bus_transaction, UpgradeResult,
         FillResult, DirtyStates, MESIState, ev
<1>2. CASE Protocol = "DRAGON"
  <2>1. ev = Dragon_allocate(cs[r], a).evicted /\ ev \in DragonState
    BY <1>2 DEF allocate_line, Allocation, LineStates, Dragon_allocate
  <2> HIDE DEF ev
  <2> QED BY <1>2, <2>1
     DEF handle_bus_transaction, Dragon_handle_bus_transaction, UpgradeResult,
         FillResult, DirtyStates, DragonState, ev
<1>3. CASE Protocol = "MESIF"
  <2>1. ev = MESIF_allocate(cs[r], a).evicted /\ ev \in MESIFState
    BY <1>3 DEF allocate_line, Allocation, LineStates, MESIF_allocate
  <2> HIDE DEF ev
  <2> QED BY <1>3, <2>1
     DEF handle_bus_transaction, MESIF_handle_bus_transaction, UpgradeResult,
         FillResult, DirtyStates, MESIFState, ev
<1>4. CASE Protocol = "SMART"
  <2>1. ev = SmartAllocateLine(cs[r], a).evicted /\ ev \in SmartState
    BY <1>4 DEF SmartAllocateLine, Allocation, LineStates
  <2> HIDE DEF ev
  <2> QED BY <1>4, <2>1
     DEF handle_bus_transaction, Smart_handle_bus_transaction, UpgradeResult,
         FillResult, DirtyStates, SmartState, ev
<1>5. CASE Protocol = "MOESI"
  <2>1. ev = MOESI_allocate(cs[r], a).evicted /\ ev \in MOESIState
    BY <1>5 DEF allocate_line, Allocation, LineStates, MOESI_allocate
  <2> HIDE DEF ev
  <2> QED BY <1>5, <2>1
     DEF handle_bus_transaction, MOESI_handle_bus_transaction, UpgradeResult,
         FillResult, DirtyStates, MOESIState, ev
<1> QED BY <1>1, <1>2, <1>3, <1>4, <1>5, ProtocolAssumption

\* Lines other than the block's own that stay resident keep their state.
KeepsOthers(cache, new, a) ==
  \A b \in Addrs :
    ~SameBlock(a, b) /\ Resident(new, b) => StateOf(new, b) = StateOf(cache, b)

\* A fill changes the state of no other line that stays resident.
LEMMA FilledLines ==
  ASSUME NEW cache, CacheOK(cache), NEW a \in Addrs, NEW s \in LineStates,
         NEW mid,
         mid = [cache EXCEPT ![set_idx(a)] =
                  Allocation(cache[set_idx(a)], tag_of(a)).set]
  PROVE  KeepsOthers(cache, SetState(mid, a, s), a)
<1> DEFINE old == cache[set_idx(a)]
           set == Allocation(old, tag_of(a)).set
           m == [cache EXCEPT ![set_idx(a)] = set]
           new == SetState(m, a, s)
<1>1. CacheSetOK(old) /\ tag_of(a) \in Tags
  BY AddressFacts DEF CacheOK
<1>2. CacheSetOK(set)
  BY <1>1, AllocateFacts DEF Allocation, Allocated
<1>3. /\ DOMAIN set.lines = (DOMAIN old.lines \ Leaves(old, tag_of(a))) \cup {tag_of(a)}
      /\ \A t \in DOMAIN set.lines : t # tag_of(a) => set.lines[t] = old.lines[t]
  BY AllocationFacts
<1>4. mid = m
  OBVIOUS
<1> HIDE DEF set
<1>5a. CacheOK(m)
  BY <1>2, ReplaceSet
<1>5b. \A i \in SetIndices : m[i] = IF i = set_idx(a) THEN set ELSE cache[i]
  BY ReplacedSet
<1> HIDE DEF m
<1>5. /\ CacheOK(m)
      /\ \A b \in Addrs : m[set_idx(b)] = IF set_idx(b) = set_idx(a) THEN set
                                          ELSE cache[set_idx(b)]
  BY <1>5a, <1>5b, AddressFacts
<1>6. Resident(m, a)
  BY <1>3, <1>5 DEF Resident
<1>7. \A b \in Addrs :
        /\ ~SameBlock(a, b) => StateOf(new, b) = StateOf(m, b)
        /\ Resident(new, b) <=> Resident(m, b)
  BY <1>5, <1>6, SetStateFacts
<1> HIDE DEF new
<1>8. ASSUME NEW b \in Addrs, ~SameBlock(a, b), Resident(m, b)
      PROVE  StateOf(m, b) = StateOf(cache, b)
  <2>1. CASE set_idx(b) = set_idx(a)
    <3>1. tag_of(b) # tag_of(a) /\ tag_of(b) \in DOMAIN set.lines
      BY <1>5, <1>8, <2>1 DEF Resident, SameBlock
    <3>2. tag_of(b) \in DOMAIN old.lines /\ set.lines[tag_of(b)] = old.lines[tag_of(b)]
      BY <1>3, <3>1
    <3> QED BY <1>5, <2>1, <3>1, <3>2 DEF StateOf, LineState
  <2>2. CASE set_idx(b) # set_idx(a)
    BY <1>5, <2>2 DEF StateOf
  <2> QED BY <2>1, <2>2
<1> QED BY <1>4, <1>7, <1>8 DEF KeepsOthers, new

\* A granted transaction changes no other line of the requester that stays.
LEMMA RequesterLines ==
  ASSUME NEW cs, cs = [c \in Cores |-> cs[c]], \A c \in Cores : CacheOK(cs[c]),
         NEW r \in Cores, NEW type \in {"BUS_RD", "BUS_RDX", "BUS_UPGR"},
         NEW a \in Addrs, type = "BUS_UPGR" => Resident(cs[r], a)
  PROVE  KeepsOthers(cs[r], handle_bus_transaction(cs, r, type, a).caches[r], a)
<1> DEFINE s == RequesterState(type, SharedSignal(cs, r, a))
           snooped == Snooped(cs, r, type, a)
           ds == handle_bus_transaction(cs, r, type, a).caches
<1>1. /\ snooped[r] = cs[r] /\ DOMAIN snooped = Cores
      /\ s \in LineStates
  BY StateRules DEF Snooped, SharedSignal
<1> HIDE DEF s
<1>2. CASE type = "BUS_UPGR"
  <2>1. ds = [snooped EXCEPT ![r] = SetState(get_line(snooped[r], a), a, s)]
    BY <1>2, BranchFacts DEF s
  <2> HIDE DEF ds, snooped
  <2> DEFINE found == get_line(cs[r], a)
  <2>2. ds[r] = SetState(found, a, s)
    BY <1>1, <2>1
  <2>3. /\ CacheOK(found)
        /\ \A b \in Addrs : /\ StateOf(found, b) = StateOf(cs[r], b)
                            /\ Resident(found, b) <=> Resident(cs[r], b)
    BY GetLineFacts
  <2> HIDE DEF found
  <2>4. \A b \in Addrs : ~SameBlock(a, b) =>
          StateOf(SetState(found, a, s), b) = StateOf(found, b)
    BY <1>1, <1>2, <2>3, SetStateFacts
  <2> QED BY <2>2, <2>3, <2>4 DEF KeepsOthers, ds
<1>3. CASE type # "BUS_UPGR"
  <2> DEFINE old == cs[r][set_idx(a)]
             mid == [cs[r] EXCEPT ![set_idx(a)] = Allocation(old, tag_of(a)).set]
  <2>1. mid = IF Protocol = "SMART" THEN SmartAllocateLine(cs[r], a).cache
                                    ELSE allocate_line(cs[r], a).cache
    BY DEF SmartAllocateLine, allocate_line, Allocation
  <2> HIDE DEF mid
  <2>2. ds = [snooped EXCEPT ![r] = SetState(mid, a, s)]
    <3>1. CASE Protocol = "SMART"
      <4>1. ds = [snooped EXCEPT ![r] =
                    SetState(SmartAllocateLine(cs[r], a).cache, a, s)]
        BY <1>3, <3>1, BranchFacts DEF s
      <4> QED BY <2>1, <3>1, <4>1
    <3>2. CASE Protocol # "SMART"
      <4>1. ds = [snooped EXCEPT ![r] = SetState(allocate_line(cs[r], a).cache, a, s)]
        BY <1>3, <3>2, BranchFacts DEF s
      <4> QED BY <2>1, <3>2, <4>1
    <3> QED BY <3>1, <3>2
  <2> HIDE DEF ds, snooped
  <2>3. ds[r] = SetState(mid, a, s)
    BY <1>1, <2>2
  <2> DEFINE cache == cs[r]
  <2>4. CacheOK(cache) /\ mid = [cache EXCEPT ![set_idx(a)] =
                                   Allocation(cache[set_idx(a)], tag_of(a)).set]
    BY DEF mid
  <2> HIDE DEF cache
  <2>5. KeepsOthers(cache, SetState(mid, a, s), a)
    BY <1>1, <2>4, FilledLines
  <2> QED BY <2>3, <2>5 DEF ds, cache
<1> QED BY <1>2, <1>3

-----------------------------------------------------------------------------
(***************************************************************************)
(* The invariant: tags sit in the set their address selects, and a request *)
(* that will fill a line has no valid copy of the block meanwhile.         *)
(***************************************************************************)
TagsInPlace ==
  \A c \in Cores, i \in SetIndices :
    \A t \in DOMAIN caches[c][i].lines :
      \E a \in Addrs : set_idx(a) = i /\ tag_of(a) = t

FillsMiss ==
  \A req \in bus_queue :
    req.type # "BUS_UPGR" => ~Valid(req.core_id, req.addr)

WInv == IInv /\ TagsInPlace /\ FillsMiss

\* Lookups, assignments and snoops keep the tags of every set.
LEMMA LookupTags ==
  ASSUME NEW cache, CacheOK(cache), NEW a \in Addrs, NEW new,
         new = get_line(cache, a) \/ \E s : new = SetState(get_line(cache, a), a, s)
  PROVE  SetsWithin(cache, new, a)
<1> DEFINE found == get_line(cache, a)
<1>1. /\ CacheOK(found)
      /\ \A i \in SetIndices : DOMAIN found[i].lines = DOMAIN cache[i].lines
  BY GetLineFacts, AssignedTags
<1>2. CASE new = found
  BY <1>1, <1>2 DEF SetsWithin
<1> HIDE DEF found
<1>3. ASSUME NEW s, new = SetState(found, a, s) PROVE SetsWithin(cache, new, a)
  <2>1. \A i \in SetIndices :
          DOMAIN SetState(found, a, s)[i].lines = DOMAIN found[i].lines
    BY <1>1, AssignedTags
  <2> QED BY <1>1, <1>3, <2>1 DEF SetsWithin
<1> QED BY <1>2, <1>3 DEF found

\* Every cache gains at most the tag of the step's address, in its set.
LEMMA TagsStayInPlace ==
  ASSUME TagsInPlace, NEW a \in Addrs,
         \A c \in Cores : SetsWithin(caches[c], caches'[c], a)
  PROVE  TagsInPlace'
<1> SUFFICES ASSUME NEW c \in Cores, NEW i \in SetIndices,
                    NEW t \in DOMAIN caches'[c][i].lines
             PROVE  \E b \in Addrs : set_idx(b) = i /\ tag_of(b) = t
  BY DEF TagsInPlace
<1>1. t \in DOMAIN caches[c][i].lines \/ (i = set_idx(a) /\ t = tag_of(a))
  BY DEF SetsWithin
<1> QED BY <1>1 DEF TagsInPlace

\* Empty caches and an empty bus queue have nothing out of place.
LEMMA InitWInv == Init => WInv
<1> SUFFICES ASSUME Init PROVE WInv
  OBVIOUS
<1>1. IInv
  BY InitIInv
<1>2. bus_queue = {} /\ caches = [c \in Cores |-> EmptyCache]
  BY DEF Init
<1>3. TagsInPlace
  BY <1>2, EmptySetOK DEF TagsInPlace, EmptyCache
<1> QED BY <1>1, <1>2, <1>3 DEF WInv, FillsMiss

\* A miss asks for an upgrade exactly when it has a valid copy, and a store
\* that misses asks for an exclusive copy, except in Dragon.
LEMMA RequestActions ==
  ASSUME NEW cs, NEW c, NEW a \in Addrs, NEW w \in BOOLEAN, CacheOK(cs[c]),
         ~handle_processor_request(cs, c, a, w).is_hit
  PROVE  LET type == handle_processor_request(cs, c, a, w).bus_action
         IN  /\ type # "BUS_UPGR" => StateOf(cs[c], a) = "INVALID"
             /\ Protocol # "DRAGON" /\ w => type # "BUS_RD"
<1>1. StateOf(cs[c], a) \in LineStates
  BY StateOfType
<1> USE <1>1 DEF LineStates, handle_processor_request
<1>2. CASE Protocol = "MESI"
  BY <1>2 DEF MESI_handle_processor_request, MESIState
<1>3. CASE Protocol = "DRAGON"
  BY <1>3 DEF Dragon_handle_processor_request, DragonState
<1>4. CASE Protocol = "MESIF"
  BY <1>4 DEF MESIF_handle_processor_request, MESIFState
<1>5. CASE Protocol = "SMART"
  BY <1>5 DEF Smart_handle_processor_request, SmartState
<1>6. CASE Protocol = "MOESI"
  BY <1>6 DEF MOESI_handle_processor_request, MOESIState
<1> QED BY <1>2, <1>3, <1>4, <1>5, <1>6, ProtocolAssumption

\* A request, hit or miss, keeps the tags of every set.
LEMMA RequestTags ==
  ASSUME IInv, NEW c \in Cores, NEW a \in Addrs, NEW resp,
         RequestOutcome(caches[c], a, resp),
         caches' = [caches EXCEPT ![c] = resp.cache]
  PROVE  \A d \in Cores : SetsWithin(caches[d], caches'[d], a)
<1>1. /\ caches = [d \in Cores |-> caches[d]]
      /\ \A d \in Cores : CacheOK(caches[d])
  BY DEF IInv, TypeOK
<1>2. /\ caches'[c] = resp.cache
      /\ \A d \in Cores : d # c => caches'[d] = caches[d]
  BY <1>1
<1>3. SetsWithin(caches[c], resp.cache, a)
  BY <1>1, LookupTags DEF RequestOutcome
<1> QED BY <1>2, <1>3 DEF SetsWithin

\* A hit moves no tag, and validates no line that was not valid.
LEMMA HitWInv ==
  ASSUME WInv, NEW c \in Cores, NEW a \in TraceAddrs[c], NEW w \in BOOLEAN,
         Hit(c, a, w)
  PROVE  WInv'
<1> DEFINE resp == handle_processor_request(caches, c, a, w)
<1>1. a \in Addrs /\ IInv
  BY DEF Addrs, WInv
<1>2. RequestOutcome(caches[c], a, resp)
  BY <1>1, RequestBranches DEF IInv, TypeOK
<1>3. caches' = [caches EXCEPT ![c] = resp.cache] /\ bus_queue' = bus_queue
  BY DEF Hit
<1>4. IInv'
  BY <1>1, HitIInv
<1> HIDE DEF resp
<1>5. TagsInPlace'
  BY <1>1, <1>2, <1>3, RequestTags, TagsStayInPlace DEF WInv
<1>6. \A d \in Cores, b \in Addrs :
        StateOf(caches'[d], b) = "INVALID" <=> StateOf(caches[d], b) = "INVALID"
  BY <1>1, <1>2, <1>3, RequestKeepsCaches
<1>7. \A r \in bus_queue : r.core_id \in Cores /\ r.addr \in Addrs
  BY <1>1 DEF IInv, TypeOK, Request
<1>8. FillsMiss'
  BY <1>3, <1>6, <1>7 DEF WInv, FillsMiss, Valid
<1> QED BY <1>4, <1>5, <1>8 DEF WInv

\* A miss moves no tag, and asks for a fill only where it has no valid copy.
LEMMA MissWInv ==
  ASSUME WInv, NEW c \in Cores, NEW a \in TraceAddrs[c], NEW w \in BOOLEAN,
         Miss(c, a, w)
  PROVE  WInv'
<1> DEFINE resp == handle_processor_request(caches, c, a, w)
           new == [core_id |-> c, type |-> resp.bus_action, addr |-> a]
<1>1. a \in Addrs /\ IInv
  BY DEF Addrs, WInv
<1>2. RequestOutcome(caches[c], a, resp)
  BY <1>1, RequestBranches DEF IInv, TypeOK
<1>3. /\ ~resp.is_hit
      /\ caches' = [caches EXCEPT ![c] = resp.cache]
      /\ bus_queue' = bus_queue \cup {new}
  BY DEF Miss
<1>4. IInv'
  BY <1>1, MissIInv
<1>5. resp.bus_action # "BUS_UPGR" => StateOf(caches[c], a) = "INVALID"
  BY <1>1, <1>3, RequestActions DEF IInv, TypeOK
<1> HIDE DEF resp
<1>6. TagsInPlace'
  BY <1>1, <1>2, <1>3, RequestTags, TagsStayInPlace DEF WInv
<1>7. \A d \in Cores, b \in Addrs :
        StateOf(caches'[d], b) = "INVALID" <=> StateOf(caches[d], b) = "INVALID"
  BY <1>1, <1>2, <1>3, RequestKeepsCaches
<1>8. \A r \in bus_queue : r.core_id \in Cores /\ r.addr \in Addrs
  BY <1>1 DEF IInv, TypeOK, Request
<1>9. new.core_id = c /\ new.addr = a /\ new.type = resp.bus_action
  OBVIOUS
<1> HIDE DEF new
<1>10. FillsMiss'
  BY <1>1, <1>3, <1>5, <1>7, <1>8, <1>9 DEF WInv, FillsMiss, Valid
<1> QED BY <1>4, <1>6, <1>10 DEF WInv

\* A grant fills the requester's own set, and leaves the misses of the others.
LEMMA GrantWInv ==
  ASSUME WInv, NEW req \in bus_queue, Grant(req)
  PROVE  WInv'
<1> DEFINE r == req.core_id
           type == req.type
           a == req.addr
<1>1. IInv /\ IInv'
  BY GrantIInv DEF WInv
<1>2. /\ r \in Cores
      /\ type \in {"BUS_RD", "BUS_RDX", "BUS_UPGR"}
      /\ a \in Addrs
      /\ Effect(caches, caches', r, type, a)
  BY <1>1, GrantEffect
<1>3. /\ caches = [c \in Cores |-> caches[c]]
      /\ \A c \in Cores : CacheOK(caches[c])
  BY <1>1 DEF IInv, TypeOK
<1>4. TagsAfter(caches[r], caches'[r], type, a)
  BY <1>2, <1>3, RequesterTags DEF Grant
<1>5. \A s \in bus_queue' :
        s \in bus_queue /\ s.core_id \in Cores \ {r} /\ s.addr \in Addrs
  BY <1>1 DEF Grant, IInv, TypeOK, Request, OneRequestPerCore
<1> HIDE DEF r, type, a
<1>6. SetsWithin(caches[r], caches'[r], a)
  BY <1>4 DEF TagsAfter, SetsWithin
<1>7. ASSUME NEW c \in Cores \ {r} PROVE SetsWithin(caches[c], caches'[c], a)
  <2>1. \/ caches'[c] = get_line(caches[c], a)
        \/ \E s : caches'[c] = SetState(get_line(caches[c], a), a, s)
    BY <1>2 DEF Effect, SnoopLine
  <2> QED BY <1>2, <1>3, <2>1, LookupTags
<1>8. TagsInPlace'
  BY <1>2, <1>6, <1>7, TagsStayInPlace DEF WInv
<1>9. SnoopersAfter(caches, caches', r, type, a)
  BY <1>2, <1>3, TransactionStates
<1>10. FillsMiss'
  BY <1>5, <1>9 DEF WInv, FillsMiss, Valid, SnoopersAfter, AfterSnoop
<1> QED BY <1>1, <1>8, <1>10 DEF WInv

\* The invariant is inductive.
LEMMA NextWInv == WInv /\ [Next]_vars => WInv'
<1> SUFFICES ASSUME WInv, [Next]_vars PROVE WInv'
  OBVIOUS
<1>1. ASSUME NEW c \in Cores, NEW a \in TraceAddrs[c], NEW w \in BOOLEAN,
             Hit(c, a, w) \/ Miss(c, a, w)
      PROVE  WInv'
  BY <1>1, HitWInv, MissWInv
<1>2. ASSUME NEW req \in bus_queue, Grant(req) PROVE WInv'
  BY <1>2, GrantWInv
<1>3. CASE UNCHANGED vars
  <2>1. caches' = caches /\ bus_queue' = bus_queue
    BY <1>3 DEF vars
  <2>2. IInv'
    BY NextIInv DEF WInv
  <2> QED BY <2>1, <2>2 DEF WInv, TagsInPlace, FillsMiss, Valid
<1> QED BY <1>1, <1>2, <1>3 DEF Next

\* The placement of tags and the state of waiting requests, under every
\* interleaving of requests and grants.
THEOREM PlacementInvariance == Spec => []WInv
BY InitWInv, NextWInv, PTL DEF Spec

-----------------------------------------------------------------------------
(***************************************************************************)
(* Writebacks.                                                             *)
(***************************************************************************)
\* A step in which a request leaves the queue is the grant of that request.
LEMMA GrantedIsGrant ==
  ASSUME [Next]_vars, NEW req \in bus_queue, Granted(req)
  PROVE  Grant(req)
<1>1. req \in bus_queue /\ req \notin bus_queue' /\ bus_queue' = bus_queue \ {req}
  BY DEF Granted
<1>2. ASSUME NEW c \in Cores, NEW a \in TraceAddrs[c], NEW w \in BOOLEAN,
             Hit(c, a, w) \/ Miss(c, a, w)
      PROVE  FALSE
  BY <1>1, <1>2 DEF Hit, Miss
<1>3. ASSUME NEW other \in bus_queue, Grant(other) PROVE other = req
  BY <1>1, <1>3 DEF Grant
<1>4. CASE UNCHANGED vars
  BY <1>1, <1>4 DEF vars
<1> QED BY <1>2, <1>3, <1>4 DEF Next

\* What WInv and the lemmas above say of a granted transaction, in terms of
\* the set its block selects.
LEMMA GrantedTransaction ==
  ASSUME WInv, NEW req \in bus_queue, Grant(req)
  PROVE  LET r   == req.core_id
             a   == req.addr
             set == caches[r][set_idx(a)]
         IN  /\ r \in Cores /\ a \in Addrs
             /\ req.type \in {"BUS_RD", "BUS_RDX", "BUS_UPGR"}
             /\ TagsAfter(caches[r], caches'[r], req.type, a)
             /\ TransactionOf(req).writeback <=>
                  /\ req.type # "BUS_UPGR"
                  /\ Full(set)
                  /\ LineState(set, Victim(set)) \in DirtyStates
<1> DEFINE r == req.core_id
           type == req.type
           a == req.addr
           set == caches[r][set_idx(a)]
           ev == Allocation(set, tag_of(a)).evicted
<1>1. /\ r \in Cores
      /\ type \in {"BUS_RD", "BUS_RDX", "BUS_UPGR"}
      /\ a \in Addrs
  BY GrantEffect DEF WInv
<1>2. /\ caches = [c \in Cores |-> caches[c]]
      /\ \A c \in Cores : CacheOK(caches[c])
  BY DEF WInv, IInv, TypeOK
<1>3. TagsAfter(caches[r], caches'[r], type, a)
  BY <1>1, <1>2, RequesterTags DEF Grant
<1>4. ev = IF Full(set) THEN LineState(set, Victim(set)) ELSE "INVALID"
  BY AllocationFacts
<1>5. CacheSetOK(set)
  BY <1>1, <1>2, AddressFacts DEF CacheOK
<1>6. ev \in LineStates
  <2> HIDE DEF set, ev
  <2> QED BY <1>4, <1>5, InvalidIsState DEF CacheSetOK, LineState
<1>7. TransactionOf(req).writeback <=> type # "BUS_UPGR" /\ ev \in DirtyStates
  BY <1>1, <1>6, WritebackFlag DEF TransactionOf
<1> HIDE DEF ev, set, r, a, type
<1>8. TransactionOf(req).writeback <=>
        /\ type # "BUS_UPGR"
        /\ Full(set)
        /\ LineState(set, Victim(set)) \in DirtyStates
  BY <1>4, <1>7 DEF DirtyStates
<1> QED BY <1>1, <1>3, <1>8 DEF set, r, a, type

\* A transaction is charged exactly for the dirty line it evicts: the flag
\* handle_bus_transaction derives from the line that allocate() returned
\* is TRUE if and only if a dirty line of the requester disappears.
LEMMA GrantCharges ==
  ASSUME WInv, NEW req \in bus_queue, Grant(req)
  PROVE  TransactionOf(req).writeback <=>
           \E b \in Addrs : Dirty(req.core_id, b) /\ Vanishes(req.core_id, b)
<1> DEFINE r == req.core_id
           type == req.type
           a == req.addr
           set == caches[r][set_idx(a)]
           v == Victim(set)
           charged == TransactionOf(req).writeback
<1>1. /\ r \in Cores /\ a \in Addrs
      /\ TagsAfter(caches[r], caches'[r], type, a)
      /\ charged <=> /\ type # "BUS_UPGR"
                     /\ Full(set)
                     /\ LineState(set, v) \in DirtyStates
  BY GrantedTransaction
<1>2. set_idx(a) \in SetIndices /\ \A b \in Addrs : set_idx(b) \in SetIndices
  BY <1>1, AddressFacts
<1>3. type # "BUS_UPGR" => LineState(set, tag_of(a)) = "INVALID"
  BY DEF WInv, FillsMiss, Valid, StateOf
<1>4. \A t \in DOMAIN set.lines :
        \E b \in Addrs : set_idx(b) = set_idx(a) /\ tag_of(b) = t
  BY <1>1, <1>2 DEF WInv, TagsInPlace
<1> HIDE DEF v, charged, type, a, r
<1>5. ASSUME charged
      PROVE  \E b \in Addrs : Dirty(r, b) /\ Vanishes(r, b)
  <2>1. /\ type # "BUS_UPGR" /\ Full(set)
        /\ LineState(set, v) \in DirtyStates
    BY <1>1, <1>5
  <2>2. v \in DOMAIN set.lines /\ v # tag_of(a)
    BY <1>3, <2>1 DEF LineState, DirtyStates
  <2>3. PICK b \in Addrs : set_idx(b) = set_idx(a) /\ tag_of(b) = v
    BY <1>4, <2>2
  <2>4. Dirty(r, b) /\ Resident(caches[r], b)
    BY <2>1, <2>2, <2>3 DEF Dirty, StateOf, Resident
  <2>5. DOMAIN caches'[r][set_idx(a)].lines =
          (DOMAIN set.lines \ Leaves(set, tag_of(a))) \cup {tag_of(a)}
    BY <1>1, <1>2, <2>1 DEF TagsAfter
  <2>6. v \in Leaves(set, tag_of(a))
    BY <2>1, <2>2 DEF Leaves, v
  <2>7. ~Resident(caches'[r], b)
    BY <2>2, <2>3, <2>5, <2>6 DEF Resident
  <2> QED BY <2>4, <2>7 DEF Vanishes
<1>6. ASSUME NEW b \in Addrs, Dirty(r, b), Vanishes(r, b)
      PROVE  charged
  <2>1. /\ tag_of(b) \in DOMAIN caches[r][set_idx(b)].lines
        /\ tag_of(b) \notin DOMAIN caches'[r][set_idx(b)].lines
    BY <1>6 DEF Vanishes, Resident
  <2>2. type # "BUS_UPGR" /\ set_idx(b) = set_idx(a)
    BY <1>1, <1>2, <2>1 DEF TagsAfter
  <2>3. tag_of(b) \in Leaves(set, tag_of(a))
    BY <1>1, <1>2, <2>1, <2>2 DEF TagsAfter
  <2>4. Full(set) /\ tag_of(b) = v
    BY <2>3 DEF Leaves, v
  <2>5. LineState(set, v) \in DirtyStates
    BY <1>6, <2>2, <2>4 DEF Dirty, StateOf
  <2> QED BY <1>1, <2>2, <2>4, <2>5
<1> QED BY <1>5, <1>6 DEF charged, r

\* Writebacks are charged exactly when a dirty line is thrown out, under
\* all five protocols, also when the LRU list of the set names a tag twice
\* or names a tag without a line.
THEOREM WritebackExact == Spec => [][ChargesWriteback]_vars
<1>1. WInv /\ [Next]_vars => [ChargesWriteback]_vars
  <2> SUFFICES ASSUME WInv, [Next]_vars, NEW req \in bus_queue, Granted(req)
               PROVE  TransactionOf(req).writeback <=>
                        \E b \in Addrs :
                          Dirty(req.core_id, b) /\ Vanishes(req.core_id, b)
    BY DEF ChargesWriteback
  <2> QED BY GrantedIsGrant, GrantCharges
<1> QED BY <1>1, PlacementInvariance, PTL DEF Spec

-----------------------------------------------------------------------------
(***************************************************************************)
(* Dirty data.                                                             *)
(***************************************************************************)
\* The snoop and fill rules of the protocols that share dirty blocks.
LEMMA DirtyRules ==
  ASSUME Protocol \in {"MOESI", "DRAGON"},
         NEW type \in {"BUS_RD", "BUS_RDX", "BUS_UPGR"},
         Protocol = "DRAGON" => type # "BUS_RDX"
  PROVE  /\ type = "BUS_RD" =>
              \A x \in DirtyStates : AfterSnoop(type, x) \in DirtyStates
         /\ type # "BUS_RD" =>
              \A shared \in BOOLEAN : RequesterState(type, shared) \in DirtyStates
<1>1. CASE Protocol = "MOESI"
  BY <1>1 DEF AfterSnoop, SnoopState, RequesterState, MOESI_SnoopState,
              MOESI_FillState, DirtyStates
<1>2. CASE Protocol = "DRAGON"
  BY <1>2 DEF AfterSnoop, SnoopState, RequesterState, Dragon_SnoopState,
              Dragon_FillState, Dragon_UpdateState, DirtyStates
<1> QED BY <1>1, <1>2

\* A granted transaction of another core or for another block leaves a
\* dirty copy in some cache, or evicts the one there was.
LEMMA GrantKeepsDirty ==
  ASSUME WInv, Protocol \in {"MOESI", "DRAGON"}, NEW req \in bus_queue, Grant(req),
         NEW b \in Addrs, NEW c \in Cores, Dirty(c, b),
         ~\E d \in Cores : StateOf(caches'[d], b) \in DirtyStates
  PROVE  Vanishes(c, b)
<1> DEFINE r == req.core_id
           type == req.type
           a == req.addr
           shared == SharedSignal(caches, r, a)
<1>1. /\ r \in Cores
      /\ type \in {"BUS_RD", "BUS_RDX", "BUS_UPGR"}
      /\ a \in Addrs
      /\ Effect(caches, caches', r, type, a)
  BY GrantEffect DEF WInv
<1>2. /\ caches = [e \in Cores |-> caches[e]]
      /\ \A e \in Cores : CacheOK(caches[e])
      /\ type = "BUS_UPGR" => Resident(caches[r], a)
      /\ Protocol = "DRAGON" => type # "BUS_RDX"
      /\ type # "BUS_UPGR" => StateOf(caches[r], a) = "INVALID"
  BY DEF WInv, IInv, TypeOK, UpgradeFindsLine, UpdatesHoldCopies, FillsMiss, Valid
<1>3. /\ SnoopersAfter(caches, caches', r, type, a)
      /\ RequesterAfter(caches, caches', r, type, a)
  BY <1>1, <1>2, TransactionStates
<1>4. KeepsOthers(caches[r], caches'[r], a)
  BY <1>1, <1>2, RequesterLines DEF Grant
<1>5. shared \in BOOLEAN
  BY DEF SharedSignal
<1> HIDE DEF r, type, a, shared
<1>6. CASE ~SameBlock(a, b)
  <2>1. c = r
    BY <1>3, <1>6 DEF SnoopersAfter, Dirty
  <2>2. StateOf(caches[r], b) \in DirtyStates /\ StateOf(caches'[r], b) \notin DirtyStates
    BY <1>1, <2>1 DEF Dirty
  <2>3. Resident(caches[r], b) /\ ~Resident(caches'[r], b)
    BY <1>4, <1>6, <2>2 DEF KeepsOthers, Resident, StateOf, LineState, DirtyStates
  <2> QED BY <2>1, <2>3 DEF Vanishes
<1>7. CASE SameBlock(a, b) /\ type # "BUS_RD"
  <2>1. StateOf(caches'[r], b) = RequesterState(type, shared)
    BY <1>3, <1>7 DEF RequesterAfter, shared
  <2>2. RequesterState(type, shared) \in DirtyStates
    BY <1>1, <1>2, <1>5, <1>7, DirtyRules
  <2> QED BY <1>1, <2>1, <2>2
<1>8. CASE SameBlock(a, b) /\ type = "BUS_RD"
  <2>1. StateOf(caches[r], b) = "INVALID"
    BY <1>2, <1>8 DEF SameBlock, StateOf
  <2>2. c # r
    BY <2>1 DEF Dirty, DirtyStates
  <2>3. StateOf(caches'[c], b) = AfterSnoop(type, StateOf(caches[c], b))
    BY <1>3, <1>8, <2>2 DEF SnoopersAfter
  <2>4. AfterSnoop(type, StateOf(caches[c], b)) \in DirtyStates
    BY <1>1, <1>2, <1>8, DirtyRules DEF Dirty
  <2> QED BY <2>3, <2>4
<1> QED BY <1>1, <1>6, <1>7, <1>8

\* MOESI and Dragon never lose the only dirty copy of a block: when no
\* cache has the block dirty any more, its dirty line has been evicted.
THEOREM DirtyDataStays ==
  Protocol \in {"MOESI", "DRAGON"} => (Spec => [][KeepsDirtyData]_vars)
<1> SUFFICES ASSUME Protocol \in {"MOESI", "DRAGON"}
             PROVE  Spec => [][KeepsDirtyData]_vars
  OBVIOUS
<1>1. WInv /\ [Next]_vars => [KeepsDirtyData]_vars
  <2> SUFFICES ASSUME WInv, [Next]_vars, NEW b \in Addrs, NEW c \in Cores,
                      Dirty(c, b),
                      ~\E d \in Cores : StateOf(caches'[d], b) \in DirtyStates
               PROVE  Vanishes(c, b)
    BY DEF KeepsDirtyData, Dirty
  <2>1. ASSUME NEW d \in Cores, NEW a \in TraceAddrs[d], NEW w \in BOOLEAN,
               Hit(d, a, w) \/ Miss(d, a, w)
        PROVE  FALSE
    <3> DEFINE resp == handle_processor_request(caches, d, a, w)
    <3>1. a \in Addrs
      BY DEF Addrs
    <3>2. /\ RequestOutcome(caches[d], a, resp)
          /\ CacheOK(caches[d])
          /\ caches = [e \in Cores |-> caches[e]]
      BY <3>1, RequestBranches DEF WInv, IInv, TypeOK
    <3>3. caches' = [caches EXCEPT ![d] = resp.cache]
      BY <2>1 DEF Hit, Miss
    <3> HIDE DEF resp
    <3>4. \/ StateOf(resp.cache, b) = StateOf(caches[d], b)
          \/ StateOf(resp.cache, b) = "MODIFIED"
      BY <3>1, <3>2, RequestFacts
    <3>5. /\ caches'[d] = resp.cache
          /\ \A e \in Cores : e # d => caches'[e] = caches[e]
      BY <3>2, <3>3
    <3> QED BY <3>4, <3>5 DEF Dirty, DirtyStates
  <2>2. ASSUME NEW req \in bus_queue, Grant(req) PROVE Vanishes(c, b)
    BY <2>2, GrantKeepsDirty
  <2>3. CASE UNCHANGED vars
    BY <2>3 DEF vars, Dirty
  <2> QED BY <2>1, <2>2, <2>3 DEF Next
<1> QED BY <1>1, PlacementInvariance, PTL DEF Spec

-----------------------------------------------------------------------------
(***************************************************************************)
(* Stores.                                                                 *)
(***************************************************************************)
\* The cores in "storing" wait for the bus, and none of them with a BUS_RD:
\* every protocol but Dragon asks for an exclusive copy when it stores.
StoresAskExclusive ==
  /\ \A c \in storing : \E req \in bus_queue : req.core_id = c
  /\ \A req \in bus_queue : req.core_id \in storing => req.type # "BUS_RD"

HInv == WInv /\ StoresAskExclusive

\* With no request waiting, no store waits for a shared fill.
LEMMA InitHInv == HistoryInit => HInv
BY InitWInv DEF HistoryInit, HInv, StoresAskExclusive, Init

\* Forgetting the history variables, a step of the history is a step of Next.
LEMMA HistoryStep == [HistoryNext]_historyVars => [Next]_vars
BY DEF HistoryNext, historyVars, Next, vars

\* Every step of the history keeps the invariant, Dragon aside.
LEMMA NextHInv ==
  ASSUME Protocol # "DRAGON", HInv, [HistoryNext]_historyVars
  PROVE  HInv'
<1>1. WInv'
  BY HistoryStep, NextWInv DEF HInv
<1>2. /\ \A c \in Cores : CacheOK(caches[c])
      /\ OneRequestPerCore
  BY DEF HInv, WInv, IInv, TypeOK
<1>3. StoresAskExclusive'
  <2>1. ASSUME NEW c \in Cores, NEW a \in TraceAddrs[c], NEW w \in BOOLEAN,
               Hit(c, a, w), UNCHANGED storing
        PROVE  StoresAskExclusive'
    BY <2>1 DEF Hit, HInv, StoresAskExclusive
  <2>2. ASSUME NEW c \in Cores, NEW a \in TraceAddrs[c], NEW w \in BOOLEAN,
               Miss(c, a, w), storing' = IF w THEN storing \cup {c} ELSE storing
        PROVE  StoresAskExclusive'
    <3> DEFINE resp == handle_processor_request(caches, c, a, w)
               new == [core_id |-> c, type |-> resp.bus_action, addr |-> a]
    <3>1. a \in Addrs
      BY DEF Addrs
    <3>2. ~resp.is_hit /\ bus_queue' = bus_queue \cup {new}
          /\ \A req \in bus_queue : req.core_id # c
      BY <2>2 DEF Miss, blocked
    <3>3. w => resp.bus_action # "BUS_RD"
      BY <1>2, <3>1, <3>2, RequestActions
    <3>4. new.core_id = c /\ new.type = resp.bus_action
      OBVIOUS
    <3> HIDE DEF resp, new
    <3> QED BY <2>2, <3>2, <3>3, <3>4 DEF HInv, StoresAskExclusive
  <2>3. ASSUME NEW req \in bus_queue, Grant(req), storing' = storing \ {req.core_id}
        PROVE  StoresAskExclusive'
    BY <1>2, <2>3 DEF Grant, HInv, StoresAskExclusive, OneRequestPerCore
  <2>4. CASE UNCHANGED historyVars
    BY <2>4 DEF historyVars, HInv, StoresAskExclusive
  <2> QED BY <2>1, <2>2, <2>3, <2>4 DEF HistoryNext
<1> QED BY <1>1, <1>3 DEF HInv

\* When a store's transaction is done the writer's line is dirty, whatever
\* other cores did to the block meanwhile: true of every protocol that
\* invalidates (the run dragon_store_miss shows that Dragon is different).
THEOREM StoreDirty == Protocol # "DRAGON" => (HistorySpec => StoreLeavesDirty)
<1> SUFFICES ASSUME Protocol # "DRAGON" PROVE HistorySpec => StoreLeavesDirty
  OBVIOUS
<1>1. HInv /\ [HistoryNext]_historyVars => [StoreLeavesLineDirty]_historyVars
  <2> SUFFICES ASSUME HInv, [HistoryNext]_historyVars, NEW req \in bus_queue,
                      Granted(req), req.core_id \in storing
               PROVE  StateOf(caches'[req.core_id], req.addr) \in DirtyStates
    BY DEF StoreLeavesLineDirty
  <2> DEFINE r == req.core_id
             type == req.type
             a == req.addr
             shared == SharedSignal(caches, r, a)
  <2>1. Grant(req)
    BY HistoryStep, GrantedIsGrant
  <2>2. IInv /\ type # "BUS_RD"
    BY DEF HInv, WInv, StoresAskExclusive
  <2>3. /\ r \in Cores
        /\ type \in {"BUS_RD", "BUS_RDX", "BUS_UPGR"}
        /\ a \in Addrs
        /\ Effect(caches, caches', r, type, a)
    BY <2>1, <2>2, GrantEffect
  <2>4. \A c \in Cores : CacheOK(caches[c])
    BY <2>2 DEF IInv, TypeOK
  <2>5. shared \in BOOLEAN /\ SameBlock(a, a)
    BY DEF SharedSignal, SameBlock
  <2> HIDE DEF r, type, a
  <2>6. RequesterAfter(caches, caches', r, type, a)
    BY <2>3, <2>4, TransactionStates
  <2>7. StateOf(caches'[r], a) = RequesterState(type, shared)
    BY <2>3, <2>5, <2>6 DEF RequesterAfter
  <2> HIDE DEF shared
  <2>8. RequesterState(type, shared) = "MODIFIED"
    BY <2>2, <2>3, <2>5, RequesterTable
  <2> QED BY <2>7, <2>8 DEF DirtyStates, r, a
<1>2. HInv /\ [HistoryNext]_historyVars => HInv'
  BY NextHInv
<1> QED BY <1>1, <1>2, InitHInv, PTL DEF HistorySpec, StoreLeavesDirty

-----------------------------------------------------------------------------
(***************************************************************************)
(* What std::list::remove leaves of a list: a least counterexample stands in *)
(* for induction over the list.                                            *)
(***************************************************************************)
\* A nonempty set of numbers has a least member.
LEMMA LeastNumber ==
  ASSUME NEW T, T \subseteq Nat, T # {}
  PROVE  \E n \in T : \A k \in T : n <= k
<1>1. PICK n \in T : \A k \in T : ~ (<<k, n>> \in OpToRel(<, Nat))
  BY NatLessThanWellFounded, WFMin
<1>2. \A k \in Nat : k < n => <<k, n>> \in OpToRel(<, Nat)
  BY Zenon DEF OpToRel
<1>3. \A k \in T : ~ (k < n)
  BY <1>1, <1>2
<1>4. \A k \in T : n <= k
  BY <1>3
<1> QED BY <1>4

\* F keeps, of each of the first n items of s, what is not e.
Keeps(F, s, e, n) ==
  F = [i \in 0 .. n |-> IF i = 0 THEN <<>>
                        ELSE IF s[i] = e THEN F[i - 1]
                             ELSE Append(F[i - 1], s[i])]

\* There is such a function.
LEMMA KeepsExists ==
  ASSUME NEW s, NEW e, NEW n \in Nat
  PROVE  \E F : Keeps(F, s, e, n)
<1> DEFINE T == {k \in Nat : ~ \E F : Keeps(F, s, e, k)}
<1> SUFFICES ASSUME T # {} PROVE FALSE
  OBVIOUS
<1>1. PICK m \in T : \A k \in T : m <= k
  <2>1. T \subseteq Nat
    OBVIOUS
  <2> HIDE DEF T
  <2> QED BY <2>1, LeastNumber
<1>2. m # 0
  <2> SUFFICES \E F : Keeps(F, s, e, 0)
    BY <1>1
  <2>1. Keeps([i \in 0 .. 0 |-> <<>>], s, e, 0)
    BY DEF Keeps
  <2> QED BY <2>1
<1>3. m \in Nat /\ m - 1 \in Nat /\ m - 1 \notin T
  BY <1>1, <1>2
<1>4. PICK G : Keeps(G, s, e, m - 1)
  BY <1>3
<1> DEFINE H == [i \in 0 .. m |->
                   IF i = m THEN IF s[m] = e THEN G[m - 1]
                                 ELSE Append(G[m - 1], s[m])
                   ELSE G[i]]
<1>5. ASSUME NEW i \in 0 .. m
      PROVE  H[i] = IF i = 0 THEN <<>>
                    ELSE IF s[i] = e THEN H[i - 1] ELSE Append(H[i - 1], s[i])
  <2>1. CASE i = 0
    BY <1>2, <1>3, <1>4, <2>1 DEF Keeps
  <2>2. CASE i # 0 /\ i # m
    <3>1. i \in 0 .. m - 1 /\ i - 1 \in 0 .. m - 1 /\ i - 1 # m /\ i - 1 \in 0 .. m
      BY <1>3, <2>2
    <3>2. G[i] = IF s[i] = e THEN G[i - 1] ELSE Append(G[i - 1], s[i])
      BY <1>4, <2>2, <3>1 DEF Keeps
    <3>3. H[i] = G[i] /\ H[i - 1] = G[i - 1]
      BY <2>2, <3>1
    <3> QED BY <2>2, <3>2, <3>3
  <2>3. CASE i = m
    BY <1>2, <1>3, <2>3
  <2> QED BY <2>1, <2>2, <2>3
<1>6. Keeps(H, s, e, m)
  BY <1>5 DEF Keeps
<1> QED BY <1>1, <1>6

\* remove() keeps the other tags.
LEMMA RemoveFacts ==
  ASSUME NEW S, NEW s \in Seq(S), NEW e
  PROVE  /\ remove(s, e) \in Seq(S)
         /\ \A k \in 1 .. Len(s) : s[k] # e =>
              \E j \in 1 .. Len(remove(s, e)) : remove(s, e)[j] = s[k]
<1> DEFINE F == CHOOSE f : Keeps(f, s, e, Len(s))
<1>1. remove(s, e) = F[Len(s)]
  BY DEF remove, Keeps
<1>2. Keeps(F, s, e, Len(s))
  <2>1. \E f : Keeps(f, s, e, Len(s))
    <3> HIDE DEF F
    <3> DEFINE n == Len(s)
    <3>1. n \in Nat
      OBVIOUS
    <3> HIDE DEF n
    <3>2. \E f : Keeps(f, s, e, n)
      BY <3>1, KeepsExists
    <3> QED BY <3>2 DEF n
  <2> QED BY <2>1, Zenon
<1> HIDE DEF F
<1> DEFINE Good(i) == /\ F[i] \in Seq(S)
                      /\ \A k \in 1 .. i : s[k] # e =>
                           \E j \in 1 .. Len(F[i]) : F[i][j] = s[k]
           T == {i \in 0 .. Len(s) : ~ Good(i)}
<1>3. T = {}
  <2> SUFFICES ASSUME T # {} PROVE FALSE
    OBVIOUS
  <2>1. PICK m \in T : \A k \in T : m <= k
    <3>1. T \subseteq Nat
      OBVIOUS
    <3> HIDE DEF T
    <3> QED BY <3>1, LeastNumber
  <2>2. m \in 0 .. Len(s) /\ ~ Good(m)
    OBVIOUS
  <2>3. F[m] = IF m = 0 THEN <<>>
               ELSE IF s[m] = e THEN F[m - 1] ELSE Append(F[m - 1], s[m])
    BY <1>2, <2>2 DEF Keeps
  <2>4. m # 0
    <3> SUFFICES ASSUME m = 0 PROVE Good(m)
      BY <2>2
    <3>1. F[m] = <<>>
      BY <2>3
    <3> QED BY <3>1
  <2>5. m - 1 \in 0 .. Len(s) /\ m - 1 \notin T
    <3> HIDE DEF T
    <3>1. m \in Nat /\ m - 1 < m
      BY <2>2
    <3> QED BY <2>1, <2>2, <2>4, <3>1
  <2>6. Good(m - 1)
    BY <2>5
  <2> HIDE DEF T
  <2>7. s[m] \in S
    BY <2>2, <2>4
  <2>8. CASE s[m] = e
    <3>1. F[m] = F[m - 1]
      BY <2>3, <2>4, <2>8
    <3>2. \A k \in 1 .. m : s[k] # e => k \in 1 .. m - 1
      BY <2>2, <2>8
    <3>3. Good(m)
      BY <2>6, <3>1, <3>2
    <3> QED BY <2>2, <3>3
  <2>9. CASE s[m] # e
    <3> DEFINE p == F[m - 1]
    <3>1. p \in Seq(S) /\ F[m] = Append(p, s[m])
      BY <2>3, <2>4, <2>6, <2>9
    <3> HIDE DEF p
    <3>2. /\ F[m] \in Seq(S) /\ Len(F[m]) = Len(p) + 1 /\ Len(p) \in Nat
          /\ F[m][Len(p) + 1] = s[m]
          /\ \A j \in 1 .. Len(p) : F[m][j] = p[j]
      BY <2>7, <3>1
    <3>3. ASSUME NEW k \in 1 .. m, s[k] # e
          PROVE  \E j \in 1 .. Len(F[m]) : F[m][j] = s[k]
      <4>1. CASE k = m
        BY <3>2, <4>1
      <4>2. CASE k # m
        <5>1. k \in 1 .. m - 1
          BY <2>2, <4>2
        <5>2. PICK j \in 1 .. Len(p) : p[j] = s[k]
          BY <2>6, <3>3, <5>1 DEF p
        <5> QED BY <3>2, <5>2
      <4> QED BY <4>1, <4>2
    <3>4. Good(m)
      BY <3>2, <3>3
    <3> QED BY <2>2, <3>4
  <2> QED BY <2>8, <2>9
<1>4. Good(Len(s))
  BY <1>3
<1> QED BY <1>1, <1>4

-----------------------------------------------------------------------------
(***************************************************************************)
(* The lists of the sets: every line can be found in the list of its set,  *)
(* so smart eviction sees every clean line.                                *)
(***************************************************************************)
\* Every line of a set is in its list.
Listed(set) ==
  /\ set.lru_order \in Seq(Tags)
  /\ \A t \in DOMAIN set.lines :
       \E k \in 1 .. Len(set.lru_order) : set.lru_order[k] = t

\* A tag in front of a list, and the list behind it.
LEMMA ConsFacts ==
  ASSUME NEW S, NEW t \in S, NEW s \in Seq(S)
  PROVE  /\ Cons(t, s) \in Seq(S) /\ Len(Cons(t, s)) = Len(s) + 1
         /\ Cons(t, s)[1] = t
         /\ \A k \in 1 .. Len(s) : Cons(t, s)[k + 1] = s[k]
BY DEF Cons

\* find() puts the tag it looks for in front of the others.
LEMMA FindListed ==
  ASSUME NEW set, Listed(set), NEW tag \in Tags
  PROVE  Listed(find(set, tag))
<1> DEFINE old == set.lru_order
           rest == remove(old, tag)
           new == find(set, tag)
<1>1. CASE tag \notin DOMAIN set.lines
  BY <1>1 DEF find
<1>2. CASE tag \in DOMAIN set.lines
  <2>1. old \in Seq(Tags)
    BY DEF Listed
  <2>2. new.lru_order = Cons(tag, rest) /\ new.lines = set.lines
    BY <1>2 DEF find
  <2>3. /\ rest \in Seq(Tags)
        /\ \A k \in 1 .. Len(old) : old[k] # tag =>
             \E j \in 1 .. Len(rest) : rest[j] = old[k]
    BY <2>1, RemoveFacts
  <2>4. \A t \in DOMAIN set.lines : \E k \in 1 .. Len(old) : old[k] = t
    BY DEF Listed
  <2> HIDE DEF rest, old, new
  <2>5. /\ new.lru_order \in Seq(Tags) /\ Len(new.lru_order) = Len(rest) + 1
        /\ new.lru_order[1] = tag
        /\ \A k \in 1 .. Len(rest) : new.lru_order[k + 1] = rest[k]
    BY <2>2, <2>3, ConsFacts
  <2>6. ASSUME NEW t \in DOMAIN new.lines
        PROVE  \E k \in 1 .. Len(new.lru_order) : new.lru_order[k] = t
    <3>0. Len(rest) \in Nat
      BY <2>3
    <3>1. CASE t = tag
      BY <2>5, <3>0, <3>1
    <3>2. CASE t # tag
      <4>1. PICK j \in 1 .. Len(rest) : rest[j] = t
        BY <2>2, <2>3, <2>4, <3>2
      <4>2. j + 1 \in 1 .. Len(new.lru_order)
        BY <2>5, <3>0
      <4> QED BY <2>5, <4>1, <4>2
    <3> QED BY <3>1, <3>2
  <2> QED BY <2>5, <2>6 DEF Listed, new
<1> QED BY <1>1, <1>2

\* An assignment through the pointer changes neither list nor tags.
LEMMA SetLineListed ==
  ASSUME NEW set, Listed(set), NEW tag, NEW s
  PROVE  Listed(SetLine(set, tag, s))
BY DEF Listed, SetLine

\* The end of allocate() lists the tag it installs.
LEMMA InstallListed ==
  ASSUME NEW set, Listed(set), NEW tag \in Tags
  PROVE  Listed(Install(set, tag))
<1> DEFINE old == set.lru_order
           new == Install(set, tag)
<1>1. old \in Seq(Tags) /\ Len(old) \in Nat
  BY DEF Listed
<1>2. new.lru_order = Cons(tag, old) /\ DOMAIN new.lines = DOMAIN set.lines \cup {tag}
  BY DEF Install
<1>3. \A t \in DOMAIN set.lines : \E k \in 1 .. Len(old) : old[k] = t
  BY DEF Listed
<1> HIDE DEF old, new
<1>4. /\ new.lru_order \in Seq(Tags) /\ Len(new.lru_order) = Len(old) + 1
      /\ new.lru_order[1] = tag
      /\ \A k \in 1 .. Len(old) : new.lru_order[k + 1] = old[k]
  BY <1>1, <1>2, ConsFacts
<1>5. ASSUME NEW t \in DOMAIN new.lines
      PROVE  \E k \in 1 .. Len(new.lru_order) : new.lru_order[k] = t
  <2>1. CASE t = tag
    BY <1>1, <1>4, <2>1
  <2>2. CASE t # tag
    <3>1. PICK j \in 1 .. Len(old) : old[j] = t
      BY <1>2, <1>3, <2>2
    <3>2. j + 1 \in 1 .. Len(new.lru_order)
      BY <1>1, <1>4
    <3> QED BY <1>4, <3>1, <3>2
  <2> QED BY <2>1, <2>2
<1> QED BY <1>4, <1>5 DEF Listed, new

\* Removing one item of a list leaves the others.
LEMMA RemoveAtFacts ==
  ASSUME NEW S, NEW s \in Seq(S), NEW i \in 1 .. Len(s)
  PROVE  /\ RemoveAt(s, i) \in Seq(S) /\ Len(RemoveAt(s, i)) = Len(s) - 1
         /\ \A k \in 1 .. i - 1 : RemoveAt(s, i)[k] = s[k]
         /\ \A k \in i + 1 .. Len(s) : RemoveAt(s, i)[k - 1] = s[k]
<1> DEFINE p == SubSeq(s, 1, i - 1)
           q == SubSeq(s, i + 1, Len(s))
<1>1. /\ p \in Seq(S) /\ Len(p) = i - 1
      /\ \A k \in 1 .. i - 1 : p[k] = s[k]
  OBVIOUS
<1>2. /\ q \in Seq(S) /\ Len(q) = Len(s) - i
      /\ \A k \in 1 .. Len(s) - i : q[k] = s[i + k]
  OBVIOUS
<1>3. RemoveAt(s, i) = p \o q
  BY DEF RemoveAt
<1> HIDE DEF p, q
<1>4. /\ p \o q \in Seq(S) /\ Len(p \o q) = Len(p) + Len(q)
      /\ \A k \in 1 .. Len(p) : (p \o q)[k] = p[k]
      /\ \A k \in 1 .. Len(q) : (p \o q)[Len(p) + k] = q[k]
  <2>1. ASSUME NEW x \in Seq(S), NEW y \in Seq(S)
        PROVE  /\ x \o y \in Seq(S) /\ Len(x \o y) = Len(x) + Len(y)
               /\ \A k \in 1 .. Len(x) : (x \o y)[k] = x[k]
               /\ \A k \in 1 .. Len(y) : (x \o y)[Len(x) + k] = y[k]
    OBVIOUS
  <2> QED BY <1>1, <1>2, <2>1
<1>5. ASSUME NEW k \in i + 1 .. Len(s) PROVE (p \o q)[k - 1] = s[k]
  <2>1. k - i \in 1 .. Len(q) /\ Len(p) + (k - i) = k - 1 /\ i + (k - i) = k
    BY <1>1, <1>2
  <2>2. (p \o q)[Len(p) + (k - i)] = q[k - i] /\ q[k - i] = s[i + (k - i)]
    BY <1>2, <1>4, <2>1
  <2> QED BY <2>1, <2>2
<1> QED BY <1>1, <1>2, <1>3, <1>4, <1>5

\* An eviction removes the victim from the lines and once from the list.
LEMMA EvictListed ==
  ASSUME NEW set, Listed(set), NEW i \in 1 .. Len(set.lru_order)
  PROVE  Listed(Evict(set, i))
<1> DEFINE old == set.lru_order
           new == Evict(set, i)
<1>1. old \in Seq(Tags) /\ Len(old) \in Nat /\ i \in 1 .. Len(old)
  BY DEF Listed
<1>2. /\ new.lru_order = RemoveAt(old, i)
      /\ DOMAIN new.lines = DOMAIN set.lines \ {old[i]}
  BY DEF Evict, Restrict
<1>3. \A t \in DOMAIN set.lines : \E k \in 1 .. Len(old) : old[k] = t
  BY DEF Listed
<1> HIDE DEF old, new
<1>4. /\ new.lru_order \in Seq(Tags) /\ Len(new.lru_order) = Len(old) - 1
      /\ \A k \in 1 .. i - 1 : new.lru_order[k] = old[k]
      /\ \A k \in i + 1 .. Len(old) : new.lru_order[k - 1] = old[k]
  BY <1>1, <1>2, RemoveAtFacts
<1>5. ASSUME NEW t \in DOMAIN new.lines
      PROVE  \E k \in 1 .. Len(new.lru_order) : new.lru_order[k] = t
  <2>1. PICK k \in 1 .. Len(old) : old[k] = t /\ k # i
    BY <1>2, <1>3
  <2>2. CASE k < i
    BY <1>1, <1>4, <2>1, <2>2
  <2>3. CASE k > i
    <3>1. k - 1 \in 1 .. Len(new.lru_order) /\ k \in i + 1 .. Len(old)
      BY <1>1, <1>4, <2>3
    <3> QED BY <1>4, <2>1, <3>1
  <2> QED BY <1>1, <2>1, <2>2, <2>3
<1> QED BY <1>4, <1>5 DEF Listed, new

\* A set of places in a list has a last one.
LEMMA LastPlace ==
  ASSUME NEW n \in Nat, NEW I, I \subseteq 1 .. n, I # {}
  PROVE  Max(I) \in I /\ \A k \in I : k <= Max(I)
<1> DEFINE T == {n - k : k \in I}
<1>0. \A k \in I : k \in Nat /\ n - k \in Nat
  OBVIOUS
<1>1. T \subseteq Nat /\ T # {}
  BY <1>0
<1>2. PICK m \in T : \A k \in T : m <= k
  <2> HIDE DEF T
  <2> QED BY <1>1, LeastNumber
<1>3. PICK x \in I : m = n - x
  BY <1>2
<1>4. ASSUME NEW k \in I PROVE x >= k
  <2>1. m <= n - k
    BY <1>2
  <2> QED BY <1>0, <1>3, <2>1
<1>5. \E y \in I : \A k \in I : y >= k
  BY <1>4
<1>6. Max(I) \in I /\ \A k \in I : Max(I) >= k
  BY <1>5 DEF Max
<1>7. Max(I) \in Nat
  BY <1>0, <1>6
<1> QED BY <1>0, <1>6, <1>7

\* The victim that smart eviction chooses from a list that is not empty is
\* in the list, and it is dirty only if everything in the list is.
LEMMA SmartVictimFacts ==
  ASSUME NEW set, set.lru_order \in Seq(Tags), Len(set.lru_order) # 0
  PROVE  /\ SmartVictim(set) \in 1 .. Len(set.lru_order)
         /\ LineState(set, set.lru_order[SmartVictim(set)]) = "MODIFIED" =>
              \A k \in 1 .. Len(set.lru_order) :
                LineState(set, set.lru_order[k]) = "MODIFIED"
<1> DEFINE n == Len(set.lru_order)
           I == {i \in 1 .. n : LineState(set, set.lru_order[i]) # "MODIFIED"}
<1>1. n \in Nat /\ n # 0
  OBVIOUS
<1>2. SmartVictim(set) = LET clean == IF I # {} THEN Max(I) ELSE 0
                         IN  IF clean # 0 THEN clean ELSE n
  BY DEF SmartVictim, SelectLastInSeq
<1>3. CASE I = {}
  BY <1>1, <1>2, <1>3
<1>4. CASE I # {}
  <2>1. Max(I) \in I
    <3>1. I \subseteq 1 .. n
      OBVIOUS
    <3> HIDE DEF I, n
    <3> QED BY <1>1, <1>4, <3>1, LastPlace
  <2>2. SmartVictim(set) = Max(I)
    BY <1>1, <1>2, <1>4, <2>1
  <2> QED BY <2>1, <2>2
<1> QED BY <1>3, <1>4

\* A full set has a list, and its victim is in it.
LEMMA VictimListed ==
  ASSUME NEW set, Listed(set), Full(set)
  PROVE  /\ set.lru_order \in Seq(Tags) /\ Len(set.lru_order) # 0
         /\ VictimPlace(set) \in 1 .. Len(set.lru_order)
<1>1. DOMAIN set.lines # {}
  BY FS_EmptySet, AssocAssumption DEF Full
<1>2. set.lru_order \in Seq(Tags) /\ Len(set.lru_order) # 0
  BY <1>1 DEF Listed
<1>3. Len(set.lru_order) \in 1 .. Len(set.lru_order)
  BY <1>2
<1> QED BY <1>2, <1>3, SmartVictimFacts DEF VictimPlace

\* Allocation keeps every line listed.
LEMMA AllocationListed ==
  ASSUME NEW set, Listed(set), NEW tag \in Tags
  PROVE  Listed(Allocation(set, tag).set)
<1> DEFINE mid == IF Full(set) THEN Evict(set, VictimPlace(set)) ELSE set
<1>1. Allocation(set, tag).set = Install(mid, tag)
  BY DEF Allocation, allocate, SmartAllocate, Full, VictimPlace
<1>2. Listed(mid)
  BY VictimListed, EvictListed
<1> HIDE DEF mid
<1> QED BY <1>1, <1>2, InstallListed

\* Every line of every set of a cache is listed.
CacheListed(cache) ==
  /\ cache = [i \in SetIndices |-> cache[i]]
  /\ \A i \in SetIndices : Listed(cache[i])

\* Writing one set of a cache.
LEMMA ReplaceListed ==
  ASSUME NEW cache, CacheListed(cache), NEW a \in Addrs, NEW set, Listed(set)
  PROVE  CacheListed([cache EXCEPT ![set_idx(a)] = set])
<1>1. cache = [i \in SetIndices |-> cache[i]]
  BY DEF CacheListed
<1> DEFINE new == [cache EXCEPT ![set_idx(a)] = set]
<1>2. /\ new = [i \in SetIndices |-> new[i]]
      /\ \A i \in SetIndices : new[i] = IF i = set_idx(a) THEN set ELSE cache[i]
  BY <1>1
<1> HIDE DEF new
<1>3. CacheListed(new)
  BY <1>2 DEF CacheListed
<1> QED BY <1>3 DEF new

\* Lookups and fills.
LEMMA OperationsListed ==
  ASSUME NEW cache, CacheListed(cache), NEW a \in Addrs
  PROVE  /\ CacheListed(get_line(cache, a))
         /\ CacheListed([cache EXCEPT ![set_idx(a)] =
                           Allocation(cache[set_idx(a)], tag_of(a)).set])
<1>1. Listed(cache[set_idx(a)]) /\ tag_of(a) \in Tags
  BY AddressFacts DEF CacheListed
<1>2. CacheListed(get_line(cache, a))
  BY <1>1, FindListed, ReplaceListed DEF get_line
<1>3. CacheListed([cache EXCEPT ![set_idx(a)] =
                     Allocation(cache[set_idx(a)], tag_of(a)).set])
  BY <1>1, AllocationListed, ReplaceListed
<1> QED BY <1>2, <1>3

\* Assignments to the state of a line.
LEMMA SetStateListed ==
  ASSUME NEW cache, CacheListed(cache), NEW a \in Addrs, NEW s
  PROVE  CacheListed(SetState(cache, a, s))
<1>1. Listed(cache[set_idx(a)]) /\ tag_of(a) \in Tags
  BY AddressFacts DEF CacheListed
<1> QED BY <1>1, SetLineListed, ReplaceListed DEF SetState

\* A granted transaction keeps the lines of its requester listed.
LEMMA RequesterListed ==
  ASSUME NEW cs, cs = [c \in Cores |-> cs[c]], \A c \in Cores : CacheListed(cs[c]),
         NEW r \in Cores, NEW type \in {"BUS_RD", "BUS_RDX", "BUS_UPGR"},
         NEW a \in Addrs
  PROVE  CacheListed(handle_bus_transaction(cs, r, type, a).caches[r])
<1> DEFINE s == RequesterState(type, SharedSignal(cs, r, a))
           snooped == Snooped(cs, r, type, a)
           ds == handle_bus_transaction(cs, r, type, a).caches
           mid == [cs[r] EXCEPT ![set_idx(a)] =
                     Allocation(cs[r][set_idx(a)], tag_of(a)).set]
<1>1. snooped[r] = cs[r] /\ DOMAIN snooped = Cores
  BY DEF Snooped
<1>2. mid = IF Protocol = "SMART" THEN SmartAllocateLine(cs[r], a).cache
                                  ELSE allocate_line(cs[r], a).cache
  BY DEF SmartAllocateLine, allocate_line, Allocation
<1>3. /\ CacheListed(get_line(cs[r], a)) /\ CacheListed(mid)
  BY OperationsListed
<1> HIDE DEF mid, s
<1>4. CASE type = "BUS_UPGR"
  <2>1. ds = [snooped EXCEPT ![r] = SetState(get_line(snooped[r], a), a, s)]
    BY <1>4, BranchFacts DEF s
  <2> HIDE DEF ds, snooped
  <2>2. ds[r] = SetState(get_line(cs[r], a), a, s)
    BY <1>1, <2>1
  <2>3. CacheListed(ds[r])
    BY <1>3, <2>2, SetStateListed
  <2> QED BY <2>3 DEF ds
<1>5. CASE type # "BUS_UPGR"
  <2>1. ds = [snooped EXCEPT ![r] = SetState(mid, a, s)]
    <3>1. CASE Protocol = "SMART"
      <4>1. ds = [snooped EXCEPT ![r] =
                    SetState(SmartAllocateLine(cs[r], a).cache, a, s)]
        BY <1>5, <3>1, BranchFacts DEF s
      <4> QED BY <1>2, <3>1, <4>1
    <3>2. CASE Protocol # "SMART"
      <4>1. ds = [snooped EXCEPT ![r] =
                    SetState(allocate_line(cs[r], a).cache, a, s)]
        BY <1>5, <3>2, BranchFacts DEF s
      <4> QED BY <1>2, <3>2, <4>1
    <3> QED BY <3>1, <3>2
  <2> HIDE DEF ds, snooped
  <2>2. ds[r] = SetState(mid, a, s)
    BY <1>1, <2>1
  <2>3. CacheListed(ds[r])
    BY <1>3, <2>2, SetStateListed
  <2> QED BY <2>3 DEF ds
<1> QED BY <1>4, <1>5

\* Every line of every cache is listed.
LinesListed == \A c \in Cores : CacheListed(caches[c])

\* A request looks its line up, and may write it.
LEMMA RequestListed ==
  ASSUME IInv, LinesListed, NEW c \in Cores, NEW a \in TraceAddrs[c],
         NEW w \in BOOLEAN, Hit(c, a, w) \/ Miss(c, a, w)
  PROVE  LinesListed'
<1> DEFINE resp == handle_processor_request(caches, c, a, w)
<1>1. a \in Addrs
  BY DEF Addrs
<1>2. RequestOutcome(caches[c], a, resp)
  BY <1>1, RequestBranches DEF IInv, TypeOK
<1>3. caches' = [caches EXCEPT ![c] = resp.cache]
  BY DEF Hit, Miss
<1>4. caches = [d \in Cores |-> caches[d]]
  BY DEF IInv, TypeOK
<1> HIDE DEF resp
<1>5. CacheListed(get_line(caches[c], a))
  BY <1>1, OperationsListed DEF LinesListed
<1>6. CacheListed(resp.cache)
  BY <1>1, <1>2, <1>5, SetStateListed DEF RequestOutcome
<1>7. \A d \in Cores : caches'[d] = IF d = c THEN resp.cache ELSE caches[d]
  BY <1>3, <1>4
<1> QED BY <1>6, <1>7 DEF LinesListed

\* A grant snoops in the other caches and fills or upgrades in one.
LEMMA GrantListed ==
  ASSUME IInv, LinesListed, NEW req \in bus_queue, Grant(req)
  PROVE  LinesListed'
<1> DEFINE r == req.core_id
           a == req.addr
<1>1. /\ r \in Cores
      /\ req.type \in {"BUS_RD", "BUS_RDX", "BUS_UPGR"}
      /\ a \in Addrs
      /\ Effect(caches, caches', r, req.type, a)
  BY GrantEffect
<1>2. caches = [c \in Cores |-> caches[c]]
  BY DEF IInv, TypeOK
<1>3. CacheListed(caches'[r])
  BY <1>1, <1>2, RequesterListed DEF Grant, LinesListed
<1> HIDE DEF r, a
<1>4. ASSUME NEW c \in Cores \ {r} PROVE CacheListed(caches'[c])
  <2>1. CacheListed(get_line(caches[c], a))
    BY <1>1, OperationsListed DEF LinesListed
  <2>2. \/ caches'[c] = get_line(caches[c], a)
        \/ \E s : caches'[c] = SetState(get_line(caches[c], a), a, s)
    BY <1>1 DEF Effect, SnoopLine
  <2> QED BY <1>1, <2>1, <2>2, SetStateListed
<1> QED BY <1>3, <1>4 DEF LinesListed

\* Every resident line is in the list of its set, in every state and under
\* every protocol, so that it can be chosen as a victim.
THEOREM LinesStayListed == Spec => []LinesListed
<1>1. Init => LinesListed
  <2> SUFFICES ASSUME Init, NEW c \in Cores PROVE CacheListed(caches[c])
    BY DEF LinesListed
  <2>1. caches[c] = [i \in SetIndices |-> EmptySet]
    BY DEF Init, EmptyCache
  <2>2. Listed(EmptySet)
    BY DEF Listed, EmptySet
  <2> QED BY <2>1, <2>2 DEF CacheListed
<1>2. IInv /\ LinesListed /\ [Next]_vars => LinesListed'
  <2> SUFFICES ASSUME IInv, LinesListed, [Next]_vars PROVE LinesListed'
    OBVIOUS
  <2>1. ASSUME NEW c \in Cores, NEW a \in TraceAddrs[c], NEW w \in BOOLEAN,
               Hit(c, a, w) \/ Miss(c, a, w)
        PROVE  LinesListed'
    BY <2>1, RequestListed
  <2>2. ASSUME NEW req \in bus_queue, Grant(req) PROVE LinesListed'
    BY <2>2, GrantListed
  <2>3. CASE UNCHANGED vars
    BY <2>3 DEF vars, LinesListed
  <2> QED BY <2>1, <2>2, <2>3 DEF Next
<1> QED BY <1>1, <1>2, Invariance, PTL DEF Spec

\* Smart eviction gives up a dirty line only from a set whose lines are all
\* dirty, although the list that SmartCacheSet::allocate scans may name a tag
\* twice or name tags without a line.
THEOREM CleanLinesFirst ==
  Protocol = "SMART" => (Spec => [][EvictsCleanFirst]_vars)
<1> SUFFICES ASSUME Protocol = "SMART" PROVE Spec => [][EvictsCleanFirst]_vars
  OBVIOUS
<1>1. WInv /\ LinesListed /\ [Next]_vars => [EvictsCleanFirst]_vars
  <2> SUFFICES ASSUME WInv, LinesListed, [Next]_vars,
                      NEW c \in Cores, NEW a \in Addrs, NEW b \in Addrs,
                      Dirty(c, a), Vanishes(c, a),
                      set_idx(b) = set_idx(a), Resident(caches[c], b)
               PROVE  Dirty(c, b)
    BY DEF EvictsCleanFirst
  <2>1. PICK req \in bus_queue : Grant(req) /\ req.core_id = c
    BY VanishesInGrant, GrantedIsGrant DEF WInv
  <2> DEFINE set == caches[c][set_idx(a)]
  <2>2. /\ req.addr \in Addrs
        /\ TagsAfter(caches[c], caches'[c], req.type, req.addr)
    BY <2>1, GrantedTransaction
  <2>3. /\ tag_of(a) \in DOMAIN set.lines
        /\ tag_of(a) \notin DOMAIN caches'[c][set_idx(a)].lines
    BY DEF Vanishes, Resident
  <2>4. set_idx(a) \in SetIndices
    BY AddressFacts
  <2>5. tag_of(a) \in Leaves(set, tag_of(req.addr))
    BY <2>2, <2>3, <2>4 DEF TagsAfter
  <2>6. Full(set) /\ tag_of(a) = set.lru_order[SmartVictim(set)]
    BY <2>5 DEF Leaves, Victim, VictimPlace
  <2>7. Listed(set) /\ CacheSetOK(set)
    BY <2>4 DEF LinesListed, CacheListed, WInv, IInv, TypeOK, CacheOK
  <2>8. LineState(set, tag_of(a)) \in DirtyStates
    BY DEF Dirty, StateOf
  <2>9. tag_of(b) \in DOMAIN set.lines /\ StateOf(caches[c], b) = LineState(set, tag_of(b))
    BY DEF Resident, StateOf
  <2> HIDE DEF set
  <2>10. LineState(set, tag_of(a)) = "MODIFIED"
    <3>1. LineState(set, tag_of(a)) \in SmartState
      BY <2>7, InvalidIsState DEF CacheSetOK, LineState, LineStates
    <3> QED BY <2>8, <3>1 DEF SmartState, DirtyStates
  <2>11. \A k \in 1 .. Len(set.lru_order) :
           LineState(set, set.lru_order[k]) = "MODIFIED"
    BY <2>6, <2>7, <2>10, VictimListed, SmartVictimFacts
  <2>12. LineState(set, tag_of(b)) = "MODIFIED"
    BY <2>7, <2>9, <2>11 DEF Listed
  <2> QED BY <2>9, <2>12 DEF Dirty, DirtyStates
<1> QED BY <1>1, PlacementInvariance, LinesStayListed, PTL DEF Spec

=============================================================================
