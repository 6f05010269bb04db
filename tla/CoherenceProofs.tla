-------------------------- MODULE CoherenceProofs --------------------------
(***************************************************************************)
(* Safety of the coherence state machine, for every protocol, every number *)
(* of cores, every trace and every cache geometry.                         *)
(***************************************************************************)
EXTENDS MESIRefinement, TLAPS

-----------------------------------------------------------------------------
(***************************************************************************)
(* Addresses and sets.                                                     *)
(***************************************************************************)
\* A trace address is a natural number, selects one of the sets, and its
\* tag is a tag.
LEMMA AddressFacts ==
  ASSUME NEW a \in Addrs
  PROVE  /\ a \in Nat
         /\ set_idx(a) \in SetIndices
         /\ tag_of(a) \in Tags
<1>1. a \in Nat
  BY TraceAssumption DEF Addrs
<1>2. tag_of(a) \in Tags
  BY DEF Tags
<1>3. BlockSize \in Nat \ {0} /\ num_sets \in Nat \ {0}
  BY SizeAssumption
<1>4. a \div BlockSize \in Int
  BY <1>1, <1>3
<1>5. set_idx(a) \in SetIndices
  BY <1>3, <1>4 DEF set_idx, SetIndices
<1> QED BY <1>1, <1>2, <1>5

\* "INVALID" is a state of every protocol.
LEMMA InvalidIsState == "INVALID" \in LineStates
BY ProtocolAssumption
   DEF LineStates, MESIState, DragonState, MESIFState, SmartState, MOESIState

LEMMA EmptySetOK == CacheSetOK(EmptySet) /\ DOMAIN EmptySet.lines = {}
BY DEF CacheSetOK, EmptySet

\* find() changes the order of the list only.
LEMMA FindFacts ==
  ASSUME NEW set, NEW tag, CacheSetOK(set)
  PROVE  /\ CacheSetOK(find(set, tag))
         /\ find(set, tag).lines = set.lines
BY DEF find, CacheSetOK

\* An assignment through the pointer changes the state of that line only.
LEMMA SetLineFacts ==
  ASSUME NEW set, NEW tag, CacheSetOK(set), NEW s \in LineStates,
         tag \in DOMAIN set.lines
  PROVE  /\ CacheSetOK(SetLine(set, tag, s))
         /\ DOMAIN SetLine(set, tag, s).lines = DOMAIN set.lines
         /\ \A t : LineState(SetLine(set, tag, s), t) =
                     IF t = tag THEN s ELSE LineState(set, t)
<1> DEFINE new == SetLine(set, tag, s)
<1>1. new.lines = [set.lines EXCEPT ![tag] = s]
  BY DEF SetLine
<1>2. /\ set.lines \in [DOMAIN set.lines -> LineStates]
      /\ DOMAIN set.lines \subseteq Tags
  BY DEF CacheSetOK
<1>3. new = [lru_order |-> new.lru_order, lines |-> new.lines]
  BY DEF SetLine
<1>4. /\ DOMAIN new.lines = DOMAIN set.lines
      /\ new.lines \in [DOMAIN new.lines -> LineStates]
  BY <1>1, <1>2
<1>5. CacheSetOK(new)
  BY <1>2, <1>3, <1>4 DEF CacheSetOK
<1>6. \A t : LineState(new, t) = IF t = tag THEN s ELSE LineState(set, t)
  BY <1>1, <1>2, <1>4 DEF LineState
<1> QED BY <1>4, <1>5, <1>6

\* What allocate() promises for its tag, whichever victim it takes: the new
\* line is INVALID, and every other line keeps its state or is gone.
Allocated(set, new, tag) ==
  /\ CacheSetOK(new)
  /\ tag \in DOMAIN new.lines
  /\ LineState(new, tag) = "INVALID"
  /\ \A t : t # tag => LineState(new, t) \in {LineState(set, t), "INVALID"}

LEMMA InstallFacts ==
  ASSUME NEW set, NEW tag \in Tags, CacheSetOK(set)
  PROVE  /\ Allocated(set, Install(set, tag), tag)
         /\ \A t : t # tag =>
              LineState(Install(set, tag), t) = LineState(set, t)
<1> DEFINE new == Install(set, tag)
<1>1. new.lines = [t \in DOMAIN set.lines \cup {tag} |->
                     IF t = tag THEN "INVALID" ELSE set.lines[t]]
  BY DEF Install
<1>2. /\ set.lines \in [DOMAIN set.lines -> LineStates]
      /\ DOMAIN set.lines \subseteq Tags
  BY DEF CacheSetOK
<1>3. new = [lru_order |-> new.lru_order, lines |-> new.lines]
  BY DEF Install
<1>4. /\ DOMAIN new.lines = DOMAIN set.lines \cup {tag}
      /\ new.lines \in [DOMAIN new.lines -> LineStates]
  BY <1>1, <1>2, InvalidIsState
<1>5. CacheSetOK(new)
  BY <1>2, <1>3, <1>4 DEF CacheSetOK
<1>6. LineState(new, tag) = "INVALID"
  BY <1>1, <1>4 DEF LineState
<1>7. \A t : t # tag => LineState(new, t) = LineState(set, t)
  BY <1>1, <1>4 DEF LineState
<1> QED BY <1>4, <1>5, <1>6, <1>7 DEF Allocated

LEMMA EvictFacts ==
  ASSUME NEW set, NEW i, CacheSetOK(set)
  PROVE  /\ CacheSetOK(Evict(set, i))
         /\ \A t : LineState(Evict(set, i), t) \in {LineState(set, t), "INVALID"}
<1> DEFINE new == Evict(set, i)
<1>1. new.lines = [t \in DOMAIN set.lines \ {set.lru_order[i]} |-> set.lines[t]]
  BY DEF Evict, Restrict
<1>2. /\ set.lines \in [DOMAIN set.lines -> LineStates]
      /\ DOMAIN set.lines \subseteq Tags
  BY DEF CacheSetOK
<1>3. new = [lru_order |-> new.lru_order, lines |-> new.lines]
  BY DEF Evict
<1>4. /\ DOMAIN new.lines = DOMAIN set.lines \ {set.lru_order[i]}
      /\ new.lines \in [DOMAIN new.lines -> LineStates]
  BY <1>1, <1>2
<1>5. CacheSetOK(new)
  BY <1>2, <1>3, <1>4 DEF CacheSetOK
<1>6. \A t : LineState(new, t) \in {LineState(set, t), "INVALID"}
  BY <1>1, <1>4 DEF LineState
<1> QED BY <1>5, <1>6

\* Evicting any victim, or none, before the installation.
LEMMA EvictInstallFacts ==
  ASSUME NEW set, NEW i, NEW tag \in Tags, CacheSetOK(set)
  PROVE  /\ Allocated(set, Install(Evict(set, i), tag), tag)
         /\ Allocated(set, Install(set, tag), tag)
<1> DEFINE mid == Evict(set, i)
<1>1. /\ CacheSetOK(mid)
      /\ \A t : LineState(mid, t) \in {LineState(set, t), "INVALID"}
  BY EvictFacts
<1>2. /\ Allocated(mid, Install(mid, tag), tag)
      /\ \A t : t # tag => LineState(Install(mid, tag), t) = LineState(mid, t)
  BY <1>1, InstallFacts
<1> HIDE DEF mid
<1>3. Allocated(set, Install(mid, tag), tag)
  BY <1>1, <1>2 DEF Allocated
<1>4. Allocated(set, Install(set, tag), tag)
  BY InstallFacts
<1> QED BY <1>3, <1>4 DEF mid

LEMMA AllocateFacts ==
  ASSUME NEW set, NEW tag \in Tags, CacheSetOK(set)
  PROVE  /\ Allocated(set, allocate(set, tag).set, tag)
         /\ Allocated(set, SmartAllocate(set, tag).set, tag)
<1>1. Allocated(set, allocate(set, tag).set, tag)
  BY EvictInstallFacts DEF allocate
<1>2. Allocated(set, SmartAllocate(set, tag).set, tag)
  BY EvictInstallFacts DEF SmartAllocate
<1> QED BY <1>1, <1>2

-----------------------------------------------------------------------------
(***************************************************************************)
(* Caches.                                                                 *)
(***************************************************************************)
\* Replacing one set by a well-typed one.
LEMMA ReplaceSet ==
  ASSUME NEW cache, CacheOK(cache), NEW a \in Addrs, NEW set, CacheSetOK(set)
  PROVE  LET new == [cache EXCEPT ![set_idx(a)] = set]
         IN  /\ CacheOK(new)
             /\ \A b \in Addrs :
                  new[set_idx(b)] = IF set_idx(b) = set_idx(a) THEN set
                                    ELSE cache[set_idx(b)]
<1>1. set_idx(a) \in SetIndices /\ \A b \in Addrs : set_idx(b) \in SetIndices
  BY AddressFacts
<1>2. cache = [i \in SetIndices |-> cache[i]]
  BY DEF CacheOK
<1> DEFINE new == [cache EXCEPT ![set_idx(a)] = set]
<1>3. /\ new = [i \in SetIndices |-> new[i]]
      /\ \A i \in SetIndices : new[i] = IF i = set_idx(a) THEN set ELSE cache[i]
  BY <1>1, <1>2
<1> HIDE DEF new
<1>4. CacheOK(new)
  BY <1>3 DEF CacheOK
<1>5. \A b \in Addrs : new[set_idx(b)] = IF set_idx(b) = set_idx(a) THEN set
                                         ELSE cache[set_idx(b)]
  BY <1>1, <1>3
<1> QED BY <1>4, <1>5 DEF new

\* A lookup changes neither states nor residence.
LEMMA GetLineFacts ==
  ASSUME NEW cache, CacheOK(cache), NEW a \in Addrs
  PROVE  /\ CacheOK(get_line(cache, a))
         /\ \A b \in Addrs :
              /\ StateOf(get_line(cache, a), b) = StateOf(cache, b)
              /\ Resident(get_line(cache, a), b) <=> Resident(cache, b)
<1> DEFINE set == find(cache[set_idx(a)], tag_of(a))
           new == [cache EXCEPT ![set_idx(a)] = set]
<1>1. CacheSetOK(cache[set_idx(a)])
  BY AddressFacts DEF CacheOK
<1>2. CacheSetOK(set) /\ set.lines = cache[set_idx(a)].lines
  BY <1>1, FindFacts
<1> HIDE DEF set
<1>3. /\ CacheOK(new)
      /\ \A b \in Addrs : new[set_idx(b)] = IF set_idx(b) = set_idx(a) THEN set
                                            ELSE cache[set_idx(b)]
  BY <1>2, ReplaceSet
<1> HIDE DEF new
<1>4. \A b \in Addrs : new[set_idx(b)].lines = cache[set_idx(b)].lines
  BY <1>2, <1>3
<1>5. \A b \in Addrs : /\ StateOf(new, b) = StateOf(cache, b)
                       /\ Resident(new, b) <=> Resident(cache, b)
  BY <1>4 DEF StateOf, Resident, LineState
<1>6. get_line(cache, a) = new
  BY DEF get_line, new, set
<1> QED BY <1>3, <1>5, <1>6

LEMMA SetStateFacts ==
  ASSUME NEW cache, CacheOK(cache), NEW a \in Addrs, NEW s \in LineStates,
         Resident(cache, a)
  PROVE  /\ CacheOK(SetState(cache, a, s))
         /\ \A b \in Addrs :
              /\ StateOf(SetState(cache, a, s), b) =
                   IF SameBlock(a, b) THEN s ELSE StateOf(cache, b)
              /\ Resident(SetState(cache, a, s), b) <=> Resident(cache, b)
<1> DEFINE old == cache[set_idx(a)]
           set == SetLine(old, tag_of(a), s)
           new == [cache EXCEPT ![set_idx(a)] = set]
<1>1. CacheSetOK(old) /\ tag_of(a) \in DOMAIN old.lines
  BY AddressFacts DEF CacheOK, Resident
<1>2. /\ CacheSetOK(set)
      /\ DOMAIN set.lines = DOMAIN old.lines
      /\ \A t : LineState(set, t) = IF t = tag_of(a) THEN s ELSE LineState(old, t)
  BY <1>1, SetLineFacts
<1> HIDE DEF set
<1>3. /\ CacheOK(new)
      /\ \A b \in Addrs : new[set_idx(b)] = IF set_idx(b) = set_idx(a) THEN set
                                            ELSE cache[set_idx(b)]
  BY <1>2, ReplaceSet
<1> HIDE DEF new
<1>4. ASSUME NEW b \in Addrs
      PROVE  /\ StateOf(new, b) = IF SameBlock(a, b) THEN s ELSE StateOf(cache, b)
             /\ Resident(new, b) <=> Resident(cache, b)
  <2>1. CASE set_idx(b) = set_idx(a)
    BY <2>1, <1>2, <1>3 DEF StateOf, Resident, SameBlock
  <2>2. CASE set_idx(b) # set_idx(a)
    BY <2>2, <1>3 DEF StateOf, Resident, SameBlock
  <2> QED BY <2>1, <2>2
<1>5. SetState(cache, a, s) = new
  BY DEF SetState, new, set
<1> QED BY <1>3, <1>4, <1>5

\* Snooping gives a valid line the prescribed state and evicts nothing.
LEMMA SnoopFacts ==
  ASSUME NEW cache, CacheOK(cache), NEW a \in Addrs, NEW s \in LineStates
  PROVE  /\ CacheOK(SnoopLine(cache, a, s))
         /\ \A b \in Addrs :
              /\ StateOf(SnoopLine(cache, a, s), b) =
                   IF SameBlock(a, b) /\ StateOf(cache, a) # "INVALID"
                   THEN s ELSE StateOf(cache, b)
              /\ Resident(SnoopLine(cache, a, s), b) <=> Resident(cache, b)
<1> DEFINE found == get_line(cache, a)
<1>1. /\ CacheOK(found)
      /\ \A b \in Addrs : /\ StateOf(found, b) = StateOf(cache, b)
                          /\ Resident(found, b) <=> Resident(cache, b)
  BY GetLineFacts
<1> HIDE DEF found
<1>2. CASE StateOf(cache, a) = "INVALID"
  BY <1>1, <1>2 DEF SnoopLine, found
<1>3. CASE StateOf(cache, a) # "INVALID"
  <2>1. Resident(found, a)
    BY <1>1, <1>3 DEF StateOf, LineState, Resident
  <2>2. /\ CacheOK(SetState(found, a, s))
        /\ \A b \in Addrs :
             /\ StateOf(SetState(found, a, s), b) =
                  IF SameBlock(a, b) THEN s ELSE StateOf(found, b)
             /\ Resident(SetState(found, a, s), b) <=> Resident(found, b)
    BY <1>1, <2>1, SetStateFacts
  <2>3. SnoopLine(cache, a, s) = SetState(found, a, s)
    BY <1>3 DEF SnoopLine, found
  <2> QED BY <1>1, <1>3, <2>2, <2>3
<1> QED BY <1>2, <1>3

\* The requester's cache after a transaction for address a that gives its
\* line state s: other blocks keep their state or were evicted.
Requested(cache, new, a, s) ==
  /\ CacheOK(new)
  /\ \A b \in Addrs :
       StateOf(new, b) \in IF SameBlock(a, b) THEN {s}
                           ELSE {StateOf(cache, b), "INVALID"}

\* A fill with a set in which the tag has just been allocated.
LEMMA FillFacts ==
  ASSUME NEW cache, CacheOK(cache), NEW a \in Addrs, NEW s \in LineStates,
         NEW set, Allocated(cache[set_idx(a)], set, tag_of(a))
  PROVE  Requested(cache, SetState([cache EXCEPT ![set_idx(a)] = set], a, s), a, s)
<1> DEFINE old == cache[set_idx(a)]
           mid == [cache EXCEPT ![set_idx(a)] = set]
<1>1. /\ CacheSetOK(set)
      /\ tag_of(a) \in DOMAIN set.lines
      /\ \A t : t # tag_of(a) => LineState(set, t) \in {LineState(old, t), "INVALID"}
  BY DEF Allocated
<1>2. /\ CacheOK(mid)
      /\ \A b \in Addrs : mid[set_idx(b)] = IF set_idx(b) = set_idx(a) THEN set
                                            ELSE cache[set_idx(b)]
  BY <1>1, ReplaceSet
<1> HIDE DEF mid
<1>3. Resident(mid, a)
  BY <1>1, <1>2 DEF Resident
<1>4. /\ CacheOK(SetState(mid, a, s))
      /\ \A b \in Addrs : StateOf(SetState(mid, a, s), b) =
                            IF SameBlock(a, b) THEN s ELSE StateOf(mid, b)
  BY <1>2, <1>3, SetStateFacts
<1>5. ASSUME NEW b \in Addrs, ~SameBlock(a, b)
      PROVE  StateOf(mid, b) \in {StateOf(cache, b), "INVALID"}
  <2>1. CASE set_idx(b) = set_idx(a)
    BY <1>1, <1>2, <1>5, <2>1 DEF StateOf, SameBlock
  <2>2. CASE set_idx(b) # set_idx(a)
    BY <1>2, <2>2 DEF StateOf
  <2> QED BY <2>1, <2>2
<1> QED BY <1>4, <1>5 DEF Requested, mid

LEMMA AllocateLineFacts ==
  ASSUME NEW cache, CacheOK(cache), NEW a \in Addrs, NEW s \in LineStates
  PROVE  /\ Requested(cache, SetState(allocate_line(cache, a).cache, a, s), a, s)
         /\ Requested(cache, SetState(SmartAllocateLine(cache, a).cache, a, s), a, s)
<1>1. CacheSetOK(cache[set_idx(a)]) /\ tag_of(a) \in Tags
  BY AddressFacts DEF CacheOK
<1>2. /\ Allocated(cache[set_idx(a)], allocate(cache[set_idx(a)], tag_of(a)).set,
                   tag_of(a))
      /\ Allocated(cache[set_idx(a)],
                   SmartAllocate(cache[set_idx(a)], tag_of(a)).set, tag_of(a))
  BY <1>1, AllocateFacts
<1>3. Requested(cache, SetState(allocate_line(cache, a).cache, a, s), a, s)
  BY <1>2, FillFacts DEF allocate_line
<1>4. Requested(cache, SetState(SmartAllocateLine(cache, a).cache, a, s), a, s)
  BY <1>2, FillFacts DEF SmartAllocateLine
<1> QED BY <1>3, <1>4

LEMMA UpgradeLineFacts ==
  ASSUME NEW cache, CacheOK(cache), NEW a \in Addrs, NEW s \in LineStates,
         Resident(cache, a)
  PROVE  Requested(cache, SetState(get_line(cache, a), a, s), a, s)
BY GetLineFacts, SetStateFacts DEF Requested

-----------------------------------------------------------------------------
(***************************************************************************)
(* Bus transactions.                                                       *)
(***************************************************************************)
\* The snoop rule of the selected protocol, and the state it gives the
\* requester's line.
SnoopState(type, state) ==
  CASE Protocol = "MESI"   -> MESI_SnoopState(type, state)
    [] Protocol = "DRAGON" -> Dragon_SnoopState(type, state)
    [] Protocol = "MESIF"  -> MESIF_SnoopState(type, state)
    [] Protocol = "SMART"  -> Smart_SnoopState(type, state)
    [] Protocol = "MOESI"  -> MOESI_SnoopState(type, state)

RequesterState(type, shared_signal) ==
  CASE Protocol = "MESI"   -> IF type = "BUS_UPGR" THEN "MODIFIED"
                              ELSE MESI_FillState(type, shared_signal)
    [] Protocol = "DRAGON" -> IF type = "BUS_UPGR"
                              THEN Dragon_UpdateState(shared_signal)
                              ELSE Dragon_FillState(shared_signal)
    [] Protocol = "MESIF"  -> IF type = "BUS_UPGR" THEN "MODIFIED"
                              ELSE MESIF_FillState(type, shared_signal)
    [] Protocol = "SMART"  -> IF type = "BUS_UPGR" THEN "MODIFIED"
                              ELSE Smart_FillState(type, shared_signal)
    [] Protocol = "MOESI"  -> IF type = "BUS_UPGR" THEN "MODIFIED"
                              ELSE MOESI_FillState(type, shared_signal)

\* The bus's shared signal: some other core holds a valid copy.
SharedSignal(cs, r, a) == Holders(cs, r, a) # {}

\* Both rules stay inside the states of the protocol.
LEMMA StateRules ==
  ASSUME NEW type \in {"BUS_RD", "BUS_RDX", "BUS_UPGR"},
         NEW shared_signal \in BOOLEAN
  PROVE  /\ \A s \in LineStates : SnoopState(type, s) \in LineStates
         /\ RequesterState(type, shared_signal) \in LineStates
<1>1. CASE Protocol = "MESI"
  BY <1>1 DEF LineStates, SnoopState, RequesterState, MESIState,
              MESI_SnoopState, MESI_FillState
<1>2. CASE Protocol = "DRAGON"
  BY <1>2 DEF LineStates, SnoopState, RequesterState, DragonState,
              Dragon_SnoopState, Dragon_FillState, Dragon_UpdateState
<1>3. CASE Protocol = "MESIF"
  BY <1>3 DEF LineStates, SnoopState, RequesterState, MESIFState,
              MESIF_SnoopState, MESIF_FillState
<1>4. CASE Protocol = "SMART"
  BY <1>4 DEF LineStates, SnoopState, RequesterState, SmartState,
              Smart_SnoopState, Smart_FillState
<1>5. CASE Protocol = "MOESI"
  BY <1>5 DEF LineStates, SnoopState, RequesterState, MOESIState,
              MOESI_SnoopState, MOESI_FillState
<1> QED BY <1>1, <1>2, <1>3, <1>4, <1>5, ProtocolAssumption

\* A line of a well-typed cache is in a state of the protocol.
LEMMA StateOfType ==
  ASSUME NEW cache, CacheOK(cache), NEW a \in Addrs
  PROVE  StateOf(cache, a) \in LineStates
<1>1. CacheSetOK(cache[set_idx(a)])
  BY AddressFacts DEF CacheOK
<1> QED BY <1>1, InvalidIsState DEF CacheSetOK, StateOf, LineState

\* The caches after every core but r has snooped the transaction.
Snooped(cs, r, type, a) ==
  [i \in DOMAIN cs |->
     IF i = r THEN cs[i]
     ELSE SnoopLine(cs[i], a, SnoopState(type, StateOf(cs[i], a)))]

\* What a transaction of core r does to the caches, whichever protocol.
Effect(cs, ds, r, type, a) ==
  /\ ds = [c \in Cores |-> ds[c]]
  /\ \A c \in Cores \ {r} :
       ds[c] = SnoopLine(cs[c], a, SnoopState(type, StateOf(cs[c], a)))
  /\ Requested(cs[r], ds[r], a, RequesterState(type, SharedSignal(cs, r, a)))

\* The fill branch and the upgrade branch replace the requester's cache in
\* the snooped caches.
LEMMA SnoopedEffect ==
  ASSUME NEW cs, cs = [c \in Cores |-> cs[c]], NEW r \in Cores, NEW type,
         NEW a, NEW new,
         Requested(cs[r], new, a, RequesterState(type, SharedSignal(cs, r, a)))
  PROVE  Effect(cs, [Snooped(cs, r, type, a) EXCEPT ![r] = new], r, type, a)
<1> DEFINE mid == Snooped(cs, r, type, a)
           ds == [mid EXCEPT ![r] = new]
<1>1. DOMAIN cs = Cores
  OBVIOUS
<1>2. /\ DOMAIN mid = Cores
      /\ \A c \in Cores \ {r} :
           mid[c] = SnoopLine(cs[c], a, SnoopState(type, StateOf(cs[c], a)))
      /\ mid = [c \in Cores |-> mid[c]]
  BY <1>1 DEF Snooped
<1> HIDE DEF mid
<1>3. /\ ds = [c \in Cores |-> ds[c]]
      /\ ds[r] = new
      /\ \A c \in Cores \ {r} : ds[c] = mid[c]
  BY <1>2
<1> HIDE DEF ds
<1>4. Effect(cs, ds, r, type, a)
  BY <1>2, <1>3 DEF Effect
<1> QED BY <1>4 DEF ds, mid

\* The branches of handle_bus_transaction, protocol by protocol.
LEMMA BranchFacts ==
  ASSUME NEW cs, NEW r, NEW type \in {"BUS_RD", "BUS_RDX", "BUS_UPGR"}, NEW a
  PROVE  LET s == RequesterState(type, SharedSignal(cs, r, a))
             new == CASE type = "BUS_UPGR" ->
                           SetState(get_line(Snooped(cs, r, type, a)[r], a), a, s)
                      [] type # "BUS_UPGR" /\ Protocol = "SMART" ->
                           SetState(SmartAllocateLine(cs[r], a).cache, a, s)
                      [] OTHER ->
                           SetState(allocate_line(cs[r], a).cache, a, s)
         IN  handle_bus_transaction(cs, r, type, a).caches =
               [Snooped(cs, r, type, a) EXCEPT ![r] = new]
<1>1. CASE Protocol = "MESI"
  BY <1>1 DEF handle_bus_transaction, MESI_handle_bus_transaction, Snooped,
              SnoopState, RequesterState, SharedSignal, UpgradeResult,
              FillResult
<1>2. CASE Protocol = "DRAGON"
  BY <1>2 DEF handle_bus_transaction, Dragon_handle_bus_transaction, Snooped,
              SnoopState, RequesterState, SharedSignal, UpgradeResult,
              FillResult,
              Dragon_allocate
<1>3. CASE Protocol = "MESIF"
  BY <1>3 DEF handle_bus_transaction, MESIF_handle_bus_transaction, Snooped,
              SnoopState, RequesterState, SharedSignal, UpgradeResult,
              FillResult,
              MESIF_allocate
<1>4. CASE Protocol = "SMART"
  BY <1>4 DEF handle_bus_transaction, Smart_handle_bus_transaction, Snooped,
              SnoopState, RequesterState, SharedSignal, UpgradeResult,
              FillResult
<1>5. CASE Protocol = "MOESI"
  BY <1>5 DEF handle_bus_transaction, MOESI_handle_bus_transaction, Snooped,
              SnoopState, RequesterState, SharedSignal, UpgradeResult,
              FillResult,
              MOESI_allocate
<1> QED BY <1>1, <1>2, <1>3, <1>4, <1>5, ProtocolAssumption

LEMMA TransactionEffect ==
  ASSUME NEW cs, cs = [c \in Cores |-> cs[c]], \A c \in Cores : CacheOK(cs[c]),
         NEW r \in Cores, NEW type \in {"BUS_RD", "BUS_RDX", "BUS_UPGR"},
         NEW a \in Addrs, type = "BUS_UPGR" => Resident(cs[r], a)
  PROVE  Effect(cs, handle_bus_transaction(cs, r, type, a).caches, r, type, a)
<1> DEFINE shared == SharedSignal(cs, r, a)
           s == RequesterState(type, shared)
<1>1. s \in LineStates
  BY StateRules DEF SharedSignal
<1>2. Snooped(cs, r, type, a)[r] = cs[r]
  BY DEF Snooped
<1> HIDE DEF s
<1>3. CASE type = "BUS_UPGR"
  <2> DEFINE new == SetState(get_line(cs[r], a), a, s)
  <2>1. Requested(cs[r], new, a, s)
    BY <1>1, <1>3, UpgradeLineFacts
  <2>2. handle_bus_transaction(cs, r, type, a).caches =
          [Snooped(cs, r, type, a) EXCEPT ![r] = new]
    BY <1>2, <1>3, BranchFacts DEF s
  <2> HIDE DEF new
  <2> QED BY <2>1, <2>2, SnoopedEffect DEF s
<1>4. CASE type # "BUS_UPGR" /\ Protocol = "SMART"
  <2> DEFINE new == SetState(SmartAllocateLine(cs[r], a).cache, a, s)
  <2>1. Requested(cs[r], new, a, s)
    BY <1>1, AllocateLineFacts
  <2>2. handle_bus_transaction(cs, r, type, a).caches =
          [Snooped(cs, r, type, a) EXCEPT ![r] = new]
    BY <1>4, BranchFacts DEF s
  <2> HIDE DEF new
  <2> QED BY <2>1, <2>2, SnoopedEffect DEF s
<1>5. CASE type # "BUS_UPGR" /\ Protocol # "SMART"
  <2> DEFINE new == SetState(allocate_line(cs[r], a).cache, a, s)
  <2>1. Requested(cs[r], new, a, s)
    BY <1>1, AllocateLineFacts
  <2>2. handle_bus_transaction(cs, r, type, a).caches =
          [Snooped(cs, r, type, a) EXCEPT ![r] = new]
    BY <1>5, BranchFacts DEF s
  <2> HIDE DEF new
  <2> QED BY <2>1, <2>2, SnoopedEffect DEF s
<1> QED BY <1>3, <1>4, <1>5

-----------------------------------------------------------------------------
(***************************************************************************)
(* The state rules, two caches at a time.                                  *)
(***************************************************************************)
\* The states two different cores may have for the same block.
Compatible(x, y) ==
  /\ x \in WritableStates => y = "INVALID"
  /\ y \in WritableStates => x = "INVALID"
  /\ ~(x \in OwnerStates /\ y \in OwnerStates)

AfterSnoop(type, x) == IF x = "INVALID" THEN x ELSE SnoopState(type, x)

\* What the snoop rules have in common.
LEMMA SnoopTable ==
  ASSUME NEW type \in {"BUS_RD", "BUS_RDX", "BUS_UPGR"}, NEW x \in LineStates
  PROVE  /\ Protocol # "DRAGON" /\ type # "BUS_RD"
              => AfterSnoop(type, x) = "INVALID"
         /\ type = "BUS_RD" =>
              /\ AfterSnoop(type, x) \notin WritableStates
              /\ AfterSnoop(type, x) \in OwnerStates
                   => x \in OwnerStates \cup {"MODIFIED"}
         /\ Protocol = "MESIF" => AfterSnoop(type, x) \notin OwnerStates
                                  \/ type # "BUS_RD"
         /\ Protocol = "DRAGON" /\ type = "BUS_UPGR" =>
              /\ AfterSnoop(type, x) \notin OwnerStates
              /\ AfterSnoop(type, x) \in WritableStates => x \in WritableStates
<1> USE DEF AfterSnoop, SnoopState, LineStates, WritableStates, OwnerStates
<1>1. CASE Protocol = "MESI"
  BY <1>1 DEF MESI_SnoopState, MESIState
<1>2. CASE Protocol = "DRAGON"
  BY <1>2 DEF Dragon_SnoopState, DragonState
<1>3. CASE Protocol = "MESIF"
  BY <1>3 DEF MESIF_SnoopState, MESIFState
<1>4. CASE Protocol = "SMART"
  BY <1>4 DEF Smart_SnoopState, SmartState
<1>5. CASE Protocol = "MOESI"
  BY <1>5 DEF MOESI_SnoopState, MOESIState
<1> QED BY <1>1, <1>2, <1>3, <1>4, <1>5, ProtocolAssumption

\* What the rules for the requester's line have in common.
LEMMA RequesterTable ==
  ASSUME NEW type \in {"BUS_RD", "BUS_RDX", "BUS_UPGR"},
         NEW shared \in BOOLEAN
  PROVE  /\ type = "BUS_RD" /\ shared =>
              /\ RequesterState(type, shared) \notin WritableStates
              /\ Protocol # "MESIF" =>
                   RequesterState(type, shared) \notin OwnerStates
         /\ type = "BUS_RD" /\ ~shared =>
              RequesterState(type, shared) = "EXCLUSIVE"
         /\ Protocol # "DRAGON" /\ type # "BUS_RD" =>
              RequesterState(type, shared) = "MODIFIED"
         /\ Protocol = "DRAGON" /\ type = "BUS_UPGR" /\ shared =>
              RequesterState(type, shared) = "SHARED_MODIFIED"
<1> USE DEF RequesterState, WritableStates, OwnerStates
<1>1. CASE Protocol = "MESI"
  BY <1>1 DEF MESI_FillState
<1>2. CASE Protocol = "DRAGON"
  BY <1>2 DEF Dragon_FillState, Dragon_UpdateState
<1>3. CASE Protocol = "MESIF"
  BY <1>3 DEF MESIF_FillState
<1>4. CASE Protocol = "SMART"
  BY <1>4 DEF Smart_FillState
<1>5. CASE Protocol = "MOESI"
  BY <1>5 DEF MOESI_FillState
<1> QED BY <1>1, <1>2, <1>3, <1>4, <1>5, ProtocolAssumption

\* Two caches that both snoop stay compatible.
LEMMA SnoopersCompatible ==
  ASSUME NEW type \in {"BUS_RD", "BUS_RDX", "BUS_UPGR"},
         NEW x \in LineStates, NEW y \in LineStates, Compatible(x, y),
         Protocol = "DRAGON" => type # "BUS_RDX"
  PROVE  Compatible(AfterSnoop(type, x), AfterSnoop(type, y))
<1> DEFINE x1 == AfterSnoop(type, x)
           y1 == AfterSnoop(type, y)
<1>1. (x = "INVALID" => x1 = "INVALID") /\ (y = "INVALID" => y1 = "INVALID")
  BY DEF AfterSnoop
<1>2. CASE type = "BUS_RD"
  <2>1. /\ x1 \notin WritableStates
        /\ x1 \in OwnerStates => x \in OwnerStates \cup {"MODIFIED"}
    BY <1>2, SnoopTable
  <2>2. /\ y1 \notin WritableStates
        /\ y1 \in OwnerStates => y \in OwnerStates \cup {"MODIFIED"}
    BY <1>2, SnoopTable
  <2> HIDE DEF x1, y1
  <2>3. Compatible(x1, y1)
    BY <1>1, <2>1, <2>2 DEF Compatible, WritableStates, OwnerStates
  <2> QED BY <2>3 DEF x1, y1
<1>3. CASE Protocol # "DRAGON" /\ type # "BUS_RD"
  <2>1. x1 = "INVALID" /\ y1 = "INVALID"
    BY <1>3, SnoopTable
  <2> QED BY <2>1 DEF Compatible, WritableStates, OwnerStates
<1>4. CASE Protocol = "DRAGON" /\ type = "BUS_UPGR"
  <2>1. /\ x1 \notin OwnerStates
        /\ x1 \in WritableStates => x \in WritableStates
    BY <1>4, SnoopTable
  <2>2. y1 \in WritableStates => y \in WritableStates
    BY <1>4, SnoopTable
  <2> HIDE DEF x1, y1
  <2>3. Compatible(x1, y1)
    BY <1>1, <2>1, <2>2 DEF Compatible
  <2> QED BY <2>3 DEF x1, y1
<1> QED BY <1>2, <1>3, <1>4

\* The requester's new state is compatible with what any snooper is left
\* with.  x is the requester's old state: a Dragon update relies on it.
LEMMA RequesterCompatible ==
  ASSUME NEW type \in {"BUS_RD", "BUS_RDX", "BUS_UPGR"},
         NEW x \in LineStates, NEW y \in LineStates, Compatible(x, y),
         NEW shared \in BOOLEAN, y # "INVALID" => shared,
         Protocol = "DRAGON" => type # "BUS_RDX",
         Protocol = "DRAGON" /\ type = "BUS_UPGR" => x # "INVALID"
  PROVE  Compatible(RequesterState(type, shared), AfterSnoop(type, y))
<1> DEFINE q == RequesterState(type, shared)
           y1 == AfterSnoop(type, y)
<1>1. y = "INVALID" => y1 = "INVALID"
  BY DEF AfterSnoop
<1>2. CASE type = "BUS_RD"
  <2>1. /\ y1 \notin WritableStates
        /\ Protocol = "MESIF" => y1 \notin OwnerStates
    BY <1>2, SnoopTable
  <2>2. /\ shared => /\ q \notin WritableStates
                     /\ Protocol # "MESIF" => q \notin OwnerStates
        /\ ~shared => q = "EXCLUSIVE"
    BY <1>2, RequesterTable
  <2> HIDE DEF q, y1
  <2>3. Compatible(q, y1)
    BY <1>1, <2>1, <2>2 DEF Compatible, OwnerStates
  <2> QED BY <2>3 DEF q, y1
<1>3. CASE Protocol # "DRAGON" /\ type # "BUS_RD"
  <2>1. q = "MODIFIED"
    BY <1>3, RequesterTable
  <2>2. y1 = "INVALID"
    BY <1>3, SnoopTable
  <2> QED BY <2>1, <2>2 DEF Compatible, WritableStates, OwnerStates
<1>4. CASE Protocol = "DRAGON" /\ type = "BUS_UPGR"
  <2>1. /\ y1 \notin OwnerStates
        /\ y1 \in WritableStates => y \in WritableStates
    BY <1>4, SnoopTable
  <2>2. shared => q = "SHARED_MODIFIED"
    BY <1>4, RequesterTable
  <2>3. x # "INVALID"
    BY <1>4
  <2> HIDE DEF q, y1
  <2>4. Compatible(q, y1)
    BY <1>1, <2>1, <2>2, <2>3 DEF Compatible, WritableStates
  <2> QED BY <2>4 DEF q, y1
<1> QED BY <1>2, <1>3, <1>4

-----------------------------------------------------------------------------
(***************************************************************************)
(* Processor requests.                                                     *)
(***************************************************************************)
\* A request looks the line up and, on a write hit, makes a line that was
\* writable MODIFIED; a miss names a bus transaction for the line it saw.
RequestOutcome(cache, a, resp) ==
  \/ /\ resp.is_hit = TRUE
     /\ resp.cache = get_line(cache, a)
  \/ /\ resp.is_hit = TRUE
     /\ resp.cache = SetState(get_line(cache, a), a, "MODIFIED")
     /\ StateOf(cache, a) \in WritableStates
  \/ /\ resp.is_hit = FALSE
     /\ resp.cache = get_line(cache, a)
     /\ resp.bus_action \in {"BUS_RD", "BUS_RDX", "BUS_UPGR"}
     /\ resp.bus_action = "BUS_UPGR" => StateOf(cache, a) # "INVALID"
     /\ Protocol = "DRAGON" => resp.bus_action # "BUS_RDX"

LEMMA RequestBranches ==
  ASSUME NEW cs, NEW c, NEW a \in Addrs, NEW w \in BOOLEAN, CacheOK(cs[c])
  PROVE  RequestOutcome(cs[c], a, handle_processor_request(cs, c, a, w))
<1>1. StateOf(cs[c], a) \in LineStates
  BY StateOfType
<1> DEFINE s == StateOf(cs[c], a)
           found == get_line(cs[c], a)
           resp == handle_processor_request(cs, c, a, w)
           miss(type) == [is_hit |-> FALSE, cache |-> found, bus_action |-> type]
           hit(new) == [is_hit |-> TRUE, bus_action |-> "NONE", cache |-> new]
           silent == SetState(found, a, "MODIFIED")
<1> HIDE DEF s, found, resp, silent
<1>2. \/ s = "INVALID" /\ resp = miss("BUS_RD")
      \/ s = "INVALID" /\ resp = miss("BUS_RDX") /\ Protocol # "DRAGON"
      \/ s # "INVALID" /\ resp = miss("BUS_UPGR")
      \/ resp = hit(found)
      \/ s \in WritableStates /\ resp = hit(silent)
  <2> USE <1>1 DEF s, found, resp, silent, LineStates, WritableStates,
                   handle_processor_request
  <2>1. CASE Protocol = "MESI"
    BY <2>1 DEF MESI_handle_processor_request, MESIState
  <2>2. CASE Protocol = "DRAGON"
    BY <2>2 DEF Dragon_handle_processor_request, DragonState
  <2>3. CASE Protocol = "MESIF"
    BY <2>3 DEF MESIF_handle_processor_request, MESIFState
  <2>4. CASE Protocol = "SMART"
    BY <2>4 DEF Smart_handle_processor_request, SmartState
  <2>5. CASE Protocol = "MOESI"
    BY <2>5 DEF MOESI_handle_processor_request, MOESIState
  <2> QED BY <2>1, <2>2, <2>3, <2>4, <2>5, ProtocolAssumption
<1>3. RequestOutcome(cs[c], a, resp)
  BY <1>2 DEF RequestOutcome, s, found, silent
<1> QED BY <1>3 DEF resp

\* The cache a request leaves behind.
LEMMA RequestFacts ==
  ASSUME NEW cache, CacheOK(cache), NEW a \in Addrs, NEW resp,
         RequestOutcome(cache, a, resp)
  PROVE  /\ CacheOK(resp.cache)
         /\ \A b \in Addrs :
              /\ Resident(resp.cache, b) <=> Resident(cache, b)
              /\ \/ StateOf(resp.cache, b) = StateOf(cache, b)
                 \/ /\ StateOf(cache, b) \in WritableStates
                    /\ StateOf(resp.cache, b) = "MODIFIED"
<1> DEFINE found == get_line(cache, a)
<1>1. /\ CacheOK(found)
      /\ \A b \in Addrs : /\ StateOf(found, b) = StateOf(cache, b)
                          /\ Resident(found, b) <=> Resident(cache, b)
  BY GetLineFacts
<1> HIDE DEF found
<1>2. CASE resp.cache = found
  BY <1>1, <1>2
<1>3. CASE /\ resp.cache = SetState(found, a, "MODIFIED")
           /\ StateOf(cache, a) \in WritableStates
  <2>1. Resident(found, a)
    BY <1>1, <1>3 DEF StateOf, LineState, Resident, WritableStates
  <2>2. "MODIFIED" \in LineStates
    BY ProtocolAssumption
       DEF LineStates, MESIState, DragonState, MESIFState, SmartState, MOESIState
  <2>3. /\ CacheOK(resp.cache)
        /\ \A b \in Addrs :
             /\ StateOf(resp.cache, b) =
                  IF SameBlock(a, b) THEN "MODIFIED" ELSE StateOf(found, b)
             /\ Resident(resp.cache, b) <=> Resident(found, b)
    BY <1>1, <1>3, <2>1, <2>2, SetStateFacts
  <2>4. \A b \in Addrs : SameBlock(a, b) => StateOf(cache, b) = StateOf(cache, a)
    BY DEF SameBlock, StateOf
  <2> QED BY <1>1, <1>3, <2>3, <2>4
<1> QED BY <1>2, <1>3 DEF RequestOutcome, found

-----------------------------------------------------------------------------
(***************************************************************************)
(* The states after a transaction.                                         *)
(***************************************************************************)
\* Every cache but the requester's follows the snoop rule for the block and
\* keeps all its other lines; the requester's line has its new state, and
\* its other lines keep theirs or are evicted.
SnoopersAfter(cs, ds, r, type, a) ==
  \A c \in Cores \ {r}, b \in Addrs :
    /\ StateOf(ds[c], b) =
         IF SameBlock(a, b) THEN AfterSnoop(type, StateOf(cs[c], b))
         ELSE StateOf(cs[c], b)
    /\ Resident(ds[c], b) <=> Resident(cs[c], b)

RequesterAfter(cs, ds, r, type, a) ==
  \A b \in Addrs :
    StateOf(ds[r], b) \in
      IF SameBlock(a, b) THEN {RequesterState(type, SharedSignal(cs, r, a))}
      ELSE {StateOf(cs[r], b), "INVALID"}

LEMMA TransactionStates ==
  ASSUME NEW cs, \A c \in Cores : CacheOK(cs[c]), NEW ds, NEW r \in Cores,
         NEW type \in {"BUS_RD", "BUS_RDX", "BUS_UPGR"}, NEW a \in Addrs,
         Effect(cs, ds, r, type, a)
  PROVE  /\ \A c \in Cores : CacheOK(ds[c])
         /\ SnoopersAfter(cs, ds, r, type, a)
         /\ RequesterAfter(cs, ds, r, type, a)
<1>1. ASSUME NEW c \in Cores \ {r}
      PROVE  /\ CacheOK(ds[c])
             /\ \A b \in Addrs :
                  /\ StateOf(ds[c], b) =
                       IF SameBlock(a, b) THEN AfterSnoop(type, StateOf(cs[c], b))
                       ELSE StateOf(cs[c], b)
                  /\ Resident(ds[c], b) <=> Resident(cs[c], b)
  <2> DEFINE old == StateOf(cs[c], a)
             s == SnoopState(type, old)
  <2>1. s \in LineStates
    BY StateOfType, StateRules
  <2>2. ds[c] = SnoopLine(cs[c], a, s)
    BY DEF Effect
  <2> HIDE DEF s
  <2>3. /\ CacheOK(ds[c])
        /\ \A b \in Addrs :
             /\ StateOf(ds[c], b) =
                  IF SameBlock(a, b) /\ old # "INVALID"
                  THEN s ELSE StateOf(cs[c], b)
             /\ Resident(ds[c], b) <=> Resident(cs[c], b)
    BY <2>1, <2>2, SnoopFacts
  <2>4. \A b \in Addrs : SameBlock(a, b) => StateOf(cs[c], b) = old
    BY DEF SameBlock, StateOf
  <2> QED BY <2>3, <2>4 DEF AfterSnoop, s
<1>2. CacheOK(ds[r]) /\ RequesterAfter(cs, ds, r, type, a)
  BY DEF Effect, Requested, RequesterAfter
<1>3. SnoopersAfter(cs, ds, r, type, a)
  BY <1>1 DEF SnoopersAfter
<1> QED BY <1>1, <1>2, <1>3

\* Every two caches have compatible states: the shape in which the two
\* invariants ExclusiveCopy and SingleOwner are preserved.
PairsCompatible(cs) ==
  \A c, d \in Cores, a \in Addrs :
    c # d => Compatible(StateOf(cs[c], a), StateOf(cs[d], a))

LEMMA PairsFacts ==
  PairsCompatible(caches) <=> ExclusiveCopy /\ SingleOwner
BY DEF PairsCompatible, Compatible, ExclusiveCopy, SingleOwner, Valid

LEMMA TransactionCompatible ==
  ASSUME NEW cs, cs = [c \in Cores |-> cs[c]], \A c \in Cores : CacheOK(cs[c]),
         NEW ds, NEW r \in Cores,
         NEW type \in {"BUS_RD", "BUS_RDX", "BUS_UPGR"}, NEW a \in Addrs,
         Effect(cs, ds, r, type, a), PairsCompatible(cs),
         Protocol = "DRAGON" => type # "BUS_RDX",
         Protocol = "DRAGON" /\ type = "BUS_UPGR" => StateOf(cs[r], a) # "INVALID"
  PROVE  PairsCompatible(ds)
<1> DEFINE shared == SharedSignal(cs, r, a)
           q == RequesterState(type, shared)
<1>1. SnoopersAfter(cs, ds, r, type, a) /\ RequesterAfter(cs, ds, r, type, a)
  BY TransactionStates
<1> HIDE DEF q
<1>2. \A c \in Cores, b \in Addrs :
        /\ StateOf(cs[c], b) \in LineStates
        /\ SameBlock(a, b) => StateOf(cs[c], b) = StateOf(cs[c], a)
  BY StateOfType DEF SameBlock, StateOf
<1>3. ASSUME NEW c \in Cores \ {r}, NEW d \in Cores \ {r}, NEW b \in Addrs, c # d
      PROVE  Compatible(StateOf(ds[c], b), StateOf(ds[d], b))
  <2>1. Compatible(StateOf(cs[c], b), StateOf(cs[d], b))
    BY <1>3 DEF PairsCompatible
  <2>2. CASE SameBlock(a, b)
    <3>1. Compatible(AfterSnoop(type, StateOf(cs[c], b)),
                     AfterSnoop(type, StateOf(cs[d], b)))
      BY <1>2, <2>1, SnoopersCompatible
    <3> QED BY <1>1, <2>2, <3>1 DEF SnoopersAfter
  <2>3. CASE ~SameBlock(a, b)
    BY <1>1, <2>1, <2>3 DEF SnoopersAfter
  <2> QED BY <2>2, <2>3
<1>4. ASSUME NEW d \in Cores \ {r}, NEW b \in Addrs
      PROVE  Compatible(StateOf(ds[r], b), StateOf(ds[d], b))
  <2>1. Compatible(StateOf(cs[r], b), StateOf(cs[d], b))
    BY DEF PairsCompatible
  <2>2. CASE SameBlock(a, b)
    <3>1. StateOf(cs[d], b) # "INVALID" => shared
      <4>1. DOMAIN cs = Cores
        OBVIOUS
      <4> QED BY <1>2, <2>2, <4>1 DEF SharedSignal, Holders
    <3>2. Protocol = "DRAGON" /\ type = "BUS_UPGR" => StateOf(cs[r], b) # "INVALID"
      BY <1>2, <2>2
    <3>3. shared \in BOOLEAN
      BY DEF SharedSignal
    <3> HIDE DEF shared
    <3>4. Compatible(q, AfterSnoop(type, StateOf(cs[d], b)))
      BY <1>2, <2>1, <3>1, <3>2, <3>3, RequesterCompatible DEF q
    <3> QED BY <1>1, <2>2, <3>4 DEF SnoopersAfter, RequesterAfter, q, shared
  <2>3. CASE ~SameBlock(a, b)
    BY <1>1, <2>1, <2>3
       DEF SnoopersAfter, RequesterAfter, Compatible, WritableStates, OwnerStates
  <2> QED BY <2>2, <2>3
<1>5. \A x, y : Compatible(x, y) => Compatible(y, x)
  BY DEF Compatible
<1>6. ASSUME NEW c \in Cores, NEW d \in Cores, NEW b \in Addrs, c # d
      PROVE  Compatible(StateOf(ds[c], b), StateOf(ds[d], b))
  <2>1. CASE c = r
    BY <1>4, <1>6, <2>1
  <2>2. CASE d = r
    <3>1. Compatible(StateOf(ds[r], b), StateOf(ds[c], b))
      BY <1>4, <1>6, <2>2
    <3> QED BY <1>5, <2>2, <3>1
  <2>3. CASE c # r /\ d # r
    BY <1>3, <1>6, <2>3
  <2> QED BY <2>1, <2>2, <2>3
<1> QED BY <1>6 DEF PairsCompatible

-----------------------------------------------------------------------------
(***************************************************************************)
(* The inductive invariant.                                                *)
(***************************************************************************)
\* Dragon has no transaction that invalidates: a core never asks for
\* BUS_RDX, and the copy an update was issued for is still valid when the
\* update is granted.  Without this an update could raise a second owner.
UpdatesHoldCopies ==
  Protocol = "DRAGON" => /\ UpgradeHoldsCopy
                         /\ \A r \in bus_queue : r.type # "BUS_RDX"

IInv ==
  /\ TypeOK
  /\ OneRequestPerCore
  /\ UpgradeFindsLine
  /\ UpdatesHoldCopies
  /\ PairsCompatible(caches)

LEMMA InitIInv == Init => IInv
<1> SUFFICES ASSUME Init PROVE IInv
  OBVIOUS
<1>1. bus_queue = {} /\ caches = [c \in Cores |-> EmptyCache]
  BY DEF Init
<1>2. CacheOK(EmptyCache)
  BY EmptySetOK DEF CacheOK, EmptyCache
<1>3. TypeOK
  BY <1>1, <1>2 DEF TypeOK
<1>4. \A c \in Cores, a \in Addrs : StateOf(caches[c], a) = "INVALID"
  <2>1. \A a \in Addrs : StateOf(EmptyCache, a) = "INVALID"
    BY AddressFacts, EmptySetOK DEF StateOf, EmptyCache, LineState
  <2> QED BY <1>1, <2>1
<1>5. PairsCompatible(caches)
  BY <1>4 DEF PairsCompatible, Compatible, WritableStates, OwnerStates
<1> QED
  BY <1>1, <1>3, <1>5
     DEF IInv, OneRequestPerCore, UpgradeFindsLine, UpdatesHoldCopies,
         UpgradeHoldsCopy

\* A request of core c, hit or miss, replaces its cache and nothing else.
LEMMA RequestKeepsCaches ==
  ASSUME IInv, NEW c \in Cores, NEW a \in Addrs, NEW resp,
         RequestOutcome(caches[c], a, resp),
         caches' = [caches EXCEPT ![c] = resp.cache]
  PROVE  /\ caches' = [d \in Cores |-> caches'[d]]
         /\ \A d \in Cores : CacheOK(caches'[d])
         /\ \A d \in Cores, b \in Addrs :
              /\ Resident(caches'[d], b) <=> Resident(caches[d], b)
              /\ StateOf(caches'[d], b) = "INVALID"
                   <=> StateOf(caches[d], b) = "INVALID"
         /\ PairsCompatible(caches')
<1>1. /\ caches = [d \in Cores |-> caches[d]]
      /\ \A d \in Cores : CacheOK(caches[d])
  BY DEF IInv, TypeOK
<1>2. /\ caches' = [d \in Cores |-> caches'[d]]
      /\ caches'[c] = resp.cache
      /\ \A d \in Cores : d # c => caches'[d] = caches[d]
  BY <1>1
<1>3. /\ CacheOK(resp.cache)
      /\ \A b \in Addrs :
           /\ Resident(resp.cache, b) <=> Resident(caches[c], b)
           /\ \/ StateOf(resp.cache, b) = StateOf(caches[c], b)
              \/ /\ StateOf(caches[c], b) \in WritableStates
                 /\ StateOf(resp.cache, b) = "MODIFIED"
  BY <1>1, RequestFacts
<1>4. \A d \in Cores : CacheOK(caches'[d])
  BY <1>1, <1>2, <1>3
<1>5. ASSUME NEW d \in Cores, NEW b \in Addrs
      PROVE  /\ Resident(caches'[d], b) <=> Resident(caches[d], b)
             /\ \/ StateOf(caches'[d], b) = StateOf(caches[d], b)
                \/ /\ StateOf(caches[d], b) \in WritableStates
                   /\ StateOf(caches'[d], b) = "MODIFIED"
  BY <1>2, <1>3
<1>6. PairsCompatible(caches')
  <2> SUFFICES ASSUME NEW d \in Cores, NEW e \in Cores, NEW b \in Addrs, d # e
               PROVE  Compatible(StateOf(caches'[d], b), StateOf(caches'[e], b))
    BY DEF PairsCompatible
  <2>1. Compatible(StateOf(caches[d], b), StateOf(caches[e], b))
    BY DEF IInv, PairsCompatible
  <2> QED BY <1>5, <2>1 DEF Compatible, WritableStates, OwnerStates
<1> QED BY <1>2, <1>4, <1>5, <1>6 DEF WritableStates

LEMMA HitIInv ==
  ASSUME IInv, NEW c \in Cores, NEW a \in TraceAddrs[c], NEW w \in BOOLEAN,
         Hit(c, a, w)
  PROVE  IInv'
<1> DEFINE resp == handle_processor_request(caches, c, a, w)
<1>1. a \in Addrs
  BY DEF Addrs
<1>2. RequestOutcome(caches[c], a, resp)
  BY <1>1, RequestBranches DEF IInv, TypeOK
<1>3. caches' = [caches EXCEPT ![c] = resp.cache] /\ bus_queue' = bus_queue
  BY DEF Hit
<1> HIDE DEF resp
<1>4. /\ caches' = [d \in Cores |-> caches'[d]]
      /\ \A d \in Cores : CacheOK(caches'[d])
      /\ \A d \in Cores, b \in Addrs :
           /\ Resident(caches'[d], b) <=> Resident(caches[d], b)
           /\ StateOf(caches'[d], b) = "INVALID"
                <=> StateOf(caches[d], b) = "INVALID"
      /\ PairsCompatible(caches')
  BY <1>1, <1>2, <1>3, RequestKeepsCaches
<1>5. TypeOK'
  BY <1>3, <1>4 DEF IInv, TypeOK
<1>6. OneRequestPerCore'
  BY <1>3 DEF IInv, OneRequestPerCore
<1>7. \A r \in bus_queue : r.core_id \in Cores /\ r.addr \in Addrs
  BY DEF IInv, TypeOK, Request
<1>8. UpgradeFindsLine'
  BY <1>3, <1>4, <1>7 DEF IInv, UpgradeFindsLine
<1>9. UpdatesHoldCopies'
  BY <1>3, <1>4, <1>7 DEF IInv, UpdatesHoldCopies, UpgradeHoldsCopy, Valid
<1> QED BY <1>4, <1>5, <1>6, <1>8, <1>9 DEF IInv

LEMMA MissIInv ==
  ASSUME IInv, NEW c \in Cores, NEW a \in TraceAddrs[c], NEW w \in BOOLEAN,
         Miss(c, a, w)
  PROVE  IInv'
<1> DEFINE resp == handle_processor_request(caches, c, a, w)
           new == [core_id |-> c, type |-> resp.bus_action, addr |-> a]
<1>1. a \in Addrs
  BY DEF Addrs
<1>2. RequestOutcome(caches[c], a, resp)
  BY <1>1, RequestBranches DEF IInv, TypeOK
<1>3. /\ ~resp.is_hit
      /\ caches' = [caches EXCEPT ![c] = resp.cache]
      /\ bus_queue' = bus_queue \cup {new}
      /\ \A r \in bus_queue : r.core_id # c
  BY DEF Miss, blocked
<1> HIDE DEF resp
<1>4. /\ new.core_id = c /\ new.addr = a /\ new.type = resp.bus_action
      /\ new \in Request
      /\ new.type = "BUS_UPGR" => StateOf(caches[c], a) # "INVALID"
      /\ Protocol = "DRAGON" => new.type # "BUS_RDX"
  BY <1>1, <1>2, <1>3 DEF RequestOutcome, Request
<1> HIDE DEF new
<1>5. /\ caches' = [d \in Cores |-> caches'[d]]
      /\ \A d \in Cores : CacheOK(caches'[d])
      /\ \A d \in Cores, b \in Addrs :
           /\ Resident(caches'[d], b) <=> Resident(caches[d], b)
           /\ StateOf(caches'[d], b) = "INVALID"
                <=> StateOf(caches[d], b) = "INVALID"
      /\ PairsCompatible(caches')
  BY <1>1, <1>2, <1>3, RequestKeepsCaches
<1>6. TypeOK'
  BY <1>3, <1>4, <1>5 DEF IInv, TypeOK
<1>7. OneRequestPerCore'
  BY <1>3, <1>4 DEF IInv, OneRequestPerCore
<1>8. \A r \in bus_queue : r.core_id \in Cores /\ r.addr \in Addrs
  BY DEF IInv, TypeOK, Request
<1>9. StateOf(caches[c], a) # "INVALID" => Resident(caches[c], a)
  BY DEF StateOf, LineState, Resident
<1>10. UpgradeFindsLine'
  BY <1>1, <1>3, <1>4, <1>5, <1>8, <1>9 DEF IInv, UpgradeFindsLine
<1>11. UpdatesHoldCopies'
  BY <1>1, <1>3, <1>4, <1>5, <1>8
     DEF IInv, UpdatesHoldCopies, UpgradeHoldsCopy, Valid
<1> QED BY <1>5, <1>6, <1>7, <1>10, <1>11 DEF IInv

\* A granted transaction meets the conditions of the lemmas on transactions.
LEMMA GrantEffect ==
  ASSUME IInv, NEW req \in bus_queue, Grant(req)
  PROVE  /\ req.core_id \in Cores
         /\ req.type \in {"BUS_RD", "BUS_RDX", "BUS_UPGR"}
         /\ req.addr \in Addrs
         /\ Effect(caches, caches', req.core_id, req.type, req.addr)
<1>1. /\ req.core_id \in Cores
      /\ req.type \in {"BUS_RD", "BUS_RDX", "BUS_UPGR"}
      /\ req.addr \in Addrs
  BY DEF IInv, TypeOK, Request
<1>2. /\ caches = [c \in Cores |-> caches[c]]
      /\ \A c \in Cores : CacheOK(caches[c])
      /\ req.type = "BUS_UPGR" => Resident(caches[req.core_id], req.addr)
  BY DEF IInv, TypeOK, UpgradeFindsLine
<1>3. caches' = handle_bus_transaction(caches, req.core_id, req.type,
                                       req.addr).caches
  BY DEF Grant
<1>4. Effect(caches, caches', req.core_id, req.type, req.addr)
  BY <1>1, <1>2, <1>3, TransactionEffect
<1> QED BY <1>1, <1>4

LEMMA GrantIInv ==
  ASSUME IInv, NEW req \in bus_queue, Grant(req)
  PROVE  IInv'
<1> DEFINE r == req.core_id
           type == req.type
           a == req.addr
<1>1. /\ r \in Cores
      /\ type \in {"BUS_RD", "BUS_RDX", "BUS_UPGR"}
      /\ a \in Addrs
      /\ Effect(caches, caches', r, type, a)
  BY GrantEffect
<1>2. bus_queue' = bus_queue \ {req}
  BY DEF Grant
<1>3. /\ caches = [c \in Cores |-> caches[c]]
      /\ \A c \in Cores : CacheOK(caches[c])
      /\ PairsCompatible(caches)
  BY DEF IInv, TypeOK
<1>4. /\ Protocol = "DRAGON" => type # "BUS_RDX"
      /\ Protocol = "DRAGON" /\ type = "BUS_UPGR"
           => StateOf(caches[r], a) # "INVALID"
  BY DEF IInv, UpdatesHoldCopies, UpgradeHoldsCopy, Valid
<1>5. \A s \in bus_queue' :
        s \in bus_queue /\ s.core_id \in Cores \ {r} /\ s.addr \in Addrs
  BY <1>2 DEF IInv, TypeOK, Request, OneRequestPerCore
<1> HIDE DEF r, type, a
<1>6. /\ \A c \in Cores : CacheOK(caches'[c])
      /\ SnoopersAfter(caches, caches', r, type, a)
  BY <1>1, <1>3, TransactionStates
<1>7. TypeOK'
  BY <1>1, <1>2, <1>6 DEF IInv, TypeOK, Effect
<1>8. OneRequestPerCore'
  BY <1>2 DEF IInv, OneRequestPerCore
<1>9. UpgradeFindsLine'
  BY <1>5, <1>6 DEF IInv, UpgradeFindsLine, SnoopersAfter
<1>10. UpdatesHoldCopies'
  <2> SUFFICES ASSUME Protocol = "DRAGON", NEW s \in bus_queue'
               PROVE  /\ s.type # "BUS_RDX"
                      /\ s.type = "BUS_UPGR"
                           => StateOf(caches'[s.core_id], s.addr) # "INVALID"
    BY DEF UpdatesHoldCopies, UpgradeHoldsCopy, Valid
  <2>1. /\ s.type # "BUS_RDX"
        /\ s.type = "BUS_UPGR" => StateOf(caches[s.core_id], s.addr) # "INVALID"
    BY <1>5 DEF IInv, UpdatesHoldCopies, UpgradeHoldsCopy, Valid
  <2>2. StateOf(caches[s.core_id], s.addr) \in LineStates
    BY <1>3, <1>5, StateOfType
  <2>3. \A x \in LineStates : AfterSnoop(type, x) = "INVALID" => x = "INVALID"
    BY <1>1 DEF AfterSnoop, SnoopState, Dragon_SnoopState, LineStates,
                DragonState
  <2> QED BY <1>5, <1>6, <2>1, <2>2, <2>3 DEF SnoopersAfter
<1>11. PairsCompatible(caches')
  BY <1>1, <1>3, <1>4, TransactionCompatible
<1> QED BY <1>7, <1>8, <1>9, <1>10, <1>11 DEF IInv

LEMMA NextIInv == IInv /\ [Next]_vars => IInv'
<1> SUFFICES ASSUME IInv, [Next]_vars PROVE IInv'
  OBVIOUS
<1>1. ASSUME NEW c \in Cores, NEW a \in TraceAddrs[c], NEW w \in BOOLEAN,
             Hit(c, a, w)
      PROVE  IInv'
  BY <1>1, HitIInv
<1>2. ASSUME NEW c \in Cores, NEW a \in TraceAddrs[c], NEW w \in BOOLEAN,
             Miss(c, a, w)
      PROVE  IInv'
  BY <1>2, MissIInv
<1>3. ASSUME NEW req \in bus_queue, Grant(req)
      PROVE  IInv'
  BY <1>3, GrantIInv
<1>4. CASE UNCHANGED vars
  <2>1. caches' = caches /\ bus_queue' = bus_queue
    BY <1>4 DEF vars
  <2> QED
    BY <2>1
       DEF IInv, TypeOK, OneRequestPerCore, UpgradeFindsLine,
           UpdatesHoldCopies, UpgradeHoldsCopy, Valid, PairsCompatible
<1> QED BY <1>1, <1>2, <1>3, <1>4 DEF Next

-----------------------------------------------------------------------------
(***************************************************************************)
(* The theorems.                                                           *)
(***************************************************************************)
\* The invariant of handle_processor_request and handle_bus_transaction
\* together: it holds whichever requests other cores have granted between a
\* core's miss and its own grant.
THEOREM Invariance == Spec => []IInv
<1>1. Init => IInv
  BY InitIInv
<1>2. IInv /\ [Next]_vars => IInv'
  BY NextIInv
<1> QED BY <1>1, <1>2, PTL DEF Spec

\* Type correctness: the caches hold tags of trace addresses in states of
\* the selected protocol, and bus_queue never holds a WRITEBACK or NONE.
THEOREM TypeCorrect == Spec => []TypeOK
<1>1. IInv => TypeOK
  BY DEF IInv
<1> QED BY <1>1, Invariance, PTL

\* Single writer: under all five protocols a line in state E or M is the
\* only valid copy of its block, for any number of cores and any geometry.
THEOREM SingleWriter == Spec => []ExclusiveCopy
<1>1. IInv => ExclusiveCopy
  BY PairsFacts DEF IInv
<1> QED BY <1>1, Invariance, PTL

\* At most one OWNED (MOESI), FORWARD (MESIF) or SHARED_MODIFIED (Dragon)
\* copy of a block exists, however the role migrates.
THEOREM OwnerUnique == Spec => []SingleOwner
<1>1. IInv => SingleOwner
  BY PairsFacts DEF IInv
<1> QED BY <1>1, Invariance, PTL

\* The BUS_UPGR branch of handle_bus_transaction never dereferences a null
\* line, although other cores' transactions run before the upgrade.
THEOREM UpgradeSafe == Spec => []UpgradeFindsLine
<1>1. IInv => UpgradeFindsLine
  BY DEF IInv
<1> QED BY <1>1, Invariance, PTL

\* A Dragon update is granted to a core that still holds a valid copy; the
\* invalidating protocols do not have this property.
THEOREM DragonUpgradeHoldsCopy ==
  Protocol = "DRAGON" => (Spec => []UpgradeHoldsCopy)
<1> SUFFICES ASSUME Protocol = "DRAGON" PROVE Spec => []UpgradeHoldsCopy
  OBVIOUS
<1>1. IInv => UpgradeHoldsCopy
  BY DEF IInv, UpdatesHoldCopies
<1> QED BY <1>1, Invariance, PTL

\* A line leaves a cache only in the step that grants that cache's own
\* transaction: a request looks its line up, and snooping never evicts.
LEMMA VanishesInGrant ==
  ASSUME IInv, [Next]_vars, NEW c \in Cores, NEW b \in Addrs, Vanishes(c, b)
  PROVE  \E req \in bus_queue : req.core_id = c /\ Granted(req)
<1>1. ASSUME NEW d \in Cores, NEW a \in TraceAddrs[d], NEW w \in BOOLEAN,
             Hit(d, a, w) \/ Miss(d, a, w)
      PROVE  FALSE
  <2> DEFINE resp == handle_processor_request(caches, d, a, w)
  <2>1. a \in Addrs
    BY DEF Addrs
  <2>2. RequestOutcome(caches[d], a, resp)
    BY <2>1, RequestBranches DEF IInv, TypeOK
  <2>3. caches' = [caches EXCEPT ![d] = resp.cache]
    BY <1>1 DEF Hit, Miss
  <2> HIDE DEF resp
  <2>4. Resident(caches'[c], b) <=> Resident(caches[c], b)
    BY <2>1, <2>2, <2>3, RequestKeepsCaches
  <2> QED BY <2>4 DEF Vanishes
<1>2. ASSUME NEW req \in bus_queue, Grant(req)
      PROVE  req.core_id = c /\ Granted(req)
  <2>1. /\ req.core_id \in Cores
        /\ req.type \in {"BUS_RD", "BUS_RDX", "BUS_UPGR"}
        /\ req.addr \in Addrs
        /\ Effect(caches, caches', req.core_id, req.type, req.addr)
    BY <1>2, GrantEffect
  <2>2. \A e \in Cores : CacheOK(caches[e])
    BY DEF IInv, TypeOK
  <2>3. SnoopersAfter(caches, caches', req.core_id, req.type, req.addr)
    BY <2>1, <2>2, TransactionStates
  <2>4. req.core_id = c
    BY <2>3 DEF SnoopersAfter, Vanishes
  <2> QED BY <1>2, <2>4 DEF Granted, Grant
<1>3. CASE UNCHANGED vars
  BY <1>3 DEF Vanishes, vars
<1> QED BY <1>1, <1>2, <1>3 DEF Next

\* Snooping never evicts: a line leaves a cache only in the step that
\* grants that cache's own transaction.
THEOREM EvictionIsLocal == Spec => EvictsOwnLinesOnly
<1>1. IInv /\ [Next]_vars =>
        [\A c \in Cores, a \in Addrs :
           Vanishes(c, a) =>
             \E req \in bus_queue : req.core_id = c /\ Granted(req)]_vars
  BY VanishesInGrant
<1> QED BY <1>1, Invariance, PTL DEF Spec, EvictsOwnLinesOnly

-----------------------------------------------------------------------------
(***************************************************************************)
(* MESIF and MOESI implement MESI, for every number of cores, every trace  *)
(* and every geometry, when their extra sharing state is read as SHARED.   *)
(***************************************************************************)
-----------------------------------------------------------------------------
(***************************************************************************)
(* The abstraction commutes with the operations of a set.                  *)
(***************************************************************************)
AbsSet(set) ==
  [lru_order |-> set.lru_order,
   lines     |-> [t \in DOMAIN set.lines |-> AsShared(set.lines[t])]]

AbsCache(cache) == [i \in SetIndices |-> AbsSet(cache[i])]

AbsCaches(cs) == [c \in Cores |-> AbsCache(cs[c])]

\* The abstraction renames states, and touches neither the order nor the tags.
LEMMA AbsFields ==
  ASSUME NEW set
  PROVE  /\ AbsSet(set).lru_order = set.lru_order
         /\ DOMAIN AbsSet(set).lines = DOMAIN set.lines
         /\ \A t \in DOMAIN set.lines :
              AbsSet(set).lines[t] = AsShared(set.lines[t])
         /\ AbsSet(set).lines = [t \in DOMAIN set.lines |-> AsShared(set.lines[t])]
BY DEF AbsSet

\* Reading a state as SHARED keeps the lines valid that are valid.
LEMMA AbsLineState ==
  ASSUME NEW set, NEW tag
  PROVE  LineState(AbsSet(set), tag) = AsShared(LineState(set, tag))
BY AbsFields DEF LineState, AsShared

\* find() only looks at the tags.
LEMMA AbsFind ==
  ASSUME NEW set, NEW tag
  PROVE  find(AbsSet(set), tag) = AbsSet(find(set, tag))
<1>1. CASE tag \in DOMAIN set.lines
  <2> DEFINE new == find(set, tag)
  <2>1. /\ new.lru_order = Cons(tag, remove(set.lru_order, tag))
        /\ new.lines = set.lines
    BY <1>1 DEF find
  <2> HIDE DEF new
  <2>2. AbsSet(new) = [lru_order |-> Cons(tag, remove(set.lru_order, tag)),
                       lines |-> AbsSet(set).lines]
    BY <2>1 DEF AbsSet
  <2>3. find(AbsSet(set), tag) =
          [lru_order |-> Cons(tag, remove(set.lru_order, tag)),
           lines |-> AbsSet(set).lines]
    BY <1>1, AbsFields DEF find
  <2> QED BY <2>2, <2>3 DEF new
<1>2. CASE tag \notin DOMAIN set.lines
  BY <1>2, AbsFields DEF find
<1> QED BY <1>1, <1>2

\* Assigning a state and then reading it as MESI is assigning the MESI state.
LEMMA AbsSetLine ==
  ASSUME NEW set, NEW tag, NEW s
  PROVE  SetLine(AbsSet(set), tag, AsShared(s)) = AbsSet(SetLine(set, tag, s))
<1> DEFINE new == SetLine(set, tag, s)
           abs == AbsSet(set)
<1>1. /\ new.lru_order = set.lru_order
      /\ new.lines = [set.lines EXCEPT ![tag] = s]
  BY DEF SetLine
<1>2. SetLine(abs, tag, AsShared(s)) =
        [lru_order |-> set.lru_order,
         lines |-> [abs.lines EXCEPT ![tag] = AsShared(s)]]
  BY AbsFields DEF SetLine
<1>3. abs.lines = [t \in DOMAIN set.lines |-> AsShared(set.lines[t])]
  BY AbsFields
<1> HIDE DEF abs, new
<1>4. [abs.lines EXCEPT ![tag] = AsShared(s)] =
        [t \in DOMAIN new.lines |-> AsShared(new.lines[t])]
  <2>1. DOMAIN new.lines = DOMAIN set.lines
    BY <1>1
  <2>2. \A t \in DOMAIN set.lines : new.lines[t] = IF t = tag THEN s ELSE set.lines[t]
    BY <1>1
  <2> QED BY <1>3, <2>1, <2>2
<1> QED BY <1>1, <1>2, <1>4 DEF AbsSet, abs, new

\* Inserting a line commutes with the abstraction: a new line is INVALID in both.
LEMMA AbsInstall ==
  ASSUME NEW set, NEW tag
  PROVE  Install(AbsSet(set), tag) = AbsSet(Install(set, tag))
<1> DEFINE new == Install(set, tag)
<1>1. /\ new.lru_order = Cons(tag, set.lru_order)
      /\ new.lines = [t \in DOMAIN set.lines \cup {tag} |->
                        IF t = tag THEN "INVALID" ELSE set.lines[t]]
  BY DEF Install
<1>2. Install(AbsSet(set), tag) =
        [lru_order |-> Cons(tag, set.lru_order),
         lines |-> [t \in DOMAIN set.lines \cup {tag} |->
                      IF t = tag THEN "INVALID" ELSE AbsSet(set).lines[t]]]
  BY AbsFields DEF Install
<1> HIDE DEF new
<1>3. [t \in DOMAIN set.lines \cup {tag} |->
         IF t = tag THEN "INVALID" ELSE AbsSet(set).lines[t]] =
        [t \in DOMAIN new.lines |-> AsShared(new.lines[t])]
  <2>1. DOMAIN new.lines = DOMAIN set.lines \cup {tag}
    BY <1>1
  <2>2. \A t \in DOMAIN set.lines \cup {tag} :
          AsShared(new.lines[t]) =
            IF t = tag THEN "INVALID" ELSE AbsSet(set).lines[t]
    <3>1. AsShared("INVALID") = "INVALID"
      BY DEF AsShared
    <3>2. \A t \in DOMAIN set.lines \cup {tag} :
            new.lines[t] = IF t = tag THEN "INVALID" ELSE set.lines[t]
      BY <1>1
    <3>3. \A t \in DOMAIN set.lines : AbsSet(set).lines[t] = AsShared(set.lines[t])
      BY AbsFields
    <3> QED BY <3>1, <3>2, <3>3
  <2> QED BY <2>1, <2>2
<1> QED BY <1>1, <1>2, <1>3 DEF AbsSet, new

\* Evicting a line commutes with the abstraction.
LEMMA AbsEvict ==
  ASSUME NEW set, NEW i
  PROVE  Evict(AbsSet(set), i) = AbsSet(Evict(set, i))
<1> DEFINE new == Evict(set, i)
           kept == DOMAIN set.lines \ {set.lru_order[i]}
<1>1. /\ new.lru_order = RemoveAt(set.lru_order, i)
      /\ new.lines = [t \in kept |-> set.lines[t]]
  BY DEF Evict, Restrict
<1>2. Evict(AbsSet(set), i) =
        [lru_order |-> RemoveAt(set.lru_order, i),
         lines |-> [t \in kept |-> AbsSet(set).lines[t]]]
  BY AbsFields DEF Evict, Restrict
<1> HIDE DEF new
<1>3. [t \in kept |-> AbsSet(set).lines[t]] =
        [t \in DOMAIN new.lines |-> AsShared(new.lines[t])]
  <2>1. DOMAIN new.lines = kept
    BY <1>1
  <2>2. \A t \in kept : AsShared(new.lines[t]) = AbsSet(set).lines[t]
    <3>1. \A t \in kept : new.lines[t] = set.lines[t]
      BY <1>1
    <3>2. \A t \in DOMAIN set.lines : AbsSet(set).lines[t] = AsShared(set.lines[t])
      BY AbsFields
    <3> QED BY <3>1, <3>2
  <2> QED BY <2>1, <2>2
<1> QED BY <1>1, <1>2, <1>3 DEF AbsSet, new

\* allocate() chooses its victim by the list and the number of tags only.
LEMMA AbsAllocate ==
  ASSUME NEW set, NEW tag
  PROVE  allocate(AbsSet(set), tag).set = AbsSet(allocate(set, tag).set)
<1> DEFINE full == Cardinality(DOMAIN set.lines) >= Assoc
           back == Len(set.lru_order)
<1>1. allocate(set, tag).set = Install(IF full THEN Evict(set, back) ELSE set, tag)
  BY DEF allocate
<1>2. allocate(AbsSet(set), tag).set =
        Install(IF full THEN Evict(AbsSet(set), back) ELSE AbsSet(set), tag)
  BY AbsFields DEF allocate
<1> HIDE DEF full, back
<1>3. CASE full
  BY <1>1, <1>2, <1>3, AbsEvict, AbsInstall
<1>4. CASE ~full
  BY <1>1, <1>2, <1>4, AbsInstall
<1> QED BY <1>3, <1>4

-----------------------------------------------------------------------------
(***************************************************************************)
(* ... and with the operations of a cache.                                 *)
(***************************************************************************)
LEMMA AbsStateOf ==
  ASSUME NEW cache, NEW a \in Addrs
  PROVE  StateOf(AbsCache(cache), a) = AsShared(StateOf(cache, a))
<1>1. AbsCache(cache)[set_idx(a)] = AbsSet(cache[set_idx(a)])
  BY AddressFacts DEF AbsCache
<1> QED BY <1>1, AbsLineState DEF StateOf

\* Replacing one set.
LEMMA AbsReplace ==
  ASSUME NEW cache, cache = [i \in SetIndices |-> cache[i]], NEW a \in Addrs, NEW set
  PROVE  [AbsCache(cache) EXCEPT ![set_idx(a)] = AbsSet(set)] =
           AbsCache([cache EXCEPT ![set_idx(a)] = set])
<1> DEFINE new == [cache EXCEPT ![set_idx(a)] = set]
<1>1. set_idx(a) \in SetIndices
  BY AddressFacts
<1>2. \A i \in SetIndices : new[i] = IF i = set_idx(a) THEN set ELSE cache[i]
  BY <1>1
<1> HIDE DEF new
<1>3. [AbsCache(cache) EXCEPT ![set_idx(a)] = AbsSet(set)] =
        [i \in SetIndices |-> AbsSet(new[i])]
  BY <1>1, <1>2 DEF AbsCache
<1> QED BY <1>3 DEF AbsCache, new

\* A lookup in a cache commutes with the abstraction.
LEMMA AbsGetLine ==
  ASSUME NEW cache, cache = [i \in SetIndices |-> cache[i]], NEW a \in Addrs
  PROVE  get_line(AbsCache(cache), a) = AbsCache(get_line(cache, a))
<1> DEFINE set == find(cache[set_idx(a)], tag_of(a))
<1>1. find(AbsCache(cache)[set_idx(a)], tag_of(a)) = AbsSet(set)
  BY AbsFind, AddressFacts DEF AbsCache
<1>2. get_line(AbsCache(cache), a) = [AbsCache(cache) EXCEPT ![set_idx(a)] = AbsSet(set)]
  BY <1>1 DEF get_line
<1>3. get_line(cache, a) = [cache EXCEPT ![set_idx(a)] = set]
  BY DEF get_line
<1> HIDE DEF set
<1> QED BY <1>2, <1>3, AbsReplace

\* An assignment through a line's pointer commutes with the abstraction.
LEMMA AbsSetState ==
  ASSUME NEW cache, cache = [i \in SetIndices |-> cache[i]], NEW a \in Addrs, NEW s
  PROVE  SetState(AbsCache(cache), a, AsShared(s)) = AbsCache(SetState(cache, a, s))
<1> DEFINE set == SetLine(cache[set_idx(a)], tag_of(a), s)
<1>1. SetLine(AbsCache(cache)[set_idx(a)], tag_of(a), AsShared(s)) = AbsSet(set)
  BY AbsSetLine, AddressFacts DEF AbsCache
<1>2. SetState(AbsCache(cache), a, AsShared(s)) =
        [AbsCache(cache) EXCEPT ![set_idx(a)] = AbsSet(set)]
  BY <1>1 DEF SetState
<1>3. SetState(cache, a, s) = [cache EXCEPT ![set_idx(a)] = set]
  BY DEF SetState
<1> HIDE DEF set
<1> QED BY <1>2, <1>3, AbsReplace

\* Allocation commutes with the abstraction: the victim does not depend on
\* the states.
LEMMA AbsAllocateLine ==
  ASSUME NEW cache, cache = [i \in SetIndices |-> cache[i]], NEW a \in Addrs
  PROVE  allocate_line(AbsCache(cache), a).cache = AbsCache(allocate_line(cache, a).cache)
<1> DEFINE set == allocate(cache[set_idx(a)], tag_of(a)).set
<1>1. allocate(AbsCache(cache)[set_idx(a)], tag_of(a)).set = AbsSet(set)
  BY AbsAllocate, AddressFacts DEF AbsCache
<1>2. allocate_line(AbsCache(cache), a).cache =
        [AbsCache(cache) EXCEPT ![set_idx(a)] = AbsSet(set)]
  BY <1>1 DEF allocate_line
<1>3. allocate_line(cache, a).cache = [cache EXCEPT ![set_idx(a)] = set]
  BY DEF allocate_line
<1> HIDE DEF set
<1> QED BY <1>2, <1>3, AbsReplace

\* The sets of a cache stay the sets of a cache.
LEMMA Shapes ==
  ASSUME NEW cache, cache = [i \in SetIndices |-> cache[i]], NEW a, NEW s
  PROVE  /\ get_line(cache, a) = [i \in SetIndices |-> get_line(cache, a)[i]]
         /\ allocate_line(cache, a).cache =
              [i \in SetIndices |-> allocate_line(cache, a).cache[i]]
<1>1. ASSUME NEW x, NEW y
      PROVE  [cache EXCEPT ![x] = y] = [i \in SetIndices |-> [cache EXCEPT ![x] = y][i]]
  OBVIOUS
<1>2. get_line(cache, a) = [i \in SetIndices |-> get_line(cache, a)[i]]
  BY <1>1 DEF get_line
<1>3. allocate_line(cache, a).cache =
        [i \in SetIndices |-> allocate_line(cache, a).cache[i]]
  BY <1>1 DEF allocate_line
<1> QED BY <1>2, <1>3

\* A snooped cache that holds no valid copy only makes the lookup, in both.
LEMMA AbsSnoopLine ==
  ASSUME NEW cache, cache = [i \in SetIndices |-> cache[i]], NEW a \in Addrs,
         NEW s, NEW m, StateOf(cache, a) # "INVALID" => m = AsShared(s)
  PROVE  SnoopLine(AbsCache(cache), a, m) = AbsCache(SnoopLine(cache, a, s))
<1>1. StateOf(AbsCache(cache), a) = "INVALID" <=> StateOf(cache, a) = "INVALID"
  BY AbsStateOf DEF AsShared
<1>2. get_line(AbsCache(cache), a) = AbsCache(get_line(cache, a))
  BY AbsGetLine
<1>3. CASE StateOf(cache, a) = "INVALID"
  BY <1>1, <1>2, <1>3 DEF SnoopLine
<1>4. CASE StateOf(cache, a) # "INVALID"
  <2> DEFINE found == get_line(cache, a)
  <2>1. found = [i \in SetIndices |-> found[i]]
    BY Shapes
  <2> HIDE DEF found
  <2>2. SetState(AbsCache(found), a, AsShared(s)) = AbsCache(SetState(found, a, s))
    BY <2>1, AbsSetState
  <2>3. SnoopLine(cache, a, s) = SetState(found, a, s)
    BY <1>4 DEF SnoopLine, found
  <2>4. SnoopLine(AbsCache(cache), a, m) = SetState(AbsCache(found), a, m)
    BY <1>1, <1>2, <1>4 DEF SnoopLine, found
  <2> QED BY <1>4, <2>2, <2>3, <2>4
<1> QED BY <1>3, <1>4

-----------------------------------------------------------------------------
(***************************************************************************)
(* The processor side.                                                     *)
(***************************************************************************)
LEMMA AbsRequest ==
  ASSUME Protocol \in {"MESIF", "MOESI"},
         NEW cs, NEW c \in Cores, CacheOK(cs[c]), NEW a \in Addrs, NEW w \in BOOLEAN
  PROVE  LET resp == handle_processor_request(cs, c, a, w)
             abs  == MESI_handle_processor_request(AbsCaches(cs), c, a, w)
         IN  /\ abs.is_hit = resp.is_hit
             /\ abs.bus_action = resp.bus_action
             /\ abs.cache = AbsCache(resp.cache)
<1> DEFINE cache == cs[c]
           s     == StateOf(cache, a)
           found == get_line(cache, a)
           mod   == SetState(found, a, "MODIFIED")
           acs   == AbsCaches(cs)
           amod  == SetState(AbsCache(found), a, "MODIFIED")
           resp  == handle_processor_request(cs, c, a, w)
           abs   == MESI_handle_processor_request(acs, c, a, w)
<1>1. /\ cache = [i \in SetIndices |-> cache[i]]
      /\ s \in LineStates
      /\ acs[c] = AbsCache(cache)
  BY StateOfType DEF CacheOK, AbsCaches
<1>2. StateOf(acs[c], a) = AsShared(s)
  BY <1>1, AbsStateOf
<1>3. get_line(acs[c], a) = AbsCache(found)
  BY <1>1, AbsGetLine
<1>4. amod = AbsCache(mod)
  <2>1. found = [i \in SetIndices |-> found[i]]
    BY <1>1, Shapes
  <2>2. AsShared("MODIFIED") = "MODIFIED"
    BY DEF AsShared
  <2> HIDE DEF found
  <2> QED BY <2>1, <2>2, AbsSetState
<1>5. resp = CASE s = "INVALID" ->
                    [is_hit |-> FALSE, cache |-> found,
                     bus_action |-> IF w THEN "BUS_RDX" ELSE "BUS_RD"]
               [] s \in {"SHARED", "FORWARD", "OWNED"} /\ w ->
                    [is_hit |-> FALSE, cache |-> found, bus_action |-> "BUS_UPGR"]
               [] OTHER ->
                    [is_hit |-> TRUE, bus_action |-> "NONE",
                     cache |-> IF w THEN mod ELSE found]
  <2> USE <1>1 DEF LineStates, handle_processor_request
  <2>1. CASE Protocol = "MESIF"
    BY <2>1 DEF MESIF_handle_processor_request, MESIFState
  <2>2. CASE Protocol = "MOESI"
    BY <2>2 DEF MOESI_handle_processor_request, MOESIState
  <2> QED BY <2>1, <2>2
<1>6. abs = CASE AsShared(s) = "INVALID" ->
                   [is_hit |-> FALSE, cache |-> AbsCache(found),
                    bus_action |-> IF w THEN "BUS_RDX" ELSE "BUS_RD"]
              [] AsShared(s) = "SHARED" /\ w ->
                   [is_hit |-> FALSE, cache |-> AbsCache(found),
                    bus_action |-> "BUS_UPGR"]
              [] OTHER ->
                   [is_hit |-> TRUE, bus_action |-> "NONE",
                    cache |-> IF w THEN amod ELSE AbsCache(found)]
  BY <1>2, <1>3 DEF MESI_handle_processor_request
<1> HIDE DEF resp, abs, mod, amod, found, s
<1>7. /\ AsShared(s) = "INVALID" <=> s = "INVALID"
      /\ AsShared(s) = "SHARED" <=> s \in {"SHARED", "FORWARD", "OWNED"}
  BY DEF AsShared
<1>8. /\ abs.is_hit = resp.is_hit
      /\ abs.bus_action = resp.bus_action
      /\ abs.cache = AbsCache(resp.cache)
  <2>1. CASE s = "INVALID"
    BY <1>5, <1>6, <1>7, <2>1
  <2>2. CASE s \in {"SHARED", "FORWARD", "OWNED"} /\ w
    BY <1>5, <1>6, <1>7, <2>2
  <2>3. CASE s # "INVALID" /\ ~(s \in {"SHARED", "FORWARD", "OWNED"} /\ w)
    BY <1>4, <1>5, <1>6, <1>7, <2>3
  <2> QED BY <2>1, <2>2, <2>3
<1> QED BY <1>8 DEF resp, abs

-----------------------------------------------------------------------------
(***************************************************************************)
(* The bus side.                                                           *)
(***************************************************************************)
\* The rules for lines agree: a valid snooped line moves to the same state
\* up to the reading, and so does the requester's.
LEMMA AbsRules ==
  ASSUME Protocol \in {"MESIF", "MOESI"},
         NEW type \in {"BUS_RD", "BUS_RDX", "BUS_UPGR"}, NEW shared \in BOOLEAN
  PROVE  /\ \A x \in LineStates : x # "INVALID" =>
              MESI_SnoopState(type, AsShared(x)) = AsShared(SnoopState(type, x))
         /\ type # "BUS_UPGR" =>
              MESI_FillState(type, shared) = AsShared(RequesterState(type, shared))
         /\ type = "BUS_UPGR" => RequesterState(type, shared) = "MODIFIED"
         /\ AsShared("MODIFIED") = "MODIFIED"
<1>1. CASE Protocol = "MESIF"
  BY <1>1 DEF LineStates, MESIFState, SnoopState, MESIF_SnoopState, MESI_SnoopState,
              AsShared, RequesterState, MESIF_FillState, MESI_FillState
<1>2. CASE Protocol = "MOESI"
  BY <1>2 DEF LineStates, MOESIState, SnoopState, MOESI_SnoopState, MESI_SnoopState,
              AsShared, RequesterState, MOESI_FillState, MESI_FillState
<1> QED BY <1>1, <1>2

\* The caches after the snoop, as MESI does it.
MESISnooped(cs, r, type, a) ==
  [i \in DOMAIN cs |->
     IF i = r THEN cs[i]
     ELSE SnoopLine(cs[i], a, MESI_SnoopState(type, StateOf(cs[i], a)))]

\* The whole transaction of MESIF and of MOESI is MESI's on the abstraction.
LEMMA AbsTransaction ==
  ASSUME Protocol \in {"MESIF", "MOESI"},
         NEW cs, cs = [c \in Cores |-> cs[c]], \A c \in Cores : CacheOK(cs[c]),
         NEW r \in Cores, NEW type \in {"BUS_RD", "BUS_RDX", "BUS_UPGR"},
         NEW a \in Addrs
  PROVE  MESI_handle_bus_transaction(AbsCaches(cs), r, type, a).caches =
           AbsCaches(handle_bus_transaction(cs, r, type, a).caches)
<1> DEFINE acs == AbsCaches(cs)
           shared == SharedSignal(cs, r, a)
           s == RequesterState(type, shared)
           snooped == Snooped(cs, r, type, a)
           asnooped == MESISnooped(acs, r, type, a)
           new == IF type = "BUS_UPGR" THEN SetState(get_line(cs[r], a), a, s)
                  ELSE SetState(allocate_line(cs[r], a).cache, a, s)
           as == MESI_FillState(type, SharedSignal(acs, r, a))
           anew == IF type = "BUS_UPGR"
                   THEN SetState(get_line(acs[r], a), a, "MODIFIED")
                   ELSE SetState(allocate_line(acs[r], a).cache, a, as)
<1>1. /\ \A c \in Cores : /\ cs[c] = [i \in SetIndices |-> cs[c][i]]
                          /\ StateOf(cs[c], a) \in LineStates
      /\ DOMAIN acs = Cores /\ DOMAIN cs = Cores
      /\ \A c \in Cores : acs[c] = AbsCache(cs[c])
      /\ shared \in BOOLEAN
  BY StateOfType DEF CacheOK, AbsCaches, SharedSignal
<1>2. /\ DOMAIN snooped = Cores /\ snooped[r] = cs[r]
      /\ \A c \in Cores \ {r} :
           snooped[c] = SnoopLine(cs[c], a, SnoopState(type, StateOf(cs[c], a)))
  BY <1>1 DEF Snooped
<1> HIDE DEF acs
<1>3. /\ DOMAIN asnooped = Cores /\ asnooped[r] = acs[r]
      /\ \A c \in Cores \ {r} :
           asnooped[c] =
             SnoopLine(acs[c], a, MESI_SnoopState(type, StateOf(acs[c], a)))
  BY <1>1 DEF MESISnooped
<1>4. SharedSignal(acs, r, a) = shared
  <2>1. \A c \in Cores : StateOf(acs[c], a) = "INVALID" <=> StateOf(cs[c], a) = "INVALID"
    BY <1>1, AbsStateOf DEF AsShared
  <2>2. Holders(acs, r, a) = Holders(cs, r, a)
    BY <1>1, <2>1 DEF Holders
  <2> QED BY <2>2 DEF SharedSignal
<1>5. ASSUME NEW c \in Cores \ {r} PROVE asnooped[c] = AbsCache(snooped[c])
  <2> DEFINE x == StateOf(cs[c], a)
             m == MESI_SnoopState(type, StateOf(acs[c], a))
             n == SnoopState(type, x)
  <2>1. StateOf(acs[c], a) = AsShared(x)
    BY <1>1, AbsStateOf
  <2>2. x # "INVALID" => m = AsShared(n)
    BY <1>1, <2>1, AbsRules
  <2> HIDE DEF m, n
  <2>3. SnoopLine(AbsCache(cs[c]), a, m) = AbsCache(SnoopLine(cs[c], a, n))
    BY <1>1, <2>2, AbsSnoopLine
  <2> QED BY <1>1, <1>2, <1>3, <2>3 DEF m, n
<1>6. anew = AbsCache(new)
  <2>1. CASE type = "BUS_UPGR"
    <3> DEFINE found == get_line(cs[r], a)
    <3>1. /\ found = [i \in SetIndices |-> found[i]]
          /\ get_line(acs[r], a) = AbsCache(found)
      BY <1>1, Shapes, AbsGetLine
    <3>2. s = "MODIFIED" /\ AsShared(s) = "MODIFIED"
      BY <1>1, <2>1, AbsRules
    <3> HIDE DEF found, s
    <3>3. SetState(AbsCache(found), a, AsShared(s)) = AbsCache(SetState(found, a, s))
      BY <3>1, AbsSetState
    <3> QED BY <2>1, <3>1, <3>2, <3>3 DEF found
  <2>2. CASE type # "BUS_UPGR"
    <3> DEFINE fill == allocate_line(cs[r], a).cache
    <3>1. /\ fill = [i \in SetIndices |-> fill[i]]
          /\ allocate_line(acs[r], a).cache = AbsCache(fill)
      BY <1>1, Shapes, AbsAllocateLine
    <3>2. MESI_FillState(type, shared) = AsShared(s)
      BY <1>1, <2>2, AbsRules
    <3> HIDE DEF fill, s, shared
    <3>3. SetState(AbsCache(fill), a, AsShared(s)) = AbsCache(SetState(fill, a, s))
      BY <3>1, AbsSetState
    <3> QED BY <1>4, <2>2, <3>1, <3>2, <3>3 DEF fill
  <2> QED BY <2>1, <2>2
<1>7. MESI_handle_bus_transaction(acs, r, type, a).caches =
        [asnooped EXCEPT ![r] = anew]
  <2>1. CASE type = "BUS_UPGR"
    BY <1>3, <2>1
       DEF MESI_handle_bus_transaction, MESISnooped, UpgradeResult
  <2>2. CASE type # "BUS_UPGR"
    BY <2>2
       DEF MESI_handle_bus_transaction, MESISnooped, SharedSignal, FillResult
  <2> QED BY <2>1, <2>2
<1>8. handle_bus_transaction(cs, r, type, a).caches = [snooped EXCEPT ![r] = new]
  <2>1. CASE type = "BUS_UPGR"
    BY <1>2, <2>1, BranchFacts
  <2>2. CASE type # "BUS_UPGR"
    BY <2>2, BranchFacts
  <2> QED BY <2>1, <2>2
<1> HIDE DEF snooped, asnooped, new, anew
<1>9. [asnooped EXCEPT ![r] = anew] = AbsCaches([snooped EXCEPT ![r] = new])
  <2> DEFINE ds == [snooped EXCEPT ![r] = new]
  <2>1. ds[r] = new /\ \A c \in Cores \ {r} : ds[c] = snooped[c]
    BY <1>2
  <2> HIDE DEF ds
  <2>2. [asnooped EXCEPT ![r] = anew] =
          [c \in Cores |-> IF c = r THEN anew ELSE asnooped[c]]
    <3>1. asnooped = [c \in Cores |-> asnooped[c]]
      BY DEF asnooped, MESISnooped, acs, AbsCaches
    <3> QED BY <1>3, <3>1
  <2>3. \A c \in Cores : AbsCache(ds[c]) = IF c = r THEN anew ELSE asnooped[c]
    BY <1>5, <1>6, <2>1
  <2> QED BY <2>2, <2>3 DEF AbsCaches, ds
<1> QED BY <1>7, <1>8, <1>9 DEF acs

-----------------------------------------------------------------------------
(***************************************************************************)
(* The instance's operators are those of MESI.                             *)
(***************************************************************************)
LEMMA SameGeometry ==
  /\ MESI!SetIndices = SetIndices
  /\ MESI!EmptyCache = EmptyCache
BY DEF MESI!SetIndices, SetIndices, MESI!num_sets, num_sets, MESI!EmptyCache,
       EmptyCache, MESI!EmptySet, EmptySet

\* The instance's request handler is MESI's own, its operators being the same.
LEMMA SameRequest ==
  ASSUME NEW cs, NEW c, NEW a, NEW w
  PROVE  MESI!handle_processor_request(cs, c, a, w) =
           MESI_handle_processor_request(cs, c, a, w)
BY DEF find, MESI!find, Cons, MESI!Cons, remove, MESI!remove, set_idx,
       MESI!set_idx, num_sets, MESI!num_sets, tag_of, MESI!tag_of, LineState,
       MESI!LineState, SetLine, MESI!SetLine, SetState, MESI!SetState, StateOf,
       MESI!StateOf, get_line, MESI!get_line, MESI!handle_processor_request,
       MESI_handle_processor_request, MESI!MESI_handle_processor_request

\* The instance's transaction handler is MESI's own.
LEMMA SameTransaction ==
  ASSUME NEW cs, NEW r, NEW type, NEW a
  PROVE  MESI!handle_bus_transaction(cs, r, type, a) =
           MESI_handle_bus_transaction(cs, r, type, a)
<1>1. MESI!MESI_handle_bus_transaction(cs, r, type, a) =
        MESI_handle_bus_transaction(cs, r, type, a)
  BY Zenon
     DEF MESI_handle_bus_transaction, MESI!MESI_handle_bus_transaction,
         MESI_SnoopState, MESI!MESI_SnoopState, MESI_FillState,
         MESI!MESI_FillState, allocate, MESI!allocate, allocate_line,
         MESI!allocate_line, find, MESI!find, Cons, MESI!Cons, remove,
         MESI!remove, set_idx, MESI!set_idx, num_sets, MESI!num_sets, tag_of,
         MESI!tag_of, LineState, MESI!LineState, SetLine, MESI!SetLine, SetState,
         MESI!SetState, StateOf, MESI!StateOf, get_line, MESI!get_line, SnoopLine,
         MESI!SnoopLine, Holders, MESI!Holders, WritebackResult,
         MESI!WritebackResult, UpgradeResult, MESI!UpgradeResult, FillResult,
         MESI!FillResult, FillLatency, MESI!FillLatency, FillTraffic,
         MESI!FillTraffic, Evict, MESI!Evict, RemoveAt, MESI!RemoveAt, Restrict,
         MESI!Restrict, Install, MESI!Install, Cardinality, MESI!Cardinality
<1> QED BY <1>1 DEF MESI!handle_bus_transaction

-----------------------------------------------------------------------------
(***************************************************************************)
(* The refinement.                                                         *)
(***************************************************************************)
LEMMA MESICachesAbs == MESICaches = AbsCaches(caches)
BY DEF MESICaches, AbsCaches, AbsCache, AbsSet

\* All caches start empty, however their states are read.
LEMMA InitImplements == Init => MESI!Init
<1> SUFFICES ASSUME Init PROVE MESI!Init
  OBVIOUS
<1>1. bus_queue = {} /\ caches = [c \in Cores |-> EmptyCache]
  BY DEF Init
<1>2. AbsSet(EmptySet) = EmptySet
  BY DEF AbsSet, EmptySet
<1>3. AbsCache(EmptyCache) = EmptyCache
  BY <1>2 DEF AbsCache, EmptyCache
<1>4. MESICaches = [c \in Cores |-> EmptyCache]
  BY <1>1, <1>3, MESICachesAbs DEF AbsCaches
<1> QED BY <1>1, <1>4, SameGeometry DEF MESI!Init

\* Replacing one cache.
LEMMA AbsUpdate ==
  ASSUME NEW cs, cs = [c \in Cores |-> cs[c]], NEW c \in Cores, NEW cache
  PROVE  AbsCaches([cs EXCEPT ![c] = cache]) =
           [AbsCaches(cs) EXCEPT ![c] = AbsCache(cache)]
<1> DEFINE ds == [cs EXCEPT ![c] = cache]
<1>1. \A d \in Cores : ds[d] = IF d = c THEN cache ELSE cs[d]
  OBVIOUS
<1> HIDE DEF ds
<1>2. [AbsCaches(cs) EXCEPT ![c] = AbsCache(cache)] =
        [d \in Cores |-> IF d = c THEN AbsCache(cache) ELSE AbsCache(cs[d])]
  BY DEF AbsCaches
<1>3. AbsCaches(ds) = [d \in Cores |-> IF d = c THEN AbsCache(cache) ELSE AbsCache(cs[d])]
  BY <1>1 DEF AbsCaches
<1> QED BY <1>2, <1>3 DEF ds

\* A hit is a hit of MESI and a miss a miss of MESI, asking for the same.
LEMMA RequestImplements ==
  ASSUME Protocol \in {"MESIF", "MOESI"}, IInv,
         NEW c \in Cores, NEW a \in TraceAddrs[c], NEW w \in BOOLEAN
  PROVE  /\ Hit(c, a, w) => MESI!Hit(c, a, w)
         /\ Miss(c, a, w) => MESI!Miss(c, a, w)
<1> DEFINE resp == handle_processor_request(caches, c, a, w)
           abs == MESI!handle_processor_request(MESICaches, c, a, w)
<1>1. /\ a \in Addrs
      /\ caches = [d \in Cores |-> caches[d]]
      /\ CacheOK(caches[c])
  BY DEF Addrs, IInv, TypeOK
<1>2. /\ abs.is_hit = resp.is_hit
      /\ abs.bus_action = resp.bus_action
      /\ abs.cache = AbsCache(resp.cache)
  BY <1>1, SameRequest, MESICachesAbs, AbsRequest
<1>3. MESI!blocked(c) <=> blocked(c)
  BY DEF MESI!blocked, blocked
<1>4. MESICaches' = AbsCaches(caches')
  BY DEF MESICaches, AbsCaches, AbsCache, AbsSet
<1> HIDE DEF resp, abs
<1>5. ASSUME caches' = [caches EXCEPT ![c] = resp.cache]
      PROVE  MESICaches' = [MESICaches EXCEPT ![c] = abs.cache]
  BY <1>1, <1>2, <1>4, <1>5, AbsUpdate, MESICachesAbs
<1>6. ASSUME Hit(c, a, w) PROVE MESI!Hit(c, a, w)
  <2>1. /\ ~blocked(c)
        /\ resp.is_hit
        /\ caches' = [caches EXCEPT ![c] = resp.cache]
        /\ UNCHANGED bus_queue
    BY <1>6 DEF Hit, resp
  <2> QED BY <1>2, <1>3, <1>5, <2>1 DEF MESI!Hit, abs
<1>7. ASSUME Miss(c, a, w) PROVE MESI!Miss(c, a, w)
  <2>1. /\ ~blocked(c)
        /\ ~resp.is_hit
        /\ caches' = [caches EXCEPT ![c] = resp.cache]
        /\ bus_queue' = bus_queue \cup
             {[core_id |-> c, type |-> resp.bus_action, addr |-> a]}
    BY <1>7 DEF Miss, resp
  <2> QED BY <1>2, <1>3, <1>5, <2>1 DEF MESI!Miss, abs
<1> QED BY <1>6, <1>7

\* A grant is MESI's grant of the same request.
LEMMA GrantImplements ==
  ASSUME Protocol \in {"MESIF", "MOESI"}, IInv, NEW req \in bus_queue, Grant(req)
  PROVE  MESI!Grant(req)
<1>1. /\ caches = [c \in Cores |-> caches[c]]
      /\ \A c \in Cores : CacheOK(caches[c])
      /\ req.core_id \in Cores
      /\ req.type \in {"BUS_RD", "BUS_RDX", "BUS_UPGR"}
      /\ req.addr \in Addrs
  BY DEF IInv, TypeOK, Request
<1>2. MESICaches' = AbsCaches(caches')
  BY DEF MESICaches, AbsCaches, AbsCache, AbsSet
<1>3. caches' = handle_bus_transaction(caches, req.core_id, req.type, req.addr).caches
  BY DEF Grant
<1>4. MESICaches' =
        MESI_handle_bus_transaction(MESICaches, req.core_id, req.type, req.addr).caches
  BY <1>1, <1>2, <1>3, AbsTransaction, MESICachesAbs
<1>5. bus_queue' = bus_queue \ {req}
  BY DEF Grant
<1> QED BY <1>4, <1>5, SameTransaction DEF MESI!Grant

\* Every step maps to a step of MESI or to a stutter.
LEMMA NextImplements ==
  ASSUME Protocol \in {"MESIF", "MOESI"}, IInv, [Next]_vars
  PROVE  [MESI!Next]_MESI!vars
<1>1. ASSUME NEW c \in Cores, NEW a \in TraceAddrs[c], NEW w \in BOOLEAN,
             Hit(c, a, w) \/ Miss(c, a, w)
      PROVE  MESI!Next
  <2>1. MESI!Hit(c, a, w) \/ MESI!Miss(c, a, w)
    BY <1>1, RequestImplements
  <2> QED BY <2>1 DEF MESI!Next
<1>2. ASSUME NEW req \in bus_queue, Grant(req)
      PROVE  MESI!Next
  BY <1>2, GrantImplements DEF MESI!Next
<1>3. CASE UNCHANGED vars
  BY <1>3 DEF vars, MESI!vars, MESICaches
<1> QED BY <1>1, <1>2, <1>3 DEF Next

\* MESIF and MOESI implement MESI: handle_processor_request and
\* handle_bus_transaction of their headers hit, miss, invalidate and evict
\* exactly as those of MESI do under the same interleaving, and add only
\* the choice of who supplies a block and when it is written back.
THEOREM RefinesMESI == Protocol \in {"MESIF", "MOESI"} => (Spec => ImplementsMESI)
<1> SUFFICES ASSUME Protocol \in {"MESIF", "MOESI"} PROVE Spec => ImplementsMESI
  OBVIOUS
<1>1. Init => MESI!Init
  BY InitImplements
<1>2. IInv /\ [Next]_vars => [MESI!Next]_MESI!vars
  BY NextImplements
<1> QED BY <1>1, <1>2, Invariance, PTL DEF Spec, ImplementsMESI, MESI!Spec

=============================================================================
