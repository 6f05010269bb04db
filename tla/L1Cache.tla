------------------------------ MODULE L1Cache ------------------------------
(***************************************************************************)
(* A private L1 cache: the classes MESICache, MOESICache, MESIFCache,      *)
(* DragonCache and MESISmartCache, which are the same code over the set    *)
(* class of their header.  A cache is a function from set index to set;    *)
(* an address selects a set and a tag by shifting and masking.             *)
(***************************************************************************)
EXTENDS LRUCacheSet

CONSTANTS
  CacheSize,    \* bytes per cache        (command line argument CACHE_SIZE)
  BlockSize     \* bytes per block        (command line argument BLOCK_SIZE)

num_sets == CacheSize \div (Assoc * BlockSize)

(***************************************************************************)
(* The scripts only use sizes that are powers of two.  For those the code's*)
(* shift by __builtin_ctz(bsize) is a division by the block size and its   *)
(* mask with sets.size() - 1 is a remainder.                               *)
(***************************************************************************)
IsPowerOfTwo(n) == \E k \in 0..31 : n = 2^k

ASSUME SizeAssumption ==
  /\ CacheSize \in Nat
  /\ BlockSize \in Nat \ {0}
  /\ num_sets \in Nat \ {0}
  /\ IsPowerOfTwo(BlockSize)
  /\ IsPowerOfTwo(num_sets)

set_idx(addr) == (addr \div BlockSize) % num_sets

tag_of(addr) == addr \div (BlockSize * num_sets)

SameBlock(a, b) == set_idx(a) = set_idx(b) /\ tag_of(a) = tag_of(b)

SetIndices == 0 .. num_sets - 1

(***************************************************************************)
(* The constructor, and the operations: get_line() is find() of the        *)
(* selected set; allocate() is allocate() of the selected set.             *)
(***************************************************************************)
EmptyCache == [i \in SetIndices |-> EmptySet]

StateOf(cache, addr) == LineState(cache[set_idx(addr)], tag_of(addr))

Resident(cache, addr) == tag_of(addr) \in DOMAIN cache[set_idx(addr)].lines

get_line(cache, addr) ==
  [cache EXCEPT ![set_idx(addr)] = find(cache[set_idx(addr)], tag_of(addr))]

SetState(cache, addr, state) ==
  [cache EXCEPT ![set_idx(addr)] =
     SetLine(cache[set_idx(addr)], tag_of(addr), state)]

allocate_line(cache, addr) ==
  LET res == allocate(cache[set_idx(addr)], tag_of(addr))
  IN  [cache   |-> [cache EXCEPT ![set_idx(addr)] = res.set],
       evicted |-> res.evicted]

\* Mutant of the snooping loop: an invalidated line is erased from its set.
SnoopLine_erases(cache, addr, state) ==
  LET set == cache[set_idx(addr)]
      tag == tag_of(addr)
  IN  IF state = "INVALID"
      THEN [cache EXCEPT ![set_idx(addr)] =
              [lru_order |-> remove(set.lru_order, tag),
               lines     |-> Restrict(set.lines, DOMAIN set.lines \ {tag})]]
      ELSE SetState(get_line(cache, addr), addr, state)

(***************************************************************************)
(* What a snooping loop does to one cache: look the line up, which also    *)
(* refreshes its place in the LRU list, and give a valid line the state    *)
(* the protocol prescribes.                                                *)
(***************************************************************************)
SnoopLine(cache, addr, state) ==
  IF StateOf(cache, addr) = "INVALID"
  THEN get_line(cache, addr)
  ELSE SetState(get_line(cache, addr), addr, state)

(***************************************************************************)
(* Latencies and traffic shared by all protocols: a block comes from       *)
(* another cache in 1 + 2 * (words) cycles or from memory in 101, and a    *)
(* dirty victim costs 100 more and one more block of traffic.              *)
(***************************************************************************)
FillLatency(cache_to_cache, writeback) ==
  (IF cache_to_cache THEN 1 + 2 * (BlockSize \div 4) ELSE 101)
    + (IF writeback THEN 100 ELSE 0)

\* Mutant: the victim's block is not added to the traffic.
FillTraffic_no_victim(writeback) == BlockSize

FillTraffic(writeback) == IF writeback THEN 2 * BlockSize ELSE BlockSize

=============================================================================
