------------------------------- MODULE Cache -------------------------------
(***************************************************************************)
(* The cache simulator of SimpleScalar (cache.c): sets of blocks on a way  *)
(* list that orders them for replacement, hash chains in highly            *)
(* associative sets, and a shortcut to the block of the last hit.          *)
(*                                                                         *)
(* Every operation takes the state h of a whole memory hierarchy (cache    *)
(* name -> cache) and the block access function of the cache it works on,  *)
(* which a miss or a writeback calls and which may access a cache of the   *)
(* next level.  It returns the new hierarchy, the latency, and what it     *)
(* counted.  Caches hold no data (balloc is FALSE in every simulator).     *)
(*                                                                         *)
(* Times are kept relative to the current cycle: ready and bus_free are    *)
(* the cycles from now until the block or the bus is available, 0 if it    *)
(* already is.  Addresses are counted in units of the smallest block.      *)
(***************************************************************************)
EXTENDS Integers, Sequences, SequencesExt, FiniteSets

LOCAL MaxOf(a, b) == IF a >= b THEN a ELSE b

(***************************************************************************)
(* Geometry: g = [nsets, bsize, assoc, policy, hit_latency, hsize].        *)
(***************************************************************************)
CACHE_TAG(g, addr) == addr \div (g.bsize * g.nsets)

CACHE_SET(g, addr) == (addr \div g.bsize) % g.nsets

CACHE_BADDR(g, addr) == addr - (addr % g.bsize)

CACHE_MK_BADDR(g, tag, set) == (tag * g.nsets + set) * g.bsize

\* The hash of a tag below 2^8, where the shifted tags are zero.
CACHE_HASH(g, tag) == tag % g.hsize

\* What cache_create accepts.
PowersOfTwo == {1, 2, 4, 8, 16, 32}

GeometryOK(g) ==
  /\ g.nsets \in PowersOfTwo
  /\ g.bsize \in PowersOfTwo
  /\ g.assoc \in PowersOfTwo
  /\ g.policy \in {"LRU", "FIFO", "Random"}
  /\ g.hit_latency >= 1
  /\ g.hsize \in {0} \cup PowersOfTwo

Frames(g) == 1 .. g.assoc

NoFrame == 0

\* The order in which cache_create links the blocks: each at the head.
LinkOrder(g) == [i \in Frames(g) |-> g.assoc + 1 - i]

cache_create(g) ==
  [sets |-> [s \in 0 .. g.nsets - 1 |->
               [way  |-> LinkOrder(g),
                blks |-> [f \in Frames(g) |->
                            [tag |-> 0, valid |-> FALSE, dirty |-> FALSE,
                             ready |-> 0]],
                hash |-> [b \in 0 .. g.hsize - 1 |->
                            IF b = 0 THEN LinkOrder(g) ELSE <<>>]]],
   last_tagset |-> 0,
   last_blk    |-> NoFrame,
   bus_free    |-> 0]

-----------------------------------------------------------------------------
(***************************************************************************)
(* The lists of a set.                                                     *)
(***************************************************************************)
unlink_htab_ent(g, set, f) ==
  IF g.hsize = 0 THEN set
  ELSE [set EXCEPT !.hash[CACHE_HASH(g, set.blks[f].tag)] =
          SelectSeq(@, LAMBDA e : e # f)]

link_htab_ent(g, set, f) ==
  IF g.hsize = 0 THEN set
  ELSE [set EXCEPT !.hash[CACHE_HASH(g, set.blks[f].tag)] = <<f>> \o @]

update_way_list(set, f, where) ==
  LET rest == SelectSeq(set.way, LAMBDA e : e # f)
  IN  [set EXCEPT !.way = IF where = "Head" THEN <<f>> \o rest
                                            ELSE Append(rest, f)]

\* The first valid block with the tag on the hash chain or the way list.
Lookup(g, set, tag) ==
  LET list == IF g.hsize > 0 THEN set.hash[CACHE_HASH(g, tag)] ELSE set.way
      i    == SelectInSeq(list, LAMBDA f : /\ set.blks[f].tag = tag
                                           /\ set.blks[f].valid)
  IN  IF i = 0 THEN NoFrame ELSE list[i]

cache_probe(g, cp, addr) ==
  Lookup(g, cp.sets[CACHE_SET(g, addr)], CACHE_TAG(g, addr)) # NoFrame

-----------------------------------------------------------------------------
(***************************************************************************)
(* What an operation returns.                                              *)
(***************************************************************************)
Counts(hit, miss, repl, wb) ==
  [hits |-> hit, misses |-> miss, replacements |-> repl, writebacks |-> wb]

One(b) == IF b THEN 1 ELSE 0

\* Mutant: a slow hit reorders the way list whatever the policy.
Reorders_always(g, fast) == ~fast

\* A fast hit finds its block at the head, or does not order by use.
Reorders(g, fast) == ~fast /\ g.policy = "LRU"

\* A hit, fast (through last_blk, which stays at its place in the way list)
\* or slow; now is the time of the access, in cycles from the current one.
Hit(h, nm, g, cmd, addr, now, f, fast) ==
  LET s    == CACHE_SET(g, addr)
      set0 == IF cmd = "Write" THEN [h[nm].sets[s] EXCEPT !.blks[f].dirty = TRUE]
                               ELSE h[nm].sets[s]
      set1 == IF Reorders(g, fast)
              THEN update_way_list(set0, f, "Head") ELSE set0
  IN  [h     |-> [h EXCEPT ![nm] =
                    [@ EXCEPT !.sets[s] = set1,
                              !.last_tagset = CACHE_BADDR(g, addr),
                              !.last_blk = f]],
       lat   |-> MaxOf(g.hit_latency, h[nm].sets[s].blks[f].ready - now),
       count |-> Counts(1, 0, 0, 0)]

\* Mutant: the shortcut to the last block hit survives the miss.
Detach_keeps_last(g, cp, s, f) ==
  [cp EXCEPT
     !.sets[s] = unlink_htab_ent(g, IF g.policy = "Random" THEN @
                                    ELSE update_way_list(@, f, "Head"), f)]

\* The state in which the next level is called: the victim is off its hash
\* chain and no block counts as the last one hit.
Detach(g, cp, s, f) ==
  [cp EXCEPT
     !.sets[s] = unlink_htab_ent(g, IF g.policy = "Random" THEN @
                                    ELSE update_way_list(@, f, "Head"), f),
     !.last_tagset = 0,
     !.last_blk = NoFrame]

\* Mutant: a store that misses leaves the new block clean.
Fill_clean(g, cp, s, f, tag, cmd, ready) ==
  [cp EXCEPT !.sets[s] =
     link_htab_ent(g, [@ EXCEPT !.blks[f] =
                         [tag |-> tag, valid |-> TRUE, dirty |-> FALSE,
                          ready |-> ready]], f)]

\* The block gets its new tag; it is ready when the next level answers.
Fill(g, cp, s, f, tag, cmd, ready) ==
  [cp EXCEPT !.sets[s] =
     link_htab_ent(g, [@ EXCEPT !.blks[f] =
                         [tag |-> tag, valid |-> TRUE,
                          dirty |-> cmd = "Write", ready |-> ready]], f)]

\* A miss.  A valid victim waits for its own outstanding miss and for the
\* bus to the next level; a dirty one is written back before the block is
\* read.  random is the way Random replacement draws.
Miss(h, nm, g, cmd, addr, now, random, blk_access_fn(_, _, _, _)) ==
  LET s      == CACHE_SET(g, addr)
      cp     == h[nm]
      f      == IF g.policy = "Random" THEN random ELSE Last(cp.sets[s].way)
      victim == cp.sets[s].blks[f]
      wait   == IF victim.valid
                THEN LET w == MaxOf(0, victim.ready - now)
                     IN  w + MaxOf(0, cp.bus_free - (now + w))
                ELSE 0
      cp1    == [Detach(g, cp, s, f) EXCEPT
                   !.bus_free = IF victim.valid
                                THEN MaxOf(@, now + wait) + 1 ELSE @]
      h1     == [h EXCEPT ![nm] = cp1]
      wb     == IF victim.valid /\ victim.dirty
                THEN blk_access_fn(h1, "Write",
                                   CACHE_MK_BADDR(g, victim.tag, s), now + wait)
                ELSE [h |-> h1, lat |-> 0]
      lat1   == wait + wb.lat
      rd     == blk_access_fn(wb.h, "Read", CACHE_BADDR(g, addr), now + lat1)
      lat    == lat1 + rd.lat
  IN  [h     |-> [rd.h EXCEPT ![nm] =
                    Fill(g, @, s, f, CACHE_TAG(g, addr), cmd, now + lat)],
       lat   |-> lat,
       count |-> Counts(0, 1, One(victim.valid),
                        One(victim.valid /\ victim.dirty))]

cache_access(h, nm, g, cmd, addr, now, random, blk_access_fn(_, _, _, _)) ==
  LET cp   == h[nm]
      fast == CACHE_BADDR(g, addr) = cp.last_tagset
      f    == IF fast THEN cp.last_blk
              ELSE Lookup(g, cp.sets[CACHE_SET(g, addr)], CACHE_TAG(g, addr))
  IN  IF f # NoFrame
      THEN Hit(h, nm, g, cmd, addr, now, f, fast)
      ELSE Miss(h, nm, g, cmd, addr, now, random, blk_access_fn)

-----------------------------------------------------------------------------
(***************************************************************************)
(* Flushing: every valid block is invalidated, then written back if dirty, *)
(* set by set and along the way list.  The dirty bit stays.                *)
(***************************************************************************)
cache_flush(h, nm, g, blk_access_fn(_, _, _, _)) ==
  LET slots == [i \in 1 .. g.nsets * g.assoc |->
                  LET s == (i - 1) \div g.assoc
                  IN  <<s, h[nm].sets[s].way[((i - 1) % g.assoc) + 1]>>]
      FlushBlock(r, slot) ==
        LET s   == slot[1]
            f   == slot[2]
            blk == r.h[nm].sets[s].blks[f]
            h1  == [r.h EXCEPT ![nm].sets[s].blks[f].valid = FALSE]
            wb  == IF blk.valid /\ blk.dirty
                   THEN blk_access_fn(h1, "Write",
                                      CACHE_MK_BADDR(g, blk.tag, s), r.lat)
                   ELSE [h |-> h1, lat |-> 0]
        IN  [h |-> wb.h, lat |-> r.lat + wb.lat]
      start == [h   |-> [h EXCEPT ![nm] = [@ EXCEPT !.last_tagset = 0,
                                                    !.last_blk = NoFrame]],
                lat |-> g.hit_latency]
  IN  FoldLeft(FlushBlock, start, slots)

\* Time passes: what was to be ready becomes ready.
Elapse(cp, dt) ==
  [cp EXCEPT
     !.sets = [s \in DOMAIN @ |->
                 [@[s] EXCEPT !.blks = [f \in DOMAIN @ |->
                    [@[f] EXCEPT !.ready = MaxOf(0, @ - dt)]]]],
     !.bus_free = MaxOf(0, @ - dt)]

=============================================================================
