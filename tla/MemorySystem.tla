---------------------------- MODULE MemorySystem ----------------------------
(***************************************************************************)
(* The memory hierarchy of sim-outorder and sim-cache: level-one and       *)
(* level-two instruction and data caches, which may be shared, and two     *)
(* TLBs, with the block access functions that connect them.                *)
(*                                                                         *)
(* The simulated program is an input: any sequence of fetches, loads,      *)
(* stores and system calls.  sim-outorder accesses the caches at the       *)
(* current cycle and uses the latencies; sim-cache makes all accesses at   *)
(* cycle zero and drops them, so its times are not kept.  Addresses start  *)
(* at 1: block 0 is outside the segments of a program (and an access to it *)
(* would match the empty last_tagset).                                     *)
(***************************************************************************)
EXTENDS Cache

CONSTANTS
  Configs,        \* the command lines that are tried
  geometry,       \* cache name -> its parameters on the command line
  DataAddrs,      \* the addresses loaded and stored
  TextAddrs,      \* the addresses fetched
  mem_lat,        \* latency of a block read from main memory
  tlb_miss_lat,   \* latency of a TLB miss
  MaxBacklog      \* bound: how far ahead of the clock the caches may run

CacheNames == {"il1", "il2", "dl1", "dl2", "itlb", "dtlb"}

ASSUME MemorySystemAssumption ==
  /\ DOMAIN geometry = CacheNames
  /\ \A nm \in CacheNames : GeometryOK(geometry[nm])
  \* otherwise cache_access stops with "access spans block"
  /\ geometry["dl1"].bsize <= geometry["dl2"].bsize
  /\ geometry["il1"].bsize <= geometry["il2"].bsize
  /\ geometry["il1"].bsize <= geometry["dl2"].bsize
  /\ DataAddrs \cup TextAddrs \subseteq Nat
  /\ \A a \in DataAddrs \cup TextAddrs, nm \in CacheNames :
       a >= geometry[nm].bsize
  /\ mem_lat \in Nat \ {0}
  /\ tlb_miss_lat \in Nat \ {0}
  /\ MaxBacklog \in Nat

VARIABLES
  config,   \* the simulator, the caches its pointers name, and its flags
  h,        \* the caches; newest: where the last value stored at each
            \* address is; panic: a write to instruction memory
  clock     \* "idle" or the operation that was performed last

vars == <<config, h, clock>>

-----------------------------------------------------------------------------
(***************************************************************************)
(* Which caches exist: the checks of sim_check_options.                    *)
(***************************************************************************)
sim_check_options(c) ==
  /\ c.dl1 = "none" => c.dl2 = "none"
  /\ c.il1 \in {"none", "dl1", "dl2"} => c.il2 = "none"
  /\ c.il1 = "dl1" => c.dl1 # "none"
  /\ "dl2" \in {c.il1, c.il2} => c.dl2 # "none"

\* The replacement policy under test is the one of the l1 data cache.
G(nm) == IF nm = "dl1" THEN [geometry[nm] EXCEPT !.policy = config.policy]
                       ELSE geometry[nm]

Addrs == DataAddrs \cup TextAddrs

-----------------------------------------------------------------------------
(***************************************************************************)
(* The block access functions.                                             *)
(***************************************************************************)
\* A block leaves one level: the newest values it holds move with it.
Move(hh, baddr, bsize, from, to) ==
  [hh EXCEPT !.newest = [a \in DOMAIN @ |->
     IF a \in baddr .. baddr + bsize - 1 /\ @[a] = from THEN to ELSE @[a]]]

MemoryRead(hh) == [h |-> hh, lat |-> mem_lat]

WriteBuffered(hh) == [h |-> hh, lat |-> 0]

dl2_access_fn(hh, cmd, baddr, now) ==
  IF cmd = "Read" THEN MemoryRead(hh)
  ELSE WriteBuffered(Move(hh, baddr, G("dl2").bsize, "dl2", "memory"))

dl1_access_fn(hh, cmd, baddr, now) ==
  LET below == IF config.dl2 = "none" THEN "memory" ELSE "dl2"
      h1    == IF cmd = "Write"
               THEN Move(hh, baddr, G("dl1").bsize, "dl1", below) ELSE hh
      r     == cache_access(h1, "dl2", G("dl2"), cmd, baddr, now, 1,
                            dl2_access_fn)
  IN  CASE below = "memory" /\ cmd = "Read" -> MemoryRead(h1)
        [] below = "dl2" /\ cmd = "Read"    -> [h |-> r.h, lat |-> r.lat]
        [] below = "dl2" /\ cmd = "Write"   -> WriteBuffered(r.h)
        [] OTHER                            -> WriteBuffered(h1)

il2_access_fn(hh, cmd, baddr, now) ==
  IF cmd = "Read" THEN MemoryRead(hh)
  ELSE WriteBuffered([hh EXCEPT !.panic = TRUE])

il1_access_fn(hh, cmd, baddr, now) ==
  IF cmd = "Write" THEN WriteBuffered([hh EXCEPT !.panic = TRUE])
  ELSE CASE config.il2 = "none" -> MemoryRead(hh)
         [] config.il2 = "dl2"  ->
              cache_access(hh, "dl2", G("dl2"), cmd, baddr, now, 1,
                           dl2_access_fn)
         [] config.il2 = "il2"  ->
              cache_access(hh, "il2", G("il2"), cmd, baddr, now, 1,
                           il2_access_fn)

\* Both TLBs: a fake translation.
tlb_access_fn(hh, cmd, baddr, now) == [h |-> hh, lat |-> tlb_miss_lat]

\* An access through one of the simulator's cache pointers; without the
\* cache there is nothing to do.
CacheAccess(hh, nm, cmd, addr, random) ==
  CASE nm = "dl1"  -> cache_access(hh, nm, G(nm), cmd, addr, 0, random,
                                   dl1_access_fn).h
    [] nm = "dl2"  -> cache_access(hh, nm, G(nm), cmd, addr, 0, 1,
                                   dl2_access_fn).h
    [] nm = "il1"  -> cache_access(hh, nm, G(nm), cmd, addr, 0, 1,
                                   il1_access_fn).h
    [] nm = "none" -> hh

TLBAccess(hh, nm, cmd, addr) ==
  IF nm = "none" THEN hh
  ELSE cache_access(hh, nm, G(nm), cmd, addr, 0, 1, tlb_access_fn).h

-----------------------------------------------------------------------------
Init ==
  /\ config \in {c \in Configs : sim_check_options(c)}
  /\ h = [nm \in CacheNames \cup {"newest", "panic"} |->
            CASE nm = "newest" -> [a \in DataAddrs |-> "memory"]
              [] nm = "panic"  -> FALSE
              [] OTHER         -> cache_create(G(nm))]
  /\ clock = "idle"

\* sim-cache makes every access at time zero and uses no latency.
Settle(hh) ==
  IF config.sim = "sim-outorder" THEN hh
  ELSE [nm \in DOMAIN hh |->
          IF nm \in CacheNames THEN Elapse(hh[nm], MaxBacklog + mem_lat + 8)
          ELSE hh[nm]]

Backlog ==
  \E nm \in CacheNames :
    \/ h[nm].bus_free > MaxBacklog
    \/ \E s \in DOMAIN h[nm].sets : \E f \in DOMAIN h[nm].sets[s].blks :
         h[nm].sets[s].blks[f].ready > MaxBacklog

\* What an instruction does with the memory system: it is fetched through
\* the I-cache and the I-TLB; a load when it issues, and a store when it
\* commits, use the D-cache and the D-TLB, which only sim-cache writes.
Operation == {"Fetch", "Load", "Store"}

PointersOf(op) ==
  IF op = "Fetch" THEN [l1 |-> config.il1, tlb |-> config.itlb]
                  ELSE [l1 |-> config.dl1, tlb |-> config.dtlb]

AddrsOf(op) == IF op = "Fetch" THEN TextAddrs ELSE DataAddrs

Stored(hh, a) ==
  [hh EXCEPT !.newest[a] = IF config.dl1 = "none" THEN "memory" ELSE "dl1"]

Reference(op, a, random) ==
  /\ ~Backlog
  /\ LET cmd == IF op = "Store" THEN "Write" ELSE "Read"
         r   == CacheAccess(h, PointersOf(op).l1, cmd, a, random)
         t   == TLBAccess(r, PointersOf(op).tlb,
                          IF config.sim = "sim-cache" THEN cmd ELSE "Read", a)
     IN  h' = Settle(IF op = "Store" THEN Stored(t, a) ELSE t)
  /\ clock' = "access"
  /\ UNCHANGED config

Flush(hh, nm) ==
  CASE nm = "dtlb" -> cache_flush(hh, nm, G(nm), tlb_access_fn).h
    [] nm = "dl1"  -> cache_flush(hh, nm, G(nm), dl1_access_fn).h
    [] nm = "dl2"  -> cache_flush(hh, nm, G(nm), dl2_access_fn).h
    [] nm = "none" -> hh

\* Mutant: the second level is flushed before the first.
FlushAll_outside_in(hh) ==
  Flush(Flush(Flush(hh, config.dtlb), config.dl2), config.dl1)

\* Level by level, so that what level one writes back leaves level two too.
FlushAll(hh) ==
  Flush(Flush(Flush(hh, config.dtlb), config.dl1), config.dl2)

\* A system call of sim-cache with -flush, which then bypasses the caches.
Syscall ==
  /\ config.sim = "sim-cache"
  /\ config.flush_on_syscalls
  /\ h' = Settle(FlushAll(h))
  /\ clock' = "flushed"
  /\ UNCHANGED config

\* The clock of sim-outorder advances.
Tick(dt) ==
  /\ config.sim = "sim-outorder"
  /\ clock = "access" \/ Backlog
  /\ h' = [nm \in DOMAIN h |->
             IF nm \in CacheNames THEN Elapse(h[nm], dt) ELSE h[nm]]
  /\ clock' = "idle"
  /\ UNCHANGED config

Next ==
  \/ \E op \in Operation, random \in Frames(G("dl1")) :
       /\ config.policy # "Random" => random = 1
       /\ \E a \in AddrsOf(op) : Reference(op, a, random)
  \/ Syscall
  \/ \E dt \in {1, MaxBacklog + mem_lat + 8} : Tick(dt)

Spec == Init /\ [][Next]_vars

-----------------------------------------------------------------------------
(***************************************************************************)
(* Safety.                                                                 *)
(***************************************************************************)
Holds(nm, a) ==
  LET g == G(nm)
      s == h[nm].sets[CACHE_SET(g, a)]
  IN  {f \in Frames(g) : s.blks[f].valid /\ s.blks[f].tag = CACHE_TAG(g, a)}

\* No store is lost on its way to memory: the cache that has the newest
\* value of an address has its block, and has it dirty, whatever is evicted,
\* refetched or flushed at either level; and nothing is ever written to an
\* instruction cache.
StoresKept ==
  /\ ~h.panic
  /\ \A a \in DataAddrs :
       h.newest[a] # "memory" =>
         \E f \in Holds(h.newest[a], a) :
           h[h.newest[a]].sets[CACHE_SET(G(h.newest[a]), a)].blks[f].dirty

\* After a system call that flushes, memory has every store.
FlushReachesMemory ==
  clock = "flushed" => \A a \in DataAddrs : h.newest[a] = "memory"

\* Looking an address up finds the one block that holds it: a tag is valid
\* at most once in a set, every block is on the hash chain of its tag and on
\* no other, and the shortcut of the last hit names a valid block of that
\* address.
LookupExact ==
  \A nm \in CacheNames :
    LET g == G(nm)
    IN  /\ \A a \in Addrs : Cardinality(Holds(nm, a)) <= 1
        /\ g.hsize > 0 =>
             \A s \in DOMAIN h[nm].sets : \A b \in 0 .. g.hsize - 1 :
               /\ IsInjective(h[nm].sets[s].hash[b])
               /\ ToSet(h[nm].sets[s].hash[b]) =
                    {f \in Frames(g) :
                       CACHE_HASH(g, h[nm].sets[s].blks[f].tag) = b}
        /\ h[nm].last_tagset # 0 =>
             h[nm].last_blk \in Holds(nm, h[nm].last_tagset)

=============================================================================
