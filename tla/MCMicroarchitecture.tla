------------------------ MODULE MCMicroarchitecture ------------------------
(***************************************************************************)
(* Instances for TLC of three parts of sim-outorder and its smaller        *)
(* siblings: the memory system, the branch predictor with the simulators   *)
(* that use it, and the speculative state of the wrong path.  A behaviour  *)
(* is one of one part; the variables of the others stay 0.                 *)
(***************************************************************************)
EXTENDS MemorySystem, TLC

-----------------------------------------------------------------------------
(* Instances of the memory system, with a history variable: the order in   *)
(* which the blocks of the l1 data cache were last used (LRU) or filled    *)
(* (FIFO).                                                                 *)
VARIABLE used    \* set -> blocks of dl1, the latest first

MCvars == <<vars, used>>

MCInit == Init /\ used = [s \in DOMAIN h.dl1.sets |-> h.dl1.sets[s].way]

\* The blocks an access of address a to dl1 finds, before and after.
Before(a) == Holds("dl1", a)
After(a)  == LET g == G("dl1") s == CACHE_SET(g, a)
             IN  {f \in Frames(g) : /\ h'.dl1.sets[s].blks[f].valid
                                    /\ h'.dl1.sets[s].blks[f].tag = CACHE_TAG(g, a)}

Touch(a) ==
  LET s == CACHE_SET(G("dl1"), a)
  IN  used' = [used EXCEPT ![s] =
        IF config.policy = "FIFO" /\ Before(a) # {} THEN @
        ELSE LET f == CHOOSE f \in After(a) : TRUE
             IN  <<f>> \o SelectSeq(@, LAMBDA e : e # f)]

MCNext ==
  \/ \E op \in Operation, random \in Frames(G("dl1")) :
       /\ config.policy # "Random" => random = 1
       /\ \E a \in AddrsOf(op) :
            /\ Reference(op, a, random)
            /\ IF PointersOf(op).l1 = "dl1" THEN Touch(a) ELSE UNCHANGED used
  \/ Syscall /\ UNCHANGED used
  \/ \E dt \in {1, MaxBacklog + mem_lat + 8} : Tick(dt) /\ UNCHANGED used

MCSpec == MCInit /\ [][MCNext]_MCvars

\* The way list orders the blocks as the policy says: LRU by their last use,
\* although a fast hit does not touch the list, and FIFO by their fill.
WayOrder ==
  config.policy # "Random" =>
    \A s \in DOMAIN used : h.dl1.sets[s].way = used[s]

-----------------------------------------------------------------------------
Config(sim, il1, il2, dl1, dl2, itlb, dtlb, policy, flush) ==
  [sim |-> sim, il1 |-> il1, il2 |-> il2, dl1 |-> dl1, dl2 |-> dl2,
   itlb |-> itlb, dtlb |-> dtlb, policy |-> policy,
   flush_on_syscalls |-> flush]

MCConfigs ==
  {Config("sim-outorder", "il1", "dl2", "dl1", "dl2", "none", "none", "LRU", FALSE),
   Config("sim-outorder", "none", "none", "dl1", "none", "none", "dtlb", "FIFO", FALSE),
   Config("sim-cache", "il1", "il2", "dl1", "dl2", "itlb", "none", "Random", TRUE),
   Config("sim-cache", "dl2", "none", "dl1", "dl2", "none", "none", "LRU", TRUE),
   Config("sim-cache", "dl1", "none", "dl1", "none", "none", "none", "FIFO", TRUE),
   Config("sim-cache", "il1", "none", "none", "none", "none", "dtlb", "LRU", TRUE),
   \* rejected by sim_check_options
   Config("sim-cache", "dl1", "none", "none", "none", "none", "none", "LRU", TRUE)}

\* One datum per address; blocks of one address at level one, of two at
\* level two.  The l1 data cache has one set of two ways and hash chains.
MCgeometry ==
  [nm \in CacheNames |->
     CASE nm = "dl1" -> [nsets |-> 1, bsize |-> 1, assoc |-> 2, policy |-> "LRU",
                         hit_latency |-> 1, hsize |-> 2]
       [] nm = "il1" -> [nsets |-> 2, bsize |-> 1, assoc |-> 1, policy |-> "LRU",
                         hit_latency |-> 1, hsize |-> 0]
       [] nm = "dl2" -> [nsets |-> 1, bsize |-> 2, assoc |-> 1, policy |-> "LRU",
                         hit_latency |-> 2, hsize |-> 0]
       [] nm = "il2" -> [nsets |-> 1, bsize |-> 2, assoc |-> 1, policy |-> "FIFO",
                         hit_latency |-> 2, hsize |-> 0]
       [] OTHER      -> [nsets |-> 1, bsize |-> 2, assoc |-> 1, policy |-> "LRU",
                         hit_latency |-> 1, hsize |-> 0]]

-----------------------------------------------------------------------------
(* One part per behaviour.                                                 *)

VARIABLES
  part,        \* "memory", "bpred", "specmem" or "specregs"
  pred, window, outcomes, jumps, calls,
  isa, bugcompat_mode, regs, spec_regs, use_spec, ptab, store_htable,
  bucket_free_list, path,
  spec_mode    \* of the branches in flight and of the wrong path

memory == <<h, clock, used>>
bpred  == <<pred, window, outcomes, jumps, calls>>
tracer == <<isa, bugcompat_mode, regs, spec_regs, use_spec, ptab, store_htable,
            bucket_free_list, path>>

NoMemory == h = 0 /\ clock = 0 /\ used = 0
NoBpred  == pred = 0 /\ window = 0 /\ outcomes = 0 /\ jumps = 0 /\ calls = 0
NoTracer == /\ isa = 0 /\ bugcompat_mode = 0 /\ regs = 0 /\ spec_regs = 0 /\ use_spec = 0
            /\ ptab = 0 /\ store_htable = 0 /\ bucket_free_list = 0 /\ path = 0

-----------------------------------------------------------------------------
(* One small predictor of each class, in sim-bpred and with each update    *)
(* stage of sim-outorder.                                                  *)

BranchAt == 2 :> "cond" @@ 3 :> "call" @@ 4 :> "ret" @@ 5 :> "call"
              @@ 6 :> "jr" @@ 7 :> "cond"

Targets == 2 :> {6} @@ 3 :> {7} @@ 4 :> {4, 6} @@ 5 :> {2} @@ 6 :> {2, 3} @@ 7 :> {3}

Predictor(class, bimod, l1, l2, width, xor, sets, assoc, ras) ==
  [class |-> class, bimod_size |-> bimod, l1size |-> l1, l2size |-> l2,
   shift_width |-> width, xor |-> xor, meta_size |-> bimod,
   btb_sets |-> sets, btb_assoc |-> assoc, retstack_size |-> ras]

In(p, stages, prog) == {[prog |-> prog, stage |-> s] @@ p : s \in stages}

All == {"immediate", "spec_ID", "spec_WB", "spec_CT"}

Predictors ==
  UNION {In(Predictor("2bit", 1, 0, 0, 0, FALSE, 1, 2, 2), {"immediate"}, {2, 3, 4, 5, 6}),
         In(Predictor("2bit", 2, 0, 0, 0, FALSE, 2, 1, 0), All, {2, 4, 6}),
         In(Predictor("2bit", 1, 0, 0, 0, FALSE, 1, 2, 2), {"spec_WB"}, {2, 3, 4}),
         In(Predictor("2lev", 0, 1, 2, 2, TRUE, 1, 1, 0), All, {2, 6}),
         In(Predictor("comb", 1, 1, 2, 1, FALSE, 1, 1, 0), {"immediate", "spec_ID"}, {2, 7}),
         In(Predictor("taken", 0, 0, 0, 0, FALSE, 0, 0, 0), {"immediate", "spec_CT"}, {2, 3, 4}),
         In(Predictor("nottaken", 0, 0, 0, 0, FALSE, 0, 0, 0), {"immediate", "spec_WB"}, {2, 3, 4}),
         \* rejected by bpred_create
         In(Predictor("2bit", 3, 0, 0, 0, FALSE, 1, 2, 2), {"immediate"}, {2})}

BP == INSTANCE BranchPrediction WITH
        Configs <- Predictors, OpAt <- BranchAt, TargetsOf <- Targets, WindowSize <- 2

-----------------------------------------------------------------------------
(* Wrong paths that reference two pages of two bytes, with accesses that   *)
(* overlap, straddle a page or are not aligned, and one hash chain for     *)
(* all; and wrong paths that use a register and a pair of registers.       *)

SM == INSTANCE SpeculativeState WITH
        RegNames <- {"r1"}, Pairs <- {}, Values <- {0, 1},
        Accesses <- {<<0, 1>>, <<0, 2>>, <<2, 1>>, <<1, 2>>}, ValidAddrs <- {0, 1, 2},
        MD_PAGE_SIZE <- 2, MEM_PTAB_SIZE <- 1, STORE_HASH_SIZE <- 1

SR == INSTANCE SpeculativeState WITH
        RegNames <- {"r1", "f0", "f1"}, Pairs <- {{"f0", "f1"}}, Values <- {0, 1},
        Accesses <- {<<0, 1>>}, ValidAddrs <- {0, 1, 2},
        MD_PAGE_SIZE <- 2, MEM_PTAB_SIZE <- 1, STORE_HASH_SIZE <- 1

ASSUME TracerConstants == SM!ConstantsOK /\ SR!ConstantsOK

-----------------------------------------------------------------------------
allvars == <<part, config, memory, bpred, tracer, spec_mode>>

PartsInit ==
  \/ part = "memory"   /\ MCInit /\ NoBpred /\ NoTracer /\ spec_mode = 0
  \/ part = "bpred"    /\ BP!Init /\ NoMemory /\ NoTracer
  \/ part = "specmem"  /\ SM!Init /\ NoMemory /\ NoBpred /\ config = 0
  \/ part = "specregs" /\ SR!Init /\ NoMemory /\ NoBpred /\ config = 0

PartsNext ==
  /\ UNCHANGED part
  /\ \/ part = "memory"   /\ MCNext /\ UNCHANGED <<bpred, tracer, spec_mode>>
     \/ part = "bpred"    /\ BP!Next /\ UNCHANGED <<memory, tracer>>
     \/ part = "specmem"  /\ SM!Next /\ UNCHANGED <<config, memory, bpred>>
     \/ part = "specregs" /\ SR!Next /\ UNCHANGED <<config, memory, bpred>>

PartsSpec == PartsInit /\ [][PartsNext]_allvars

\* cache.c: the last value stored at an address is never lost.
StoreNeverLost == part = "memory" => StoresKept

\* sim-cache.c: after a flush main memory has every value stored.
FlushComplete == part = "memory" => FlushReachesMemory

\* cache.c: a block is found exactly where it is, by every way of looking.
LookupIsExact == part = "memory" => LookupExact

\* cache.c: the way list orders the blocks as the replacement policy says.
WaysInOrder == part = "memory" => WayOrder

\* bpred.c: the BTB holds the branches taken last, each once.
BTBPrecise == part = "bpred" => BP!BTBPrecise

\* bpred.c: the history registers hold the last outcomes.
HistoryExact == part = "bpred" => BP!HistoryExact

\* bpred.c: the return address stack survives recovery.
ReturnStackIntact == part = "bpred" => BP!ReturnStackIntact

\* sim-outorder.c: a wrong path runs on a state of its own.
WrongPathExact == /\ part = "specmem" => SM!WrongPathExact
                  /\ part = "specregs" => SR!WrongPathExact
=============================================================================
