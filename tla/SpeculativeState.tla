-------------------------- MODULE SpeculativeState --------------------------
(***************************************************************************)
(* The register and memory state of sim-outorder's trace generator.        *)
(* ruu_dispatch() executes every instruction when it is dispatched, also   *)
(* those fetched down a wrong path.  From the first mispredicted branch on *)
(* it is in spec_mode: register writes go to a copy beside the register    *)
(* file, with a bitmap of the registers to take from the copy, and stores  *)
(* go to a hash table of buckets laid over the memory, until               *)
(* tracer_recover() drops both.  The memory below is the inverted page     *)
(* table of memory.c, whose chains, like those of the store table, are     *)
(* reordered by every lookup that does not hit at the head.                *)
(*                                                                         *)
(* The host has the target's byte order.  A register holds one value; a    *)
(* floating point double of PISA is a pair of registers.                   *)
(***************************************************************************)
EXTENDS Naturals, Sequences, FiniteSets, SequencesExt, FiniteSetsExt, Functions

CONSTANTS
  RegNames,            \* registers the program uses
  Pairs,               \* the PISA register pairs: sets of two registers
  Values,              \* values of a register and of a byte, 0 among them
  Accesses,            \* the <<address, size>> of the program's accesses
  ValidAddrs,          \* addresses for which MD_VALID_ADDR holds
  MD_PAGE_SIZE, MEM_PTAB_SIZE, STORE_HASH_SIZE

\* What the proofs take from the programs: pairs are of registers, memory is
\* accessed in the sizes of the targets' loads and stores, tables have entries.
ConstantsOK ==
  /\ Pairs \subseteq SUBSET RegNames
  /\ 0 \in Values
  /\ Accesses \subseteq Nat \X {1, 2, 4, 8}
  /\ {MD_PAGE_SIZE, MEM_PTAB_SIZE, STORE_HASH_SIZE} \subseteq Nat \ {0}

VARIABLES
  isa,                 \* "pisa" or "alpha"
  bugcompat_mode,
  spec_mode,
  regs, spec_regs,     \* architected registers and their speculative copy
  use_spec,            \* bits set in use_spec_R, use_spec_F, use_spec_C
  ptab,                \* set -> chain of [tag, page]
  store_htable,        \* index -> chain of [bucket, addr, data]
  bucket_free_list,    \* chain of buckets, whose contents nobody reads
  path                 \* observer: what this wrong path wrote, and where
                       \* the program stood when it was entered

vars == <<isa, bugcompat_mode, spec_mode, regs, spec_regs, use_spec, ptab,
          store_htable, bucket_free_list, path>>

\* The function g with the values of f laid over it.
Over(f, g) ==
  [x \in DOMAIN f \cup DOMAIN g |-> IF x \in DOMAIN f THEN f[x] ELSE g[x]]

Bytes(a, n) == a .. (a + n - 1)

Addrs == UNION {Bytes(x[1], x[2]) : x \in Accesses}

\* One bucket for each address a table can hold.
Buckets == 1 .. Cardinality(Accesses)

-----------------------------------------------------------------------------
(* memory.c: the page table.                                               *)

MEM_PTAB_SET(a) == (a \div MD_PAGE_SIZE) % MEM_PTAB_SIZE

MEM_PTAB_TAG(a) == a \div (MD_PAGE_SIZE * MEM_PTAB_SIZE)

MEM_OFFSET(a) == a % MD_PAGE_SIZE

ZeroPage == [o \in 0 .. MD_PAGE_SIZE - 1 |-> 0]

PTEs(pt, a) == pt[MEM_PTAB_SET(a)]

Allocated(pt, a) == \E i \in DOMAIN PTEs(pt, a) : PTEs(pt, a)[i].tag = MEM_PTAB_TAG(a)

\* The entry that satisfies P, if any, is moved to the front of the chain.
MoveToFront(chain, P(_)) ==
  LET i == SelectInSeq(chain, P)
  IN  IF i = 0 THEN chain ELSE <<chain[i]>> \o RemoveAt(chain, i)

\* MEM_PAGE: a hit on the first entry changes nothing, and mem_translate()
\* moves any other to the front.
mem_translate(pt, a) ==
  [pt EXCEPT ![MEM_PTAB_SET(a)] =
     MoveToFront(@, LAMBDA e : e.tag = MEM_PTAB_TAG(a))]

\* A byte of a page that is not allocated reads as zero.
ByteOf(pt, a) ==
  IF Allocated(pt, a)
  THEN Head(PTEs(mem_translate(pt, a), a)).page[MEM_OFFSET(a)]
  ELSE 0

\* MEM_TICKLE
mem_newpage(pt, a) ==
  IF Allocated(pt, a) THEN mem_translate(pt, a)
  ELSE [pt EXCEPT ![MEM_PTAB_SET(a)] =
          <<[tag |-> MEM_PTAB_TAG(a), page |-> ZeroPage]>> \o @]

Aligned(x) == x[1] % x[2] = 0

\* A naturally aligned access lies within one page.  Its first byte brings the
\* page to the front of the chain, where the others find it.
mem_access_write(pt, x, v) ==
  LET off == MEM_OFFSET(x[1])
  IN  [mem_newpage(pt, x[1]) EXCEPT ![MEM_PTAB_SET(x[1])][1].page =
         [o \in DOMAIN @ |-> IF o \in Bytes(off, x[2]) THEN v[o - off + 1] ELSE @[o]]]

-----------------------------------------------------------------------------
(* sim-outorder.c: the registers.  In the PISA build the two halves of a   *)
(* double share the bit of the even one.                                   *)

BitOf(r) ==
  LET pair == {p \in Pairs : isa = "pisa" /\ r \in p}
  IN  IF pair = {} THEN {r} ELSE UNION pair

\* GPR, FPR_L, FPR_F, FPR_D, FPR, HI, LO, FCC, FPCR, UNIQ
ReadReg(r) == IF BitOf(r) \subseteq use_spec THEN spec_regs[r] ELSE regs[r]

Assign(f, S, v) == [r \in DOMAIN f |-> IF r \in S THEN v ELSE f[r]]

\* SET_GPR and the others; a double is written to both halves.  simoo_reg_obj()
\* gives the debugger the same accessors.
WriteRegs(rs, v) ==
  /\ IF spec_mode
     THEN /\ spec_regs' = Assign(spec_regs, rs, v)
          /\ use_spec' = use_spec \cup UNION {BitOf(r) : r \in rs}
          /\ path' = [path EXCEPT !.regs = Over([r \in rs |-> v], @)]
          /\ UNCHANGED regs
     ELSE /\ regs' = Assign(regs, rs, v)
          /\ UNCHANGED <<spec_regs, use_spec, path>>
  /\ UNCHANGED <<isa, bugcompat_mode, spec_mode, ptab, store_htable,
                 bucket_free_list>>

-----------------------------------------------------------------------------
(* The speculative store table.                                            *)

\* The addresses of an instance are below 256, so the higher bytes that the
\* macro folds in are zero.
HASH_ADDR(a) == a % STORE_HASH_SIZE

\* Unaligned and invalid accesses give zeros and touch nothing.
Denied(x) == ~Aligned(x) \/ x[1] \notin ValidAddrs

Found(chain, a) == \E i \in DOMAIN chain : chain[i].addr = a

\* The chain after the lookup that every access makes.
Lookup(a) ==
  [store_htable EXCEPT ![HASH_ADDR(a)] = MoveToFront(@, LAMBDA e : e.addr = a)]

\* The buckets of all chains, in the order in which tracer_recover() leaves
\* them on the free list.
Released ==
  LET chains == FlattenSeq([i \in 1 .. STORE_HASH_SIZE |-> store_htable[i - 1]])
  IN  Reverse([i \in DOMAIN chains |-> chains[i].bucket])

\* The free list, with a new bucket from calloc() if it is empty.
FreeBuckets ==
  IF bucket_free_list # <<>> THEN bucket_free_list
  ELSE <<Min(Buckets \ ToSet(Released))>>

\* What the switch on the access size reads from a bucket or from memory.
SpecRead(x) ==
  CASE Denied(x) -> [i \in 1 .. x[2] |-> 0]
    [] ~Denied(x) /\ Found(store_htable[HASH_ADDR(x[1])], x[1]) ->
         SubSeq(Head(Lookup(x[1])[HASH_ADDR(x[1])]).data, 1, x[2])
    [] OTHER -> [i \in 1 .. x[2] |-> ByteOf(ptab, x[1] + i - 1)]

Overwrite(data, v) == [i \in DOMAIN data |-> IF i <= Len(v) THEN v[i] ELSE data[i]]

EmptyData == [i \in 1 .. Max({x[2] : x \in Accesses}) |-> 0]

\* spec_mem_access() with cmd = Read: the bucket moves to the front, or the
\* page of a miss does.
SpecLoad(x) ==
  /\ spec_mode /\ ~Denied(x)
  /\ store_htable' = Lookup(x[1])
  /\ ptab' = IF Found(store_htable[HASH_ADDR(x[1])], x[1]) THEN ptab
             ELSE mem_translate(ptab, x[1])
  /\ UNCHANGED <<isa, bugcompat_mode, spec_mode, regs, spec_regs, use_spec,
                 bucket_free_list, path>>

\* spec_mem_access() with cmd = Write.  In bug compatibility mode the bucket
\* that was taken from the free list is not entered in the table.
SpecStore(x, v) ==
  LET i     == HASH_ADDR(x[1])
      found == Found(store_htable[i], x[1])
      new   == [bucket |-> Head(FreeBuckets), addr |-> x[1], data |-> EmptyData]
      chain == IF found THEN Lookup(x[1])[i] ELSE <<new>> \o store_htable[i]
  IN  /\ spec_mode /\ ~Denied(x)
      /\ bucket_free_list' = IF found THEN bucket_free_list ELSE Tail(FreeBuckets)
      /\ store_htable' =
           IF ~found /\ bugcompat_mode THEN store_htable
           ELSE [store_htable EXCEPT ![i] =
                   [chain EXCEPT ![1].data = Overwrite(@, v)]]
      /\ path' = [path EXCEPT
                    !.writes = @ \cup {x},
                    !.mem = Over([a \in Bytes(x[1], x[2]) |-> v[a - x[1] + 1]], @)]
      /\ UNCHANGED <<isa, bugcompat_mode, spec_mode, regs, spec_regs, use_spec, ptab>>

\* __WRITE_SPECMEM and __READ_SPECMEM outside spec_mode: mem_access().  An
\* unaligned access is a fault, which ends the run.
Store(x, v) ==
  /\ ~spec_mode /\ Aligned(x)
  /\ ptab' = mem_access_write(ptab, x, v)
  /\ UNCHANGED <<isa, bugcompat_mode, spec_mode, regs, spec_regs, use_spec,
                 store_htable, bucket_free_list, path>>

Load(x) ==
  /\ ~spec_mode /\ Aligned(x)
  /\ ptab' = mem_translate(ptab, x[1])
  /\ UNCHANGED <<isa, bugcompat_mode, spec_mode, regs, spec_regs, use_spec,
                 store_htable, bucket_free_list, path>>

-----------------------------------------------------------------------------
(* Entering and leaving the wrong path.                                    *)

NoPath == [regs |-> <<>>, mem |-> <<>>, writes |-> {}, entry |-> <<>>]

\* tracer_init(): the static arrays start as zero.
Init ==
  /\ isa \in {"pisa", "alpha"} /\ bugcompat_mode \in BOOLEAN
  /\ spec_mode = FALSE
  /\ regs = [r \in RegNames |-> 0] /\ spec_regs = [r \in RegNames |-> 0]
  /\ use_spec = {}
  /\ ptab = [s \in 0 .. MEM_PTAB_SIZE - 1 |-> <<>>]
  /\ store_htable = [i \in 0 .. STORE_HASH_SIZE - 1 |-> <<>>]
  /\ bucket_free_list = <<>>
  /\ path = NoPath

\* The architected state, as the program sees it.
Architected == [regs |-> regs, mem |-> [a \in Addrs |-> ByteOf(ptab, a)]]

\* ruu_dispatch() executes the branch whose prediction is wrong.
Misspeculate ==
  /\ ~spec_mode
  /\ spec_mode' = TRUE
  /\ path' = [NoPath EXCEPT !.entry = Architected]
  /\ UNCHANGED <<isa, bugcompat_mode, regs, spec_regs, use_spec, ptab,
                 store_htable, bucket_free_list>>

tracer_recover_keeps_bits ==
  /\ spec_mode
  /\ spec_mode' = FALSE
  /\ bucket_free_list' = Released \o bucket_free_list
  /\ store_htable' = [i \in DOMAIN store_htable |-> <<>>]
  /\ path' = NoPath
  /\ UNCHANGED <<isa, bugcompat_mode, regs, spec_regs, use_spec, ptab>>

tracer_recover ==
  /\ spec_mode
  /\ spec_mode' = FALSE
  /\ use_spec' = {}
  /\ bucket_free_list' = Released \o bucket_free_list
  /\ store_htable' = [i \in DOMAIN store_htable |-> <<>>]
  /\ path' = NoPath
  /\ UNCHANGED <<isa, bugcompat_mode, regs, spec_regs, ptab>>

Next ==
  \/ \E rs \in {{r} : r \in RegNames} \cup Pairs, v \in Values : WriteRegs(rs, v)
  \/ \E x \in Accesses : SpecLoad(x) \/ Load(x)
  \/ \E x \in Accesses : \E v \in [1 .. x[2] -> Values] :
       SpecStore(x, v) \/ Store(x, v)
  \/ Misspeculate
  \/ tracer_recover

Spec == Init /\ [][Next]_vars

-----------------------------------------------------------------------------
\* A register of a PISA pair of which this path wrote only the other half:
\* its copy was never made and is left from an earlier path.
HalfWritten(r) ==
  /\ isa = "pisa"
  /\ r \notin DOMAIN path.regs
  /\ \E p \in Pairs : r \in p /\ p \cap DOMAIN path.regs # {}

\* Accesses whose bytes no other access of this path has written in part.
Uncombined(x) ==
  \A w \in path.writes : w = x \/ Bytes(w[1], w[2]) \cap Bytes(x[1], x[2]) = {}

\* Whatever a wrong path executes, the architected registers and memory stay
\* as they were at the mispredicted branch.
ArchitectedIntact == spec_mode => Architected = path.entry

\* A wrong path reads the registers it wrote, and the architected ones else.
RegistersExact ==
  spec_mode =>
    \A r \in RegNames :
      ~HalfWritten(r) => ReadReg(r) = Over(path.regs, path.entry.regs)[r]

\* A wrong path loads what it stored, and the architected bytes else.
StoresExact ==
  spec_mode /\ ~bugcompat_mode =>
    \A x \in {y \in Accesses : ~Denied(y) /\ Uncombined(y)} :
      SpecRead(x) = [i \in 1 .. x[2] |-> Over(path.mem, path.entry.mem)[x[1] + i - 1]]

\* Nothing of a wrong path is left when it has been recovered from.
NothingLeft ==
  ~spec_mode =>
    /\ \A r \in RegNames : ReadReg(r) = regs[r]
    /\ \A i \in DOMAIN store_htable : store_htable[i] = <<>>

\* No page is entered twice in the chains of the page table.
PagesDistinct ==
  \A s \in DOMAIN ptab : IsInjective([i \in DOMAIN ptab[s] |-> ptab[s][i].tag])

\* No bucket is in two places, in the chains and on the free list.
BucketsDistinct == IsInjective(Released \o bucket_free_list)

\* A wrong path runs on a state of its own, however often paths are entered
\* and left.  Excepted are what the code itself gives up: halves of a register
\* pair written on their own, accesses that overlap a store of another size or
\* address, and stores in bug compatibility mode.
WrongPathExact ==
  ArchitectedIntact /\ RegistersExact /\ StoresExact /\ NothingLeft
    /\ PagesDistinct /\ BucketsDistinct
=============================================================================
