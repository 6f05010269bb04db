----------------------- MODULE SpeculativeStateProofs -----------------------
(***************************************************************************)
(* A wrong path runs on a state of its own, for every program, every       *)
(* geometry of the tables and every sequence of wrong paths.               *)
(***************************************************************************)
EXTENDS SpeculativeState, TLAPS

-----------------------------------------------------------------------------
(***************************************************************************)
(* Chains.                                                                 *)
(***************************************************************************)
Chain(c) == c \in Seq(Range(c))

\* Entry i brought to the front.
Fronted(c, i) == <<c[i]>> \o RemoveAt(c, i)

\* Where the entry at place k of the reordered chain was.
Came(i, k) == IF k = 1 THEN i ELSE IF k <= i THEN k - 1 ELSE k

\* A sequence over any set is a chain.
LEMMA SeqIsChain ==
  ASSUME NEW S, NEW c \in Seq(S)
  PROVE  Chain(c)
BY DEF Chain, Range

\* A function on 1 .. n is a sequence.
LEMMA FcnIsSeq ==
  ASSUME NEW S, NEW n \in Nat, NEW d \in [1 .. n -> S]
  PROVE  d \in Seq(S)
OBVIOUS

\* What a concatenation holds.
LEMMA Joined ==
  ASSUME NEW S, NEW u \in Seq(S), NEW v \in Seq(S)
  PROVE  /\ u \o v \in Seq(S)
         /\ Len(u \o v) = Len(u) + Len(v)
         /\ \A k \in 1 .. Len(u) + Len(v) :
              (u \o v)[k] = IF k <= Len(u) THEN u[k] ELSE v[k - Len(u)]
OBVIOUS

\* Moving an entry to the front permutes the chain.
LEMMA FrontPermutes ==
  ASSUME NEW c, Chain(c), NEW i \in DOMAIN c
  PROVE  /\ Chain(Fronted(c, i))
         /\ DOMAIN Fronted(c, i) = DOMAIN c
         /\ \A k \in DOMAIN c : Fronted(c, i)[k] = c[Came(i, k)]
<1> DEFINE S == Range(c)
<1>1. c \in Seq(S) /\ i \in 1 .. Len(c) /\ Len(c) \in Nat
  BY DEF Chain
<1> HIDE DEF S
<1>2. /\ SubSeq(c, 1, i - 1) \in Seq(S)
      /\ Len(SubSeq(c, 1, i - 1)) = i - 1
      /\ \A k \in 1 .. i - 1 : SubSeq(c, 1, i - 1)[k] = c[k]
  BY <1>1
<1>3. /\ SubSeq(c, i + 1, Len(c)) \in Seq(S)
      /\ Len(SubSeq(c, i + 1, Len(c))) = Len(c) - i
      /\ \A k \in 1 .. Len(c) - i : SubSeq(c, i + 1, Len(c))[k] = c[k + i]
  BY <1>1
<1>4. /\ RemoveAt(c, i) \in Seq(S)
      /\ Len(RemoveAt(c, i)) = Len(c) - 1
      /\ \A k \in 1 .. Len(c) - 1 :
           RemoveAt(c, i)[k] = IF k < i THEN c[k] ELSE c[k + 1]
  <2> DEFINE u == SubSeq(c, 1, i - 1)
             v == SubSeq(c, i + 1, Len(c))
  <2>1. RemoveAt(c, i) = u \o v
    BY DEF RemoveAt
  <2>2. u \in Seq(S) /\ v \in Seq(S) /\ Len(u) = i - 1 /\ Len(v) = Len(c) - i
    BY <1>2, <1>3
  <2> HIDE DEF u, v
  <2>3. /\ u \o v \in Seq(S)
        /\ Len(u \o v) = Len(c) - 1
        /\ \A k \in 1 .. Len(c) - 1 :
             (u \o v)[k] = IF k <= i - 1 THEN u[k] ELSE v[k - (i - 1)]
    <3>1. /\ u \o v \in Seq(S)
          /\ Len(u \o v) = Len(u) + Len(v)
          /\ \A k \in 1 .. Len(u) + Len(v) :
               (u \o v)[k] = IF k <= Len(u) THEN u[k] ELSE v[k - Len(u)]
      BY <2>2, Joined
    <3>2. Len(u) + Len(v) = Len(c) - 1
      BY <1>1, <2>2
    <3> QED BY <2>2, <3>1, <3>2
  <2>4. \A k \in 1 .. i - 1 : u[k] = c[k]
    BY <1>2 DEF u
  <2>5. \A k \in 1 .. Len(c) - i : v[k] = c[k + i]
    BY <1>3 DEF v
  <2>6. ASSUME NEW k \in 1 .. Len(c) - 1, ~(k < i)
        PROVE  v[k - (i - 1)] = c[k + 1]
    <3>1. k - (i - 1) \in 1 .. Len(c) - i /\ (k - (i - 1)) + i = k + 1
      BY <1>1, <2>6
    <3> QED BY <2>5, <3>1
  <2>7. \A k \in 1 .. Len(c) - 1 :
          (u \o v)[k] = IF k < i THEN c[k] ELSE c[k + 1]
    BY <1>1, <2>3, <2>4, <2>6
  <2> QED BY <2>1, <2>3, <2>7
<1> HIDE DEF RemoveAt
<1>5. <<c[i]>> \in Seq(S) /\ Len(<<c[i]>>) = 1 /\ <<c[i]>>[1] = c[i]
  BY <1>1
<1>6. /\ Fronted(c, i) \in Seq(S)
      /\ Len(Fronted(c, i)) = Len(c)
      /\ \A k \in 1 .. Len(c) :
           Fronted(c, i)[k] = IF k = 1 THEN c[i] ELSE RemoveAt(c, i)[k - 1]
  BY <1>1, <1>4, <1>5 DEF Fronted
<1>7. \A k \in 1 .. Len(c) : Fronted(c, i)[k] = c[Came(i, k)]
  BY <1>1, <1>4, <1>6 DEF Came
<1> QED BY <1>1, <1>6, <1>7, SeqIsChain

\* MoveToFront, as the page table and the store table use it.
First(c, I) ==
  LET i == IF I # {} THEN Min(I) ELSE 0
  IN  IF i = 0 THEN c ELSE <<c[i]>> \o RemoveAt(c, i)

Tagged(c, t) == {i \in 1 .. Len(c) : c[i].tag = t}

Addressed(c, a) == {i \in 1 .. Len(c) : c[i].addr = a}

\* mem_translate() looks for the tag of the page.
LEMMA MovesByTag ==
  ASSUME NEW c, NEW t
  PROVE  MoveToFront(c, LAMBDA e : e.tag = t) = First(c, Tagged(c, t))
BY DEF MoveToFront, SelectInSeq, First, Tagged

\* spec_mem_access() looks for the address of the store.
LEMMA MovesByAddr ==
  ASSUME NEW c, NEW a
  PROVE  MoveToFront(c, LAMBDA e : e.addr = a) = First(c, Addressed(c, a))
BY DEF MoveToFront, SelectInSeq, First, Addressed

\* No two entries of a page table chain have one tag.
TagsDiffer(c) == \A i, j \in DOMAIN c : c[i].tag = c[j].tag => i = j

\* No two buckets of a chain of the store table have one address.
AddrsDiffer(c) == \A i, j \in DOMAIN c : c[i].addr = c[j].addr => i = j

\* The least member of a set of one.
LEMMA MinOfOne ==
  ASSUME NEW i \in Nat
  PROVE  Min({i}) = i
BY DEF Min

\* The only entry looked for goes to the front; nothing moves without one.
LEMMA FirstOfOne ==
  ASSUME NEW c, Chain(c), NEW i \in DOMAIN c
  PROVE  First(c, {i}) = Fronted(c, i)
<1>1. i \in Nat /\ i # 0
  BY DEF Chain
<1> QED BY <1>1, MinOfOne DEF First, Fronted

\* A lookup that finds nothing moves nothing.
LEMMA FirstOfNone ==
  ASSUME NEW c
  PROVE  First(c, {}) = c
BY DEF First

\* What a lookup by tag does to a chain.
LEMMA TagLookup ==
  ASSUME NEW c, Chain(c), TagsDiffer(c), NEW t
  PROVE  /\ \A i \in DOMAIN c :
              c[i].tag = t => First(c, Tagged(c, t)) = Fronted(c, i)
         /\ (\A i \in DOMAIN c : c[i].tag # t) => First(c, Tagged(c, t)) = c
<1>1. DOMAIN c = 1 .. Len(c)
  BY DEF Chain
<1>2. ASSUME NEW i \in DOMAIN c, c[i].tag = t
      PROVE  First(c, Tagged(c, t)) = Fronted(c, i)
  <2>1. Tagged(c, t) = {i}
    BY <1>1, <1>2 DEF Tagged, TagsDiffer
  <2> QED BY <2>1, FirstOfOne
<1>3. ASSUME \A i \in DOMAIN c : c[i].tag # t
      PROVE  First(c, Tagged(c, t)) = c
  <2>1. Tagged(c, t) = {}
    BY <1>1, <1>3 DEF Tagged
  <2> QED BY <2>1, FirstOfNone
<1> QED BY <1>2, <1>3

\* What a lookup by address does to a chain.
LEMMA AddrLookup ==
  ASSUME NEW c, Chain(c), AddrsDiffer(c), NEW a
  PROVE  /\ \A i \in DOMAIN c :
              c[i].addr = a => First(c, Addressed(c, a)) = Fronted(c, i)
         /\ (\A i \in DOMAIN c : c[i].addr # a) => First(c, Addressed(c, a)) = c
<1>1. DOMAIN c = 1 .. Len(c)
  BY DEF Chain
<1>2. ASSUME NEW i \in DOMAIN c, c[i].addr = a
      PROVE  First(c, Addressed(c, a)) = Fronted(c, i)
  <2>1. Addressed(c, a) = {i}
    BY <1>1, <1>2 DEF Addressed, AddrsDiffer
  <2> QED BY <2>1, FirstOfOne
<1>3. ASSUME \A i \in DOMAIN c : c[i].addr # a
      PROVE  First(c, Addressed(c, a)) = c
  <2>1. Addressed(c, a) = {}
    BY <1>1, <1>3 DEF Addressed
  <2> QED BY <2>1, FirstOfNone
<1> QED BY <1>2, <1>3

\* A lookup permutes the chain: every entry is still there, none is new.
Permuted(c, d) ==
  /\ Chain(d) /\ DOMAIN d = DOMAIN c
  /\ \A i \in DOMAIN c : \E k \in DOMAIN c : d[k] = c[i]
  /\ \A k \in DOMAIN c : \E i \in DOMAIN c : d[k] = c[i]

\* Moving an entry to the front permutes the chain and keeps its keys apart.
LEMMA FrontKeepsEntries ==
  ASSUME NEW c, Chain(c), NEW i \in DOMAIN c
  PROVE  /\ Permuted(c, Fronted(c, i))
         /\ TagsDiffer(c) => TagsDiffer(Fronted(c, i))
         /\ AddrsDiffer(c) => AddrsDiffer(Fronted(c, i))
         /\ Fronted(c, i)[1] = c[i] /\ 1 \in DOMAIN c
<1>1. /\ DOMAIN c = 1 .. Len(c) /\ Len(c) \in Nat /\ i \in 1 .. Len(c)
  BY DEF Chain
<1>2. /\ Chain(Fronted(c, i))
      /\ DOMAIN Fronted(c, i) = DOMAIN c
      /\ \A k \in DOMAIN c : Fronted(c, i)[k] = c[Came(i, k)]
  BY FrontPermutes
<1>3. \A k \in DOMAIN c : Came(i, k) \in DOMAIN c
  BY <1>1 DEF Came
<1>4. \A k, l \in DOMAIN c : Came(i, k) = Came(i, l) => k = l
  BY <1>1 DEF Came
<1>5. \A j \in DOMAIN c : \E k \in DOMAIN c : Came(i, k) = j
  <2> SUFFICES ASSUME NEW j \in DOMAIN c PROVE \E k \in DOMAIN c : Came(i, k) = j
    OBVIOUS
  <2>1. CASE j = i
    BY <1>1, <2>1 DEF Came
  <2>2. CASE j < i
    <3>1. j + 1 \in DOMAIN c /\ Came(i, j + 1) = j
      BY <1>1, <2>2 DEF Came
    <3> QED BY <3>1
  <2>3. CASE j > i
    BY <1>1, <2>3 DEF Came
  <2> QED BY <1>1, <2>1, <2>2, <2>3
<1>6. Permuted(c, Fronted(c, i))
  BY <1>2, <1>3, <1>5 DEF Permuted
<1>7. TagsDiffer(c) => TagsDiffer(Fronted(c, i))
  BY <1>2, <1>3, <1>4 DEF TagsDiffer
<1>8. AddrsDiffer(c) => AddrsDiffer(Fronted(c, i))
  BY <1>2, <1>3, <1>4 DEF AddrsDiffer
<1>9. Fronted(c, i)[1] = c[i] /\ 1 \in DOMAIN c
  BY <1>1, <1>2 DEF Came
<1> QED BY <1>6, <1>7, <1>8, <1>9

-----------------------------------------------------------------------------
(***************************************************************************)
(* The page table.                                                         *)
(***************************************************************************)
PTabSets == 0 .. MEM_PTAB_SIZE - 1

Pages == [0 .. MD_PAGE_SIZE - 1 -> Values]

PTE == [tag : Nat, page : Pages]

PTabOK(pt) ==
  /\ pt = [s \in PTabSets |-> pt[s]]
  /\ \A s \in PTabSets :
       /\ Chain(pt[s]) /\ TagsDiffer(pt[s])
       /\ \A i \in DOMAIN pt[s] : pt[s][i] \in PTE

\* Every address has a set of the table and a tag.
LEMMA PTabIndex ==
  ASSUME ConstantsOK, NEW a \in Nat
  PROVE  /\ MEM_PTAB_SET(a) \in PTabSets
         /\ MEM_PTAB_TAG(a) \in Nat
         /\ MEM_OFFSET(a) \in 0 .. MD_PAGE_SIZE - 1
<1>1. /\ MD_PAGE_SIZE \in Nat /\ MD_PAGE_SIZE > 0
      /\ MEM_PTAB_SIZE \in Nat /\ MEM_PTAB_SIZE > 0
  BY DEF ConstantsOK
<1>2. a \div MD_PAGE_SIZE \in Nat
  BY <1>1
<1>3. MEM_PTAB_SET(a) \in PTabSets
  BY <1>1, <1>2 DEF MEM_PTAB_SET, PTabSets
<1>4. MD_PAGE_SIZE * MEM_PTAB_SIZE \in Nat /\ MD_PAGE_SIZE * MEM_PTAB_SIZE > 0
  BY <1>1
<1>5. MEM_PTAB_TAG(a) \in Nat
  BY <1>4 DEF MEM_PTAB_TAG
<1> QED BY <1>1, <1>3, <1>5 DEF MEM_OFFSET

\* What is known of the chain of an address.
LEMMA ChainOf ==
  ASSUME ConstantsOK, NEW pt, PTabOK(pt), NEW a \in Nat
  PROVE  /\ Chain(PTEs(pt, a)) /\ TagsDiffer(PTEs(pt, a))
         /\ \A i \in DOMAIN PTEs(pt, a) : PTEs(pt, a)[i] \in PTE
BY PTabIndex DEF PTabOK, PTEs

\* The table new has the chain c for the set of a, and the others of pt.
Replaced(pt, a, c, new) ==
  /\ new = [s \in PTabSets |-> new[s]]
  /\ new[MEM_PTAB_SET(a)] = c
  /\ \A s \in PTabSets : s # MEM_PTAB_SET(a) => new[s] = pt[s]

\* Replacing the chain of one set leaves the others.
LEMMA ReplacedChain ==
  ASSUME ConstantsOK, NEW pt, PTabOK(pt), NEW a \in Nat, NEW c, NEW new,
         new = [pt EXCEPT ![MEM_PTAB_SET(a)] = c]
  PROVE  Replaced(pt, a, c, new)
BY PTabIndex DEF PTabOK, Replaced

\* mem_translate() reorders one chain and loses no page.
LEMMA TranslateFacts ==
  ASSUME ConstantsOK, NEW pt, PTabOK(pt), NEW a \in Nat
  PROVE  /\ PTabOK(mem_translate(pt, a))
         /\ \A s \in PTabSets : Permuted(pt[s], mem_translate(pt, a)[s])
         /\ \A i \in DOMAIN PTEs(pt, a) :
              PTEs(pt, a)[i].tag = MEM_PTAB_TAG(a) =>
                /\ 1 \in DOMAIN PTEs(pt, a)
                /\ PTEs(mem_translate(pt, a), a)[1] = PTEs(pt, a)[i]
<1> DEFINE c == PTEs(pt, a)
           t == MEM_PTAB_TAG(a)
           d == First(c, Tagged(c, t))
           new == mem_translate(pt, a)
<1>1. new = [pt EXCEPT ![MEM_PTAB_SET(a)] = d]
  BY MovesByTag DEF mem_translate, PTEs
<1>2. /\ Chain(c) /\ TagsDiffer(c)
      /\ \A i \in DOMAIN c : c[i] \in PTE
  BY ChainOf
<1>3. /\ \A i \in DOMAIN c : c[i].tag = t => d = Fronted(c, i)
      /\ (\A i \in DOMAIN c : c[i].tag # t) => d = c
  BY <1>2, TagLookup
<1> HIDE DEF d
<1>4. Permuted(c, c)
  BY <1>2 DEF Permuted
<1>5. Permuted(c, d) /\ TagsDiffer(d)
  BY <1>2, <1>3, <1>4, FrontKeepsEntries
<1>6. Replaced(pt, a, d, new)
  BY <1>1, ReplacedChain
<1> HIDE DEF new
<1>7. /\ \A s \in PTabSets : Permuted(pt[s], new[s]) /\ TagsDiffer(new[s])
  <2> SUFFICES ASSUME NEW s \in PTabSets
               PROVE  Permuted(pt[s], new[s]) /\ TagsDiffer(new[s])
    OBVIOUS
  <2>1. CASE s = MEM_PTAB_SET(a)
    BY <1>5, <1>6, <2>1 DEF PTEs, Replaced
  <2>2. CASE s # MEM_PTAB_SET(a)
    BY <1>6, <2>2 DEF PTabOK, Permuted, Replaced
  <2> QED BY <2>1, <2>2
<1>8. PTabOK(new)
  BY <1>6, <1>7 DEF PTabOK, Permuted, Replaced
<1>9. \A i \in DOMAIN c : c[i].tag = t => 1 \in DOMAIN c /\ d[1] = c[i]
  BY <1>2, <1>3, FrontKeepsEntries
<1>10. PTEs(new, a) = d
  BY <1>6 DEF PTEs, Replaced
<1> QED BY <1>7, <1>8, <1>9, <1>10 DEF new

\* The byte of an address is in the page that has its tag.
LEMMA ByteFacts ==
  ASSUME ConstantsOK, NEW pt, PTabOK(pt), NEW a \in Nat
  PROVE  /\ \A i \in DOMAIN PTEs(pt, a) :
              PTEs(pt, a)[i].tag = MEM_PTAB_TAG(a) =>
                ByteOf(pt, a) = PTEs(pt, a)[i].page[MEM_OFFSET(a)]
         /\ (\A i \in DOMAIN PTEs(pt, a) : PTEs(pt, a)[i].tag # MEM_PTAB_TAG(a)) =>
              ByteOf(pt, a) = 0
<1>1. ASSUME NEW i \in DOMAIN PTEs(pt, a), PTEs(pt, a)[i].tag = MEM_PTAB_TAG(a)
      PROVE  ByteOf(pt, a) = PTEs(pt, a)[i].page[MEM_OFFSET(a)]
  <2>1. Allocated(pt, a)
    BY <1>1 DEF Allocated
  <2>2. PTEs(mem_translate(pt, a), a)[1] = PTEs(pt, a)[i]
    BY <1>1, TranslateFacts
  <2>3. Head(PTEs(mem_translate(pt, a), a)) = PTEs(mem_translate(pt, a), a)[1]
    OBVIOUS
  <2> QED BY <2>1, <2>2, <2>3 DEF ByteOf
<1>2. ASSUME \A i \in DOMAIN PTEs(pt, a) : PTEs(pt, a)[i].tag # MEM_PTAB_TAG(a)
      PROVE  ByteOf(pt, a) = 0
  BY <1>2 DEF ByteOf, Allocated
<1> QED BY <1>1, <1>2

\* Reordering the chains changes no byte.
LEMMA SameBytes ==
  ASSUME ConstantsOK, NEW pt, PTabOK(pt), NEW new, PTabOK(new),
         \A s \in PTabSets : Permuted(pt[s], new[s]), NEW a \in Nat
  PROVE  ByteOf(new, a) = ByteOf(pt, a)
<1> DEFINE c == PTEs(pt, a)
           d == PTEs(new, a)
           t == MEM_PTAB_TAG(a)
<1>1. Permuted(c, d)
  BY PTabIndex DEF PTEs
<1>2. CASE \E i \in DOMAIN c : c[i].tag = t
  <2>1. PICK i \in DOMAIN c : c[i].tag = t
    BY <1>2
  <2>2. PICK k \in DOMAIN d : d[k] = c[i]
    BY <1>1, <2>1 DEF Permuted
  <2>3. ByteOf(pt, a) = c[i].page[MEM_OFFSET(a)]
    BY <2>1, ByteFacts
  <2>4. ByteOf(new, a) = d[k].page[MEM_OFFSET(a)]
    BY <2>1, <2>2, ByteFacts
  <2> QED BY <2>2, <2>3, <2>4
<1>3. CASE \A i \in DOMAIN c : c[i].tag # t
  <2>1. \A k \in DOMAIN d : \E i \in DOMAIN c : d[k] = c[i]
    BY <1>1 DEF Permuted
  <2>2. \A k \in DOMAIN d : d[k].tag # t
    BY <1>3, <2>1
  <2>3. ByteOf(pt, a) = 0
    BY <1>3, ByteFacts
  <2>4. ByteOf(new, a) = 0
    BY <2>2, ByteFacts
  <2> QED BY <2>3, <2>4
<1> QED BY <1>2, <1>3

\* An entry put before a chain.
LEMMA Prepended ==
  ASSUME NEW c, Chain(c), NEW e
  PROVE  /\ Chain(<<e>> \o c)
         /\ DOMAIN (<<e>> \o c) = 1 .. Len(c) + 1
         /\ Len(c) \in Nat
         /\ (<<e>> \o c)[1] = e
         /\ \A i \in 1 .. Len(c) + 1 : i # 1 => (<<e>> \o c)[i] = c[i - 1]
<1> DEFINE S == Range(c) \cup {e}
<1>1. c \in Seq(S)
  BY DEF Chain, Range
<1>2. <<e>> \in Seq(S)
  OBVIOUS
<1> HIDE DEF S
<1>3. /\ <<e>> \o c \in Seq(S) /\ Len(<<e>> \o c) = 1 + Len(c)
      /\ \A k \in 1 .. 1 + Len(c) :
           (<<e>> \o c)[k] = IF k <= 1 THEN <<e>>[k] ELSE c[k - 1]
  BY <1>1, <1>2, Joined
<1>4. Len(c) \in Nat /\ <<e>>[1] = e
  BY <1>1
<1>5. DOMAIN (<<e>> \o c) = 1 .. Len(c) + 1
  BY <1>3, <1>4
<1>6. Chain(<<e>> \o c)
  BY <1>3, SeqIsChain
<1>7. ASSUME NEW i \in 1 .. Len(c) + 1, i # 1
      PROVE  (<<e>> \o c)[i] = c[i - 1]
  BY <1>3, <1>4, <1>7
<1> QED BY <1>3, <1>4, <1>5, <1>6, <1>7

\* mem_newpage() makes the page of the address the first of its chain.
LEMMA NewPageFacts ==
  ASSUME ConstantsOK, NEW pt, PTabOK(pt), NEW a \in Nat
  PROVE  PTabOK(mem_newpage(pt, a)) /\ 1 \in DOMAIN PTEs(mem_newpage(pt, a), a)
<1> DEFINE c == PTEs(pt, a)
           e == [tag |-> MEM_PTAB_TAG(a), page |-> ZeroPage]
           d == <<e>> \o c
           new == mem_newpage(pt, a)
<1>1. CASE Allocated(pt, a)
  <2>1. new = mem_translate(pt, a)
    BY <1>1 DEF mem_newpage
  <2>2. PICK i \in DOMAIN c : c[i].tag = MEM_PTAB_TAG(a)
    BY <1>1 DEF Allocated
  <2>3. PTabOK(new) /\ 1 \in DOMAIN c /\ Permuted(c, PTEs(new, a))
    BY <2>1, <2>2, TranslateFacts, PTabIndex DEF PTEs
  <2> QED BY <2>3 DEF Permuted
<1>2. CASE ~Allocated(pt, a)
  <2>1. new = [pt EXCEPT ![MEM_PTAB_SET(a)] = d]
    BY <1>2 DEF mem_newpage, PTEs
  <2>2. /\ Chain(c) /\ TagsDiffer(c) /\ \A i \in DOMAIN c : c[i] \in PTE
    BY ChainOf
  <2>3. /\ Chain(d) /\ DOMAIN d = 1 .. Len(c) + 1 /\ Len(c) \in Nat
        /\ d[1] = e
        /\ \A i \in 1 .. Len(c) + 1 : i # 1 => d[i] = c[i - 1]
    BY <2>2, Prepended
  <2>4. DOMAIN c = 1 .. Len(c)
    BY <2>2 DEF Chain
  <2>5. e \in PTE
    BY PTabIndex DEF PTE, Pages, ZeroPage, ConstantsOK
  <2>6. \A i \in DOMAIN c : c[i].tag # e.tag
    BY <1>2 DEF Allocated
  <2> HIDE DEF d, c, e
  <2>7. \A i \in DOMAIN d : i = 1 \/ (i - 1 \in DOMAIN c /\ d[i] = c[i - 1])
    BY <2>3, <2>4
  <2>8. \A i \in DOMAIN d : d[i] \in PTE
    BY <2>2, <2>3, <2>5, <2>7
  <2>9. TagsDiffer(d)
    <3> SUFFICES ASSUME NEW i \in DOMAIN d, NEW j \in DOMAIN d, d[i].tag = d[j].tag
                 PROVE  i = j
      BY DEF TagsDiffer
    <3>1. CASE i = 1 \/ j = 1
      BY <2>3, <2>6, <2>7, <3>1
    <3>2. CASE i # 1 /\ j # 1
      <4>1. /\ i - 1 \in DOMAIN c /\ d[i] = c[i - 1]
            /\ j - 1 \in DOMAIN c /\ d[j] = c[j - 1]
        BY <2>7, <3>2
      <4>2. i - 1 = j - 1
        BY <2>2, <4>1 DEF TagsDiffer
      <4> QED BY <2>3, <4>2
    <3> QED BY <3>1, <3>2
  <2>10. Replaced(pt, a, d, new)
    BY <2>1, ReplacedChain
  <2> HIDE DEF new
  <2>11. PTabOK(new)
    BY <2>3, <2>8, <2>9, <2>10 DEF PTabOK, Replaced
  <2>12. PTEs(new, a) = d
    BY <2>10 DEF PTEs, Replaced
  <2> QED BY <2>3, <2>11, <2>12 DEF new
<1> QED BY <1>1, <1>2

\* A store leaves the chains and their tags, and a page of values.
LEMMA WriteFacts ==
  ASSUME ConstantsOK, NEW pt, PTabOK(pt),
         NEW x \in Accesses, NEW v \in [1 .. x[2] -> Values]
  PROVE  PTabOK(mem_access_write(pt, x, v))
<1> DEFINE a == x[1]
           off == MEM_OFFSET(a)
           mid == mem_newpage(pt, a)
           c == PTEs(mid, a)
           old == c[1].page
           page == [o \in DOMAIN old |->
                      IF o \in Bytes(off, x[2]) THEN v[o - off + 1] ELSE old[o]]
           d == [c EXCEPT ![1].page = page]
           new == mem_access_write(pt, x, v)
<1>1. a \in Nat /\ x[2] \in Nat
  BY DEF ConstantsOK
<1>2. PTabOK(mid) /\ 1 \in DOMAIN c
  BY <1>1, NewPageFacts
<1>3. /\ Chain(c) /\ TagsDiffer(c) /\ \A i \in DOMAIN c : c[i] \in PTE
  BY <1>1, <1>2, ChainOf
<1>4. new = [mid EXCEPT ![MEM_PTAB_SET(a)] = d]
  BY DEF mem_access_write, PTEs
<1>5. off \in Nat
  <2>1. off \in 0 .. MD_PAGE_SIZE - 1
    BY <1>1, PTabIndex
  <2> QED BY <2>1
<1>6. old \in Pages
  BY <1>2, <1>3 DEF PTE
<1> HIDE DEF off, old
<1>7. page \in Pages
  BY <1>1, <1>5, <1>6 DEF Pages, Bytes
<1> HIDE DEF page, c, mid
<1>8. /\ DOMAIN d = DOMAIN c
      /\ d[1] = [c[1] EXCEPT !.page = page]
      /\ \A i \in DOMAIN c : i # 1 => d[i] = c[i]
  BY <1>2, <1>3 DEF Chain
<1>9. \A i \in DOMAIN c : d[i] \in PTE /\ d[i].tag = c[i].tag
  BY <1>2, <1>3, <1>7, <1>8 DEF PTE
<1>10. Chain(d)
  <2>1. c \in Seq(PTE)
    BY <1>3 DEF Chain
  <2>2. d \in Seq(PTE)
    BY <1>2, <1>8, <1>9, <2>1
  <2> QED BY <2>2, SeqIsChain
<1> HIDE DEF d
<1>11. TagsDiffer(d)
  BY <1>3, <1>8, <1>9 DEF TagsDiffer
<1>12. Replaced(mid, a, d, new)
  BY <1>1, <1>2, <1>4, ReplacedChain
<1> HIDE DEF new
<1>13. PTabOK(new)
  BY <1>2, <1>8, <1>9, <1>10, <1>11, <1>12
     DEF PTabOK, Replaced
<1> QED BY <1>13 DEF new

-----------------------------------------------------------------------------
(***************************************************************************)
(* The store table.                                                        *)
(***************************************************************************)
HashSets == 0 .. STORE_HASH_SIZE - 1

DataSize == Max({x[2] : x \in Accesses})

\* The bucket itself is an address nobody looks at.
BucketOK(e) ==
  /\ e = [bucket |-> e.bucket, addr |-> e.addr, data |-> e.data]
  /\ e.data \in [1 .. DataSize -> Values]

StoreChainOK(c) ==
  /\ Chain(c) /\ AddrsDiffer(c)
  /\ \A k \in DOMAIN c : BucketOK(c[k])

TableOK ==
  /\ store_htable = [i \in HashSets |-> store_htable[i]]
  /\ \A i \in HashSets : StoreChainOK(store_htable[i])

\* A bucket has room for the largest access.
LEMMA DataFits ==
  ASSUME ConstantsOK, NEW x \in Accesses
  PROVE  /\ DataSize \in Nat /\ x[2] <= DataSize
         /\ x[1] \in Nat /\ x[2] \in Nat /\ x[2] > 0
<1> DEFINE S == {y[2] : y \in Accesses}
<1>1. S \subseteq {1, 2, 4, 8} /\ x[2] \in S /\ x[1] \in Nat
  BY DEF ConstantsOK
<1> HIDE DEF S
<1>2. \E m \in S : \A y \in S : m >= y
  <2>1. CASE 8 \in S
    BY <1>1, <2>1
  <2>2. CASE 8 \notin S /\ 4 \in S
    BY <1>1, <2>2
  <2>3. CASE 8 \notin S /\ 4 \notin S /\ 2 \in S
    BY <1>1, <2>3
  <2>4. CASE 8 \notin S /\ 4 \notin S /\ 2 \notin S
    <3>1. S = {1}
      BY <1>1, <2>4
    <3> QED BY <3>1
  <2> QED BY <2>1, <2>2, <2>3, <2>4
<1>3. Max(S) \in S /\ \A y \in S : Max(S) >= y
  BY <1>2 DEF Max
<1>4. DataSize = Max(S)
  BY DEF DataSize, S
<1>5. /\ Max(S) \in {1, 2, 4, 8} /\ x[2] \in {1, 2, 4, 8}
      /\ Max(S) >= x[2]
  BY <1>1, <1>3
<1>6. DataSize \in {1, 2, 4, 8} /\ DataSize >= x[2]
  BY <1>4, <1>5
<1> QED BY <1>1, <1>5, <1>6

\* Every address has a chain of the table.
LEMMA HashIndex ==
  ASSUME ConstantsOK, NEW a \in Nat
  PROVE  HASH_ADDR(a) \in HashSets
BY DEF ConstantsOK, HASH_ADDR, HashSets

\* A lookup in a chain of the table: the bucket found is the first.
LEMMA LookupChain ==
  ASSUME NEW c, StoreChainOK(c), NEW a
  PROVE  /\ StoreChainOK(First(c, Addressed(c, a)))
         /\ Permuted(c, First(c, Addressed(c, a)))
         /\ \A k \in DOMAIN c :
              c[k].addr = a => /\ First(c, Addressed(c, a))[1] = c[k]
                               /\ 1 \in DOMAIN c
<1> DEFINE d == First(c, Addressed(c, a))
<1>1. Chain(c) /\ AddrsDiffer(c) /\ \A k \in DOMAIN c : BucketOK(c[k])
  BY DEF StoreChainOK
<1>2. /\ \A k \in DOMAIN c : c[k].addr = a => d = Fronted(c, k)
      /\ (\A k \in DOMAIN c : c[k].addr # a) => d = c
  BY <1>1, AddrLookup
<1> HIDE DEF d
<1>3. Permuted(c, c)
  BY <1>1 DEF Permuted
<1>4. Permuted(c, d) /\ AddrsDiffer(d)
  BY <1>1, <1>2, <1>3, FrontKeepsEntries
<1>5. StoreChainOK(d)
  BY <1>1, <1>4 DEF StoreChainOK, Permuted
<1>6. \A k \in DOMAIN c : c[k].addr = a => d[1] = c[k] /\ 1 \in DOMAIN c
  BY <1>1, <1>2, FrontKeepsEntries
<1> QED BY <1>4, <1>5, <1>6 DEF d

\* The table new has the chain c for the address a, and the others as before.
Rechained(a, c, new) ==
  /\ new = [i \in HashSets |-> new[i]]
  /\ new[HASH_ADDR(a)] = c
  /\ \A i \in HashSets : i # HASH_ADDR(a) => new[i] = store_htable[i]

\* Replacing the chain of one address.
LEMMA RechainedTable ==
  ASSUME ConstantsOK, TableOK, NEW a \in Nat, NEW c, NEW new,
         new = [store_htable EXCEPT ![HASH_ADDR(a)] = c]
  PROVE  Rechained(a, c, new)
BY HashIndex DEF TableOK, Rechained

\* The lookup that every access makes, in the whole table.
LEMMA LookupFacts ==
  ASSUME ConstantsOK, TableOK, NEW a \in Nat
  PROVE  Rechained(a, First(store_htable[HASH_ADDR(a)],
                            Addressed(store_htable[HASH_ADDR(a)], a)), Lookup(a))
<1>1. Lookup(a) = [store_htable EXCEPT ![HASH_ADDR(a)] =
                     First(store_htable[HASH_ADDR(a)],
                           Addressed(store_htable[HASH_ADDR(a)], a))]
  BY MovesByAddr DEF Lookup
<1> QED BY <1>1, RechainedTable

\* The chain d is c after the store of v to x: the bucket of x comes first and
\* begins with v, and the buckets of other addresses are those of c.
StoredIn(c, d, x, v) ==
  /\ StoreChainOK(d)
  /\ 1 \in DOMAIN d /\ d[1].addr = x[1]
  /\ \A j \in 1 .. x[2] : d[1].data[j] = v[j]
  /\ \A k \in DOMAIN c : c[k].addr # x[1] => \E l \in DOMAIN d : d[l] = c[k]
  /\ \A l \in DOMAIN d : l # 1 => \E k \in DOMAIN c : c[k].addr = d[l].addr

\* Writing v to the first bucket of a chain.
FirstWritten(c, d, x, v) ==
  /\ StoreChainOK(d)
  /\ DOMAIN d = DOMAIN c
  /\ d[1].addr = c[1].addr
  /\ \A j \in 1 .. x[2] : d[1].data[j] = v[j]
  /\ \A k \in DOMAIN c : k # 1 => d[k] = c[k]

\* A store to an address that has a bucket overwrites its data.
LEMMA OverwriteFirst ==
  ASSUME ConstantsOK, NEW c, StoreChainOK(c), 1 \in DOMAIN c,
         NEW x \in Accesses, NEW v \in [1 .. x[2] -> Values]
  PROVE  FirstWritten(c, [c EXCEPT ![1].data = Overwrite(@, v)], x, v)
<1> DEFINE data == Overwrite(c[1].data, v)
           d == [c EXCEPT ![1].data = Overwrite(@, v)]
<1>1. /\ Chain(c) /\ AddrsDiffer(c) /\ \A k \in DOMAIN c : BucketOK(c[k])
      /\ c[1].data \in [1 .. DataSize -> Values]
      /\ c[1] = [bucket |-> c[1].bucket, addr |-> c[1].addr, data |-> c[1].data]
  BY DEF StoreChainOK, BucketOK
<1>2. /\ DataSize \in Nat /\ x[2] \in Nat /\ x[2] <= DataSize /\ Len(v) = x[2]
  BY DataFits
<1>3. /\ data \in [1 .. DataSize -> Values]
      /\ \A j \in 1 .. x[2] : data[j] = v[j]
  <2>1. data = [j \in 1 .. DataSize |-> IF j <= x[2] THEN v[j] ELSE c[1].data[j]]
    BY <1>1, <1>2 DEF Overwrite
  <2>2. \A j \in 1 .. DataSize : j <= x[2] => v[j] \in Values
    BY <1>2
  <2>3. \A j \in 1 .. DataSize : c[1].data[j] \in Values
    BY <1>1
  <2> HIDE DEF data
  <2> QED BY <1>2, <2>1, <2>2, <2>3
<1> HIDE DEF data
<1>4. /\ DOMAIN d = DOMAIN c
      /\ d[1] = [c[1] EXCEPT !.data = data]
      /\ \A k \in DOMAIN c : k # 1 => d[k] = c[k]
  BY <1>1 DEF Chain, data
<1>5. d[1] = [bucket |-> c[1].bucket, addr |-> c[1].addr, data |-> data]
  BY <1>1, <1>4
<1>6. BucketOK(d[1]) /\ d[1].addr = c[1].addr /\ d[1].data = data
  BY <1>3, <1>5 DEF BucketOK
<1>7. Chain(d)
  <2> DEFINE S == Range(c) \cup {d[1]}
  <2>1. c \in Seq(S) /\ d[1] \in S
    BY <1>1 DEF Chain, Range
  <2>2. \A k \in DOMAIN c : d[k] \in S
    BY <1>4 DEF Range
  <2> HIDE DEF S
  <2>3. Len(c) \in Nat /\ DOMAIN c = 1 .. Len(c)
    BY <2>1
  <2>4. d \in Seq(S)
    <3>1. d = [k \in DOMAIN c |-> d[k]]
      OBVIOUS
    <3>2. d \in [1 .. Len(c) -> S]
      BY <2>2, <2>3, <3>1
    <3> QED BY <2>3, <3>2, FcnIsSeq
  <2> QED BY <2>4, SeqIsChain
<1>8. AddrsDiffer(d)
  BY <1>1, <1>4, <1>6 DEF AddrsDiffer
<1>9. \A k \in DOMAIN d : BucketOK(d[k])
  BY <1>1, <1>4, <1>6
<1> QED BY <1>3, <1>4, <1>6, <1>7, <1>8, <1>9 DEF StoreChainOK, FirstWritten, d

\* The chain mid is c with the bucket of the address a in front.
Ready(c, mid, a) ==
  /\ StoreChainOK(mid) /\ 1 \in DOMAIN mid /\ mid[1].addr = a
  /\ \A k \in DOMAIN c : c[k].addr # a => \E l \in DOMAIN mid : mid[l] = c[k]
  /\ \A l \in DOMAIN mid : l # 1 => \E k \in DOMAIN c : c[k] = mid[l]

\* A bucket that is found comes to the front.
LEMMA BucketFound ==
  ASSUME NEW c, StoreChainOK(c), NEW a, Found(c, a)
  PROVE  Ready(c, First(c, Addressed(c, a)), a)
<1> DEFINE mid == First(c, Addressed(c, a))
<1>1. PICK k \in DOMAIN c : c[k].addr = a
  BY DEF Found
<1>2. StoreChainOK(mid) /\ Permuted(c, mid) /\ mid[1] = c[k] /\ 1 \in DOMAIN c
  BY <1>1, LookupChain
<1> HIDE DEF mid
<1>3. Ready(c, mid, a)
  BY <1>1, <1>2 DEF Permuted, Ready
<1> QED BY <1>3 DEF mid

\* A bucket that is not found is added at the front.
LEMMA BucketAdded ==
  ASSUME ConstantsOK, NEW c, StoreChainOK(c), NEW x \in Accesses,
         ~Found(c, x[1]), NEW b
  PROVE  Ready(c, <<[bucket |-> b, addr |-> x[1], data |-> EmptyData]>> \o c, x[1])
<1> DEFINE e == [bucket |-> b, addr |-> x[1], data |-> EmptyData]
           mid == <<e>> \o c
<1>1. Chain(c) /\ AddrsDiffer(c) /\ \A k \in DOMAIN c : BucketOK(c[k])
  BY DEF StoreChainOK
<1>2. /\ Chain(mid)
      /\ DOMAIN mid = 1 .. Len(c) + 1
      /\ Len(c) \in Nat
      /\ mid[1] = e
      /\ \A i \in 1 .. Len(c) + 1 : i # 1 => mid[i] = c[i - 1]
  BY <1>1, Prepended
<1>3. DOMAIN c = 1 .. Len(c)
  BY <1>1 DEF Chain
<1>4. BucketOK(e) /\ e.addr = x[1]
  BY DataFits DEF BucketOK, EmptyData, DataSize, ConstantsOK
<1>5. \A k \in DOMAIN c : c[k].addr # x[1]
  BY DEF Found
<1> HIDE DEF e
<1>6. \A l \in DOMAIN mid : l # 1 => l - 1 \in DOMAIN c /\ mid[l] = c[l - 1]
  BY <1>2, <1>3
<1>7. \A k \in DOMAIN c : k + 1 \in DOMAIN mid /\ mid[k + 1] = c[k]
  <2> SUFFICES ASSUME NEW k \in DOMAIN c
               PROVE  k + 1 \in DOMAIN mid /\ mid[k + 1] = c[k]
    OBVIOUS
  <2>1. k + 1 \in 1 .. Len(c) + 1 /\ k + 1 # 1 /\ (k + 1) - 1 = k
    BY <1>2, <1>3
  <2> QED BY <1>2, <2>1
<1>8. AddrsDiffer(mid)
  <2> SUFFICES ASSUME NEW i \in DOMAIN mid, NEW j \in DOMAIN mid,
                      mid[i].addr = mid[j].addr
               PROVE  i = j
    BY DEF AddrsDiffer
  <2>1. CASE i = 1 \/ j = 1
    BY <1>2, <1>4, <1>5, <1>6, <2>1
  <2>2. CASE i # 1 /\ j # 1
    <3>1. i - 1 = j - 1
      BY <1>1, <1>6, <2>2 DEF AddrsDiffer
    <3> QED BY <1>2, <3>1
  <2> QED BY <2>1, <2>2
<1>9. \A l \in DOMAIN mid : BucketOK(mid[l])
  BY <1>1, <1>2, <1>4, <1>6
<1>10. StoreChainOK(mid)
  BY <1>2, <1>8, <1>9 DEF StoreChainOK
<1>11. 1 \in DOMAIN mid /\ mid[1].addr = x[1]
  BY <1>2, <1>4
<1> QED BY <1>6, <1>7, <1>10, <1>11 DEF Ready, mid, e

\* spec_mem_access() with cmd = Write, in the chain of the address.
LEMMA StoredChain ==
  ASSUME ConstantsOK, NEW c, NEW mid, NEW x \in Accesses, Ready(c, mid, x[1]),
         NEW v \in [1 .. x[2] -> Values]
  PROVE  StoredIn(c, [mid EXCEPT ![1].data = Overwrite(@, v)], x, v)
<1> DEFINE d == [mid EXCEPT ![1].data = Overwrite(@, v)]
<1>1. StoreChainOK(mid) /\ 1 \in DOMAIN mid /\ mid[1].addr = x[1]
  BY DEF Ready
<1>2. FirstWritten(mid, d, x, v)
  BY <1>1, OverwriteFirst
<1> HIDE DEF d
<1>3. ASSUME NEW k \in DOMAIN c, c[k].addr # x[1]
      PROVE  \E l \in DOMAIN d : d[l] = c[k]
  <2>1. PICK l \in DOMAIN mid : mid[l] = c[k]
    BY <1>3 DEF Ready
  <2>2. l # 1
    BY <1>1, <1>3, <2>1
  <2> QED BY <1>2, <2>1, <2>2 DEF FirstWritten
<1>4. ASSUME NEW l \in DOMAIN d, l # 1
      PROVE  \E k \in DOMAIN c : c[k].addr = d[l].addr
  <2>1. l \in DOMAIN mid /\ d[l] = mid[l]
    BY <1>2, <1>4 DEF FirstWritten
  <2> QED BY <1>4, <2>1 DEF Ready
<1>5. StoredIn(c, d, x, v)
  BY <1>1, <1>2, <1>3, <1>4 DEF StoredIn, FirstWritten
<1> QED BY <1>5 DEF d

-----------------------------------------------------------------------------
(***************************************************************************)
(* The invariant.                                                          *)
(***************************************************************************)
TypeOK ==
  /\ spec_mode \in BOOLEAN /\ bugcompat_mode \in BOOLEAN
  /\ regs = [r \in RegNames |-> regs[r]]
  /\ spec_regs = [r \in RegNames |-> spec_regs[r]]
  /\ path = [regs |-> path.regs, mem |-> path.mem, writes |-> path.writes,
             entry |-> path.entry]
  /\ PTabOK(ptab)
  /\ TableOK

\* The bits that are set are those of the registers this path has written,
\* whose copies hold what it wrote; outside spec_mode no bit is set.
BitsOK ==
  /\ use_spec = UNION {BitOf(r) : r \in DOMAIN path.regs}
  /\ DOMAIN path.regs \subseteq RegNames
  /\ \A r \in DOMAIN path.regs : spec_regs[r] = path.regs[r]
  /\ ~spec_mode => DOMAIN path.regs = {}

\* Some bucket of the table holds the bytes this path stored at x.
HeldAt(x) ==
  \E k \in DOMAIN store_htable[HASH_ADDR(x[1])] :
    /\ store_htable[HASH_ADDR(x[1])][k].addr = x[1]
    /\ \A j \in 1 .. x[2] :
         store_htable[HASH_ADDR(x[1])][k].data[j] = path.mem[x[1] + j - 1]

\* The table has buckets only for what this path has stored, and the bytes of
\* every store that no store of another size or address overlaps.
BucketsOK ==
  /\ path.writes \subseteq Accesses
  /\ DOMAIN path.mem = UNION {Bytes(w[1], w[2]) : w \in path.writes}
  /\ \A i \in HashSets : \A k \in DOMAIN store_htable[i] :
       \E w \in path.writes : store_htable[i][k].addr = w[1]
  /\ ~bugcompat_mode =>
       \A x \in path.writes : Uncombined(x) => HeldAt(x)
  /\ ~spec_mode => path.writes = {}

SpecInv == TypeOK /\ ArchitectedIntact /\ BitsOK /\ BucketsOK

-----------------------------------------------------------------------------
(* What the invariant says of the reads of a wrong path.                   *)

\* A register is read from the copy exactly when this path wrote it.
LEMMA ReadsExact ==
  ASSUME ConstantsOK, SpecInv
  PROVE  RegistersExact
<1> SUFFICES ASSUME spec_mode, NEW r \in RegNames, ~HalfWritten(r)
             PROVE  ReadReg(r) = Over(path.regs, path.entry.regs)[r]
  BY DEF RegistersExact
<1>1. path.entry.regs = regs /\ DOMAIN regs = RegNames
  BY DEF SpecInv, ArchitectedIntact, Architected, TypeOK
<1>2. Over(path.regs, path.entry.regs)[r] =
        IF r \in DOMAIN path.regs THEN path.regs[r] ELSE regs[r]
  BY <1>1 DEF Over
<1>3. CASE r \in DOMAIN path.regs
  <2>1. BitOf(r) \subseteq use_spec
    BY <1>3 DEF SpecInv, BitsOK
  <2>2. ReadReg(r) = spec_regs[r]
    BY <2>1 DEF ReadReg
  <2> QED BY <1>2, <1>3, <2>2 DEF SpecInv, BitsOK
<1>4. CASE r \notin DOMAIN path.regs
  <2>1. r \in BitOf(r)
    BY DEF BitOf
  <2>2. ASSUME r \in use_spec PROVE FALSE
    <3>1. PICK q \in DOMAIN path.regs : r \in BitOf(q)
      BY <2>2 DEF SpecInv, BitsOK
    <3>2. q # r
      BY <1>4, <3>1
    <3>3. \E pair \in Pairs : isa = "pisa" /\ q \in pair /\ r \in pair
      BY <3>1, <3>2 DEF BitOf
    <3>4. HalfWritten(r)
      BY <1>4, <3>1, <3>3 DEF HalfWritten
    <3> QED BY <3>4
  <2>3. ReadReg(r) = regs[r]
    BY <2>1, <2>2 DEF ReadReg
  <2> QED BY <1>2, <1>4, <2>3
<1> QED BY <1>3, <1>4

\* A load finds the bucket of its own store, or else the memory.
LEMMA LoadsExact ==
  ASSUME ConstantsOK, SpecInv
  PROVE  StoresExact
<1> SUFFICES ASSUME spec_mode, ~bugcompat_mode, NEW x \in Accesses,
                    ~Denied(x), Uncombined(x)
             PROVE  SpecRead(x) = [i \in 1 .. x[2] |->
                                     Over(path.mem, path.entry.mem)[x[1] + i - 1]]
  BY DEF StoresExact
<1> DEFINE a == x[1]
           c == store_htable[HASH_ADDR(a)]
<1>1. /\ a \in Nat /\ x[2] \in Nat /\ x[2] > 0 /\ x[2] <= DataSize
      /\ DataSize \in Nat
  BY DataFits
<1>2. StoreChainOK(c) /\ HASH_ADDR(a) \in HashSets
  BY <1>1, HashIndex DEF SpecInv, TypeOK, TableOK
<1>3. /\ path.entry.mem = [b \in Addrs |-> ByteOf(ptab, b)]
      /\ \A i \in 1 .. x[2] : a + i - 1 \in Bytes(x[1], x[2])
      /\ Bytes(x[1], x[2]) \subseteq Addrs
  <2>1. path.entry.mem = [b \in Addrs |-> ByteOf(ptab, b)]
    BY DEF SpecInv, ArchitectedIntact, Architected
  <2>2. \A i \in 1 .. x[2] : a + i - 1 \in Bytes(x[1], x[2])
    BY <1>1 DEF Bytes
  <2> QED BY <2>1, <2>2 DEF Addrs
<1> DEFINE both == Over(path.mem, path.entry.mem)
<1>4. \A i \in 1 .. x[2] :
        both[a + i - 1] = IF a + i - 1 \in DOMAIN path.mem THEN path.mem[a + i - 1]
                          ELSE ByteOf(ptab, a + i - 1)
  <2> SUFFICES ASSUME NEW b \in Bytes(x[1], x[2])
               PROVE  both[b] = IF b \in DOMAIN path.mem THEN path.mem[b]
                                ELSE ByteOf(ptab, b)
    BY <1>3
  <2> QED BY <1>3 DEF Over
<1> HIDE DEF both
<1>5. CASE x \in path.writes
  <2>1. PICK k \in DOMAIN c :
          /\ c[k].addr = a
          /\ \A j \in 1 .. x[2] : c[k].data[j] = path.mem[a + j - 1]
    BY <1>5 DEF SpecInv, BucketsOK, HeldAt
  <2>2. Found(c, a)
    BY <2>1 DEF Found
  <2>3. Lookup(a)[HASH_ADDR(a)] = First(c, Addressed(c, a))
    BY <1>1, LookupFacts DEF SpecInv, TypeOK, Rechained
  <2>4. First(c, Addressed(c, a))[1] = c[k]
    BY <1>2, <2>1, LookupChain
  <2>5. Head(Lookup(a)[HASH_ADDR(a)]) = c[k]
    BY <2>3, <2>4
  <2>6. SpecRead(x) = SubSeq(c[k].data, 1, x[2])
    BY <2>2, <2>5 DEF SpecRead
  <2>7. c[k].data \in [1 .. DataSize -> Values]
    BY <1>2 DEF StoreChainOK, BucketOK
  <2>8. SubSeq(c[k].data, 1, x[2]) = [i \in 1 .. x[2] |-> c[k].data[i]]
    BY <1>1, <2>7
  <2>9. Bytes(x[1], x[2]) \subseteq DOMAIN path.mem
    BY <1>5 DEF SpecInv, BucketsOK
  <2>10. \A i \in 1 .. x[2] : c[k].data[i] = both[a + i - 1]
    BY <1>3, <1>4, <2>1, <2>9
  <2> QED BY <2>6, <2>8, <2>10 DEF both
<1>6. CASE x \notin path.writes
  <2>1. \A w \in path.writes : Bytes(w[1], w[2]) \cap Bytes(x[1], x[2]) = {}
    BY <1>6 DEF Uncombined
  <2>2. \A k \in DOMAIN c : c[k].addr # a
    <3> SUFFICES ASSUME NEW k \in DOMAIN c, c[k].addr = a PROVE FALSE
      OBVIOUS
    <3>1. PICK w \in path.writes : c[k].addr = w[1]
      BY <1>2 DEF SpecInv, BucketsOK
    <3>2. w \in Accesses
      BY DEF SpecInv, BucketsOK
    <3>3. w[1] \in Bytes(w[1], w[2]) /\ a \in Bytes(x[1], x[2])
      BY <1>1, <3>2, DataFits DEF Bytes
    <3> QED BY <2>1, <3>1, <3>3
  <2>3. ~Found(c, a)
    BY <2>2 DEF Found
  <2>4. SpecRead(x) = [i \in 1 .. x[2] |-> ByteOf(ptab, a + i - 1)]
    BY <2>3 DEF SpecRead
  <2>5. Bytes(x[1], x[2]) \cap DOMAIN path.mem = {}
    BY <2>1 DEF SpecInv, BucketsOK
  <2>6. \A i \in 1 .. x[2] : both[a + i - 1] = ByteOf(ptab, a + i - 1)
    BY <1>3, <1>4, <2>5
  <2> QED BY <2>4, <2>6 DEF both
<1> QED BY <1>5, <1>6

-----------------------------------------------------------------------------
(***************************************************************************)
(* Every step keeps the invariant.                                         *)
(***************************************************************************)
\* All tables are empty at the start.
LEMMA InitSpecInv ==
  ASSUME ConstantsOK, Init
  PROVE  SpecInv
<1>1. Chain(<<>>) /\ TagsDiffer(<<>>) /\ AddrsDiffer(<<>>) /\ DOMAIN <<>> = {}
  BY DEF Chain, TagsDiffer, AddrsDiffer
<1>2. PTabOK(ptab)
  BY <1>1 DEF Init, PTabOK, PTabSets
<1>3. TableOK
  BY <1>1 DEF Init, TableOK, HashSets, StoreChainOK
<1>4. path.regs = <<>> /\ path.mem = <<>> /\ path.writes = {}
  BY DEF Init, NoPath
<1>5. TypeOK
  BY <1>2, <1>3 DEF Init, TypeOK, NoPath
<1>6. ArchitectedIntact
  BY DEF Init, ArchitectedIntact
<1>7. BitsOK
  BY <1>1, <1>4 DEF Init, BitsOK
<1>8. BucketsOK
  BY <1>1, <1>4 DEF Init, BucketsOK, HashSets
<1> QED BY <1>5, <1>6, <1>7, <1>8 DEF SpecInv

\* A register write goes to one of the two register files.
LEMMA WriteRegsKeeps ==
  ASSUME ConstantsOK, SpecInv, NEW rs, rs \subseteq RegNames, NEW v,
         WriteRegs(rs, v)
  PROVE  SpecInv'
<1>1. CASE spec_mode
  <2> DEFINE written == Over([r \in rs |-> v], path.regs)
  <2>1. /\ spec_regs' = Assign(spec_regs, rs, v)
        /\ use_spec' = use_spec \cup UNION {BitOf(r) : r \in rs}
        /\ path' = [path EXCEPT !.regs = written]
        /\ UNCHANGED <<regs, isa, bugcompat_mode, spec_mode, ptab, store_htable>>
    BY <1>1 DEF WriteRegs
  <2>2. path = [regs |-> path.regs, mem |-> path.mem, writes |-> path.writes,
                entry |-> path.entry]
    BY DEF SpecInv, TypeOK
  <2>3. /\ DOMAIN written = rs \cup DOMAIN path.regs
        /\ \A r \in rs : written[r] = v
        /\ \A r \in DOMAIN path.regs \ rs : written[r] = path.regs[r]
    BY DEF Over
  <2> HIDE DEF written
  <2>4. path' = [regs |-> written, mem |-> path.mem, writes |-> path.writes,
                 entry |-> path.entry]
    BY <2>1, <2>2
  <2>5. /\ path'.regs = written /\ path'.mem = path.mem
        /\ path'.writes = path.writes /\ path'.entry = path.entry
    BY <2>4
  <2>6. /\ spec_regs' = [r \in RegNames |-> spec_regs'[r]]
        /\ \A r \in RegNames :
             spec_regs'[r] = IF r \in rs THEN v ELSE spec_regs[r]
    BY <2>1 DEF Assign, SpecInv, TypeOK
  <2>7. TypeOK'
    BY <2>1, <2>4, <2>5, <2>6 DEF SpecInv, TypeOK, TableOK
  <2>8. ArchitectedIntact'
    BY <1>1, <2>1, <2>5 DEF SpecInv, ArchitectedIntact, Architected
  <2>9. BitsOK'
    <3>1. \A r : BitOf(r)' = BitOf(r)
      BY <2>1 DEF BitOf
    <3>2. use_spec' = UNION {BitOf(r) : r \in DOMAIN written}
      BY <2>1, <2>3 DEF SpecInv, BitsOK
    <3>3. (UNION {BitOf(r) : r \in DOMAIN path.regs})' =
            UNION {BitOf(r) : r \in DOMAIN written}
      BY <2>1, <2>5 DEF BitOf
    <3>4. /\ DOMAIN written \subseteq RegNames
          /\ \A r \in DOMAIN written : spec_regs'[r] = written[r]
      BY <2>3, <2>6 DEF SpecInv, BitsOK
    <3> QED BY <1>1, <2>1, <2>5, <3>2, <3>3, <3>4 DEF BitsOK
  <2>10. BucketsOK'
    BY <2>1, <2>5 DEF SpecInv, BucketsOK, Uncombined, HeldAt
  <2> QED BY <2>7, <2>8, <2>9, <2>10 DEF SpecInv
<1>2. CASE ~spec_mode
  <2>1. /\ regs' = Assign(regs, rs, v)
        /\ UNCHANGED <<spec_regs, use_spec, path, isa, bugcompat_mode, spec_mode,
                       ptab, store_htable>>
    BY <1>2 DEF WriteRegs
  <2>2. TypeOK'
    BY <2>1 DEF SpecInv, TypeOK, TableOK, Assign
  <2>3. ArchitectedIntact'
    BY <1>2, <2>1 DEF ArchitectedIntact
  <2>4. BitsOK'
    BY <2>1 DEF SpecInv, BitsOK, BitOf
  <2>5. BucketsOK'
    BY <2>1 DEF SpecInv, BucketsOK, Uncombined, HeldAt
  <2> QED BY <2>2, <2>3, <2>4, <2>5 DEF SpecInv
<1> QED BY <1>1, <1>2 DEF SpecInv, TypeOK

\* The bytes of the program's addresses, as long as pages are only reordered.
LEMMA SameArchitected ==
  ASSUME ConstantsOK, NEW pt, PTabOK(pt), NEW a \in Nat
  PROVE  [b \in Addrs |-> ByteOf(mem_translate(pt, a), b)] =
           [b \in Addrs |-> ByteOf(pt, b)]
<1>1. Addrs \subseteq Nat
  <2> SUFFICES ASSUME NEW x \in Accesses PROVE Bytes(x[1], x[2]) \subseteq Nat
    BY DEF Addrs
  <2> QED BY DataFits DEF Bytes
<1>2. \A b \in Addrs : ByteOf(mem_translate(pt, a), b) = ByteOf(pt, b)
  BY <1>1, TranslateFacts, SameBytes
<1> QED BY <1>2

\* A lookup in the store table loses no bucket.
LEMMA LookupKeeps ==
  ASSUME ConstantsOK, SpecInv, NEW a \in Nat, store_htable' = Lookup(a),
         UNCHANGED <<path, bugcompat_mode, spec_mode>>
  PROVE  TableOK' /\ BucketsOK'
<1> DEFINE c == store_htable[HASH_ADDR(a)]
           d == First(c, Addressed(c, a))
<1>1. TableOK /\ HASH_ADDR(a) \in HashSets /\ StoreChainOK(c)
  BY HashIndex DEF SpecInv, TypeOK, TableOK
<1>2. Rechained(a, d, store_htable')
  BY <1>1, LookupFacts
<1>3. StoreChainOK(d) /\ Permuted(c, d)
  BY <1>1, LookupChain
<1>4. Permuted(c, c)
  BY <1>1 DEF Permuted, StoreChainOK
<1> HIDE DEF d
<1>5. /\ store_htable' = [i \in HashSets |-> store_htable'[i]]
      /\ \A i \in HashSets :
           StoreChainOK(store_htable'[i]) /\ Permuted(store_htable[i], store_htable'[i])
  <2> SUFFICES ASSUME NEW i \in HashSets
               PROVE  /\ StoreChainOK(store_htable'[i])
                      /\ Permuted(store_htable[i], store_htable'[i])
    BY <1>2 DEF Rechained
  <2>1. CASE i = HASH_ADDR(a)
    BY <1>2, <1>3, <2>1 DEF Rechained
  <2>2. CASE i # HASH_ADDR(a)
    BY <1>1, <1>2, <2>2 DEF Rechained, TableOK, StoreChainOK, Permuted
  <2> QED BY <2>1, <2>2
<1>6. TableOK'
  BY <1>5 DEF TableOK
<1>7. ASSUME NEW i \in HashSets, NEW k \in DOMAIN store_htable'[i]
      PROVE  \E w \in path.writes : store_htable'[i][k].addr = w[1]
  <2>1. PICK l \in DOMAIN store_htable[i] : store_htable'[i][k] = store_htable[i][l]
    BY <1>5, <1>7 DEF Permuted
  <2> QED BY <2>1 DEF SpecInv, BucketsOK
<1>8. ASSUME NEW x \in path.writes, HeldAt(x)
      PROVE  HeldAt(x)'
  <2>1. x \in Accesses
    BY DEF SpecInv, BucketsOK
  <2>2. HASH_ADDR(x[1]) \in HashSets
    BY <2>1, DataFits, HashIndex
  <2> DEFINE old == store_htable[HASH_ADDR(x[1])]
             new == store_htable'[HASH_ADDR(x[1])]
  <2>3. PICK k \in DOMAIN old :
          old[k].addr = x[1] /\ \A j \in 1 .. x[2] : old[k].data[j] = path.mem[x[1] + j - 1]
    BY <1>8 DEF HeldAt
  <2>4. PICK l \in DOMAIN new : new[l] = old[k]
    BY <1>5, <2>2, <2>3 DEF Permuted
  <2>5. path'.mem = path.mem
    OBVIOUS
  <2> QED BY <2>3, <2>4, <2>5 DEF HeldAt
<1>9. ASSUME ~bugcompat_mode, NEW x \in path.writes, Uncombined(x)'
      PROVE  HeldAt(x)'
  <2>1. Uncombined(x)
    BY <1>9 DEF Uncombined
  <2>2. HeldAt(x)
    BY <1>9, <2>1 DEF SpecInv, BucketsOK
  <2> QED BY <1>8, <2>2
<1>10. /\ path.writes \subseteq Accesses
       /\ DOMAIN path.mem = UNION {Bytes(w[1], w[2]) : w \in path.writes}
       /\ ~spec_mode => path.writes = {}
  BY DEF SpecInv, BucketsOK
<1>11. BucketsOK'
  BY <1>7, <1>9, <1>10 DEF BucketsOK
<1> QED BY <1>6, <1>11

\* Loads reorder chains, of the store table and of the page table.
LEMMA LoadKeeps ==
  ASSUME ConstantsOK, SpecInv, NEW x \in Accesses, SpecLoad(x) \/ Load(x)
  PROVE  SpecInv'
<1>1. x[1] \in Nat
  BY DataFits
<1>2. UNCHANGED <<isa, bugcompat_mode, spec_mode, regs, spec_regs, use_spec, path>>
  BY DEF SpecLoad, Load
<1>3. ptab' = ptab \/ ptab' = mem_translate(ptab, x[1])
  BY DEF SpecLoad, Load
<1>4. PTabOK(ptab)
  BY DEF SpecInv, TypeOK
<1>5. PTabOK(ptab')
  BY <1>1, <1>3, <1>4, TranslateFacts
<1>6. [b \in Addrs |-> ByteOf(ptab', b)] = [b \in Addrs |-> ByteOf(ptab, b)]
  BY <1>1, <1>3, <1>4, SameArchitected
<1>7. TableOK' /\ BucketsOK'
  <2>1. CASE SpecLoad(x)
    BY <1>1, <1>2, <2>1, LookupKeeps DEF SpecLoad
  <2>2. CASE Load(x)
    BY <1>2, <2>2 DEF Load, SpecInv, TypeOK, TableOK, BucketsOK, Uncombined, HeldAt
  <2> QED BY <2>1, <2>2
<1>8. TypeOK'
  BY <1>2, <1>5, <1>7 DEF SpecInv, TypeOK
<1>9. ArchitectedIntact'
  BY <1>2, <1>6 DEF SpecInv, ArchitectedIntact, Architected
<1>10. BitsOK'
  BY <1>2 DEF SpecInv, BitsOK, BitOf
<1> QED BY <1>7, <1>8, <1>9, <1>10 DEF SpecInv

\* A store of a wrong path to a table whose chain holds its bucket in front.
LEMMA StoredKeeps ==
  ASSUME ConstantsOK, SpecInv, NEW x \in Accesses,
         NEW v \in [1 .. x[2] -> Values], NEW d,
         StoredIn(store_htable[HASH_ADDR(x[1])], d, x, v),
         Rechained(x[1], d, store_htable'),
         path'.writes = path.writes \cup {x},
         path'.mem = Over([a \in Bytes(x[1], x[2]) |-> v[a - x[1] + 1]], path.mem),
         spec_mode, spec_mode', bugcompat_mode' = bugcompat_mode
  PROVE  TableOK' /\ BucketsOK'
<1> DEFINE h == HASH_ADDR(x[1])
           c == store_htable[h]
<1>1. /\ x[1] \in Nat /\ x[2] \in Nat /\ x[2] > 0
      /\ h \in HashSets
  BY DataFits, HashIndex
<1>2. /\ store_htable' = [i \in HashSets |-> store_htable'[i]]
      /\ store_htable'[h] = d
      /\ \A i \in HashSets : i # h => store_htable'[i] = store_htable[i]
  BY DEF Rechained
<1>3. TableOK'
  BY <1>2 DEF SpecInv, TypeOK, TableOK, StoredIn
<1>4. /\ path.writes \subseteq Accesses
      /\ DOMAIN path.mem = UNION {Bytes(w[1], w[2]) : w \in path.writes}
  BY DEF SpecInv, BucketsOK
<1>5. /\ DOMAIN path'.mem = Bytes(x[1], x[2]) \cup DOMAIN path.mem
      /\ \A b \in Bytes(x[1], x[2]) : path'.mem[b] = v[b - x[1] + 1]
      /\ \A b \in DOMAIN path.mem \ Bytes(x[1], x[2]) : path'.mem[b] = path.mem[b]
  BY DEF Over
<1>6. /\ path'.writes \subseteq Accesses
      /\ DOMAIN path'.mem = UNION {Bytes(w[1], w[2]) : w \in path'.writes}
  <2>1. path'.writes \subseteq Accesses
    BY <1>4
  <2>2. UNION {Bytes(w[1], w[2]) : w \in path'.writes} =
          Bytes(x[1], x[2]) \cup UNION {Bytes(w[1], w[2]) : w \in path.writes}
    OBVIOUS
  <2> QED BY <1>4, <1>5, <2>1, <2>2
<1>7. ASSUME NEW i \in HashSets, NEW k \in DOMAIN store_htable'[i]
      PROVE  \E w \in path'.writes : store_htable'[i][k].addr = w[1]
  <2>1. \A l \in DOMAIN store_htable[i] :
          \E w \in path'.writes : store_htable[i][l].addr = w[1]
    BY <1>7 DEF SpecInv, BucketsOK
  <2>2. CASE i # h
    BY <1>2, <1>7, <2>1, <2>2
  <2>3. CASE i = h /\ k = 1
    BY <1>2, <2>3 DEF StoredIn
  <2>4. CASE i = h /\ k # 1
    <3>1. PICK l \in DOMAIN c : c[l].addr = d[k].addr
      BY <1>2, <1>7, <2>4 DEF StoredIn
    <3> QED BY <1>2, <2>1, <2>4, <3>1
  <2> QED BY <2>2, <2>3, <2>4
<1>8. HeldAt(x)'
  <2>1. \A j \in 1 .. x[2] : path'.mem[x[1] + j - 1] = v[j]
    <3> SUFFICES ASSUME NEW j \in 1 .. x[2] PROVE path'.mem[x[1] + j - 1] = v[j]
      OBVIOUS
    <3>1. x[1] + j - 1 \in Bytes(x[1], x[2]) /\ (x[1] + j - 1) - x[1] + 1 = j
      BY <1>1 DEF Bytes
    <3> QED BY <1>5, <3>1
  <2>2. /\ 1 \in DOMAIN d /\ d[1].addr = x[1]
        /\ \A j \in 1 .. x[2] : d[1].data[j] = path'.mem[x[1] + j - 1]
    BY <2>1 DEF StoredIn
  <2> QED BY <1>2, <2>2 DEF HeldAt
<1>9. ASSUME ~bugcompat_mode, NEW y \in path.writes, y # x, Uncombined(y)'
      PROVE  HeldAt(y)'
  <2> DEFINE g == HASH_ADDR(y[1])
             old == store_htable[g]
             new == store_htable'[g]
  <2>1. y \in Accesses /\ x \in path'.writes
    BY <1>4
  <2>2. y[1] \in Nat /\ y[2] \in Nat /\ y[2] > 0 /\ g \in HashSets
    BY <2>1, DataFits, HashIndex
  <2>3. Bytes(x[1], x[2]) \cap Bytes(y[1], y[2]) = {}
    BY <1>9, <2>1 DEF Uncombined
  <2>4. y[1] # x[1]
    <3>1. x[1] \in Bytes(x[1], x[2]) /\ y[1] \in Bytes(y[1], y[2])
      BY <1>1, <2>2 DEF Bytes
    <3> QED BY <2>3, <3>1
  <2>5. Uncombined(y)
    BY <1>9 DEF Uncombined
  <2>6. HeldAt(y)
    BY <1>9, <2>5 DEF SpecInv, BucketsOK
  <2>7. PICK k \in DOMAIN old :
          /\ old[k].addr = y[1]
          /\ \A j \in 1 .. y[2] : old[k].data[j] = path.mem[y[1] + j - 1]
    BY <2>6 DEF HeldAt
  <2>8. \E l \in DOMAIN new : new[l] = old[k]
    <3>1. CASE g = h
      BY <1>2, <2>4, <2>7, <3>1 DEF StoredIn
    <3>2. CASE g # h
      BY <1>2, <2>2, <2>7, <3>2
    <3> QED BY <3>1, <3>2
  <2>9. PICK l \in DOMAIN new : new[l] = old[k]
    BY <2>8
  <2>10. \A j \in 1 .. y[2] : path'.mem[y[1] + j - 1] = path.mem[y[1] + j - 1]
    <3> SUFFICES ASSUME NEW j \in 1 .. y[2]
                 PROVE  path'.mem[y[1] + j - 1] = path.mem[y[1] + j - 1]
      OBVIOUS
    <3>1. y[1] + j - 1 \in Bytes(y[1], y[2])
      BY <2>2 DEF Bytes
    <3>2. y[1] + j - 1 \in DOMAIN path.mem
      BY <1>4, <3>1
    <3> QED BY <1>5, <2>3, <3>1, <3>2
  <2> QED BY <2>7, <2>9, <2>10 DEF HeldAt
<1>10. BucketsOK'
  BY <1>6, <1>7, <1>8, <1>9 DEF BucketsOK
<1> QED BY <1>3, <1>10

\* A store of a wrong path touches the store table alone.
LEMMA SpecStoreKeeps ==
  ASSUME ConstantsOK, SpecInv, NEW x \in Accesses,
         NEW v \in [1 .. x[2] -> Values], SpecStore(x, v)
  PROVE  SpecInv'
<1> DEFINE h == HASH_ADDR(x[1])
           c == store_htable[h]
           new == [bucket |-> Head(FreeBuckets), addr |-> x[1], data |-> EmptyData]
           mem == Over([a \in Bytes(x[1], x[2]) |-> v[a - x[1] + 1]], path.mem)
<1>1. x[1] \in Nat /\ h \in HashSets
  BY DataFits, HashIndex
<1>2. /\ UNCHANGED <<isa, bugcompat_mode, spec_mode, regs, spec_regs, use_spec, ptab>>
      /\ path' = [path EXCEPT !.writes = @ \cup {x}, !.mem = mem]
      /\ spec_mode
  BY DEF SpecStore
<1>3. path = [regs |-> path.regs, mem |-> path.mem, writes |-> path.writes,
              entry |-> path.entry]
  BY DEF SpecInv, TypeOK
<1>4. path' = [regs |-> path.regs, mem |-> mem, writes |-> path.writes \cup {x},
               entry |-> path.entry]
  BY <1>2, <1>3
<1>5. /\ path'.regs = path.regs /\ path'.mem = mem
      /\ path'.writes = path.writes \cup {x} /\ path'.entry = path.entry
  BY <1>4
<1>6. TableOK' /\ BucketsOK'
  <2>1. CASE ~Found(c, x[1]) /\ bugcompat_mode
    <3>1. store_htable' = store_htable
      BY <2>1 DEF SpecStore
    <3>2. path'.writes \subseteq Accesses
      BY <1>5 DEF SpecInv, BucketsOK
    <3>3. DOMAIN path'.mem = UNION {Bytes(w[1], w[2]) : w \in path'.writes}
      <4>1. DOMAIN mem = Bytes(x[1], x[2]) \cup DOMAIN path.mem
        BY DEF Over
      <4> QED BY <1>5, <4>1 DEF SpecInv, BucketsOK
    <3>4. \A i \in HashSets : \A k \in DOMAIN store_htable[i] :
            \E w \in path'.writes : store_htable[i][k].addr = w[1]
      BY <1>5 DEF SpecInv, BucketsOK
    <3>5. TableOK'
      BY <3>1 DEF SpecInv, TypeOK, TableOK
    <3> QED BY <1>2, <2>1, <3>1, <3>2, <3>3, <3>4, <3>5 DEF BucketsOK
  <2>2. CASE Found(c, x[1]) \/ ~bugcompat_mode
    <3> DEFINE mid == IF Found(c, x[1]) THEN Lookup(x[1])[h] ELSE <<new>> \o c
               d == [mid EXCEPT ![1].data = Overwrite(@, v)]
    <3>1. store_htable' = [store_htable EXCEPT ![h] = d]
      BY <2>2 DEF SpecStore
    <3>2. TableOK /\ StoreChainOK(c)
      BY <1>1 DEF SpecInv, TypeOK, TableOK
    <3>3. Ready(c, mid, x[1])
      <4>1. CASE Found(c, x[1])
        <5>1. Lookup(x[1])[h] = First(c, Addressed(c, x[1]))
          BY <1>1, <3>2, LookupFacts DEF Rechained
        <5> QED BY <3>2, <4>1, <5>1, BucketFound
      <4>2. CASE ~Found(c, x[1])
        BY <3>2, <4>2, BucketAdded
      <4> QED BY <4>1, <4>2
    <3> HIDE DEF mid
    <3>4. StoredIn(c, d, x, v)
      BY <3>3, StoredChain
    <3> HIDE DEF d
    <3>5. Rechained(x[1], d, store_htable')
      BY <1>1, <3>1, <3>2, RechainedTable
    <3> QED BY <1>2, <1>5, <3>4, <3>5, StoredKeeps
  <2> QED BY <2>1, <2>2 DEF SpecInv, TypeOK
<1> HIDE DEF mem
<1>7. TypeOK'
  BY <1>2, <1>4, <1>5, <1>6 DEF SpecInv, TypeOK
<1>8. ArchitectedIntact'
  BY <1>2, <1>5 DEF SpecInv, ArchitectedIntact, Architected
<1>9. BitsOK'
  BY <1>2, <1>5 DEF SpecInv, BitsOK, BitOf
<1> QED BY <1>6, <1>7, <1>8, <1>9 DEF SpecInv

\* A store outside spec_mode.
LEMMA StoreKeeps ==
  ASSUME ConstantsOK, SpecInv, NEW x \in Accesses,
         NEW v \in [1 .. x[2] -> Values], Store(x, v)
  PROVE  SpecInv'
<1>1. /\ ~spec_mode
      /\ ptab' = mem_access_write(ptab, x, v)
      /\ UNCHANGED <<isa, bugcompat_mode, spec_mode, regs, spec_regs, use_spec,
                     store_htable, path>>
  BY DEF Store
<1>2. PTabOK(ptab')
  BY <1>1, WriteFacts DEF SpecInv, TypeOK
<1>3. TypeOK'
  BY <1>1, <1>2 DEF SpecInv, TypeOK, TableOK
<1>4. ArchitectedIntact'
  BY <1>1 DEF ArchitectedIntact
<1>5. BitsOK'
  BY <1>1 DEF SpecInv, BitsOK, BitOf
<1>6. BucketsOK'
  BY <1>1 DEF SpecInv, BucketsOK, Uncombined, HeldAt
<1> QED BY <1>3, <1>4, <1>5, <1>6 DEF SpecInv

\* The path that is entered has written nothing.
LEMMA MisspeculateKeeps ==
  ASSUME ConstantsOK, SpecInv, Misspeculate
  PROVE  SpecInv'
<1>1. /\ ~spec_mode /\ spec_mode' = TRUE
      /\ path' = [regs |-> <<>>, mem |-> <<>>, writes |-> {}, entry |-> Architected]
      /\ UNCHANGED <<isa, bugcompat_mode, regs, spec_regs, use_spec, ptab,
                     store_htable>>
  BY DEF Misspeculate, NoPath
<1>2. /\ path'.regs = <<>> /\ path'.mem = <<>>
      /\ path'.writes = {} /\ path'.entry = Architected
  BY <1>1
<1>3. TypeOK'
  BY <1>1, <1>2 DEF SpecInv, TypeOK, TableOK
<1>4. ArchitectedIntact'
  BY <1>1, <1>2 DEF ArchitectedIntact, Architected
<1>5. BitsOK'
  <2>1. use_spec = {}
    BY <1>1 DEF SpecInv, BitsOK
  <2> QED BY <1>1, <1>2, <2>1 DEF BitsOK
<1>6. BucketsOK'
  <2>1. path.writes = {}
    BY <1>1 DEF SpecInv, BucketsOK
  <2>2. \A i \in HashSets : DOMAIN store_htable[i] = {}
    BY <2>1 DEF SpecInv, BucketsOK
  <2> QED BY <1>1, <1>2, <2>2 DEF BucketsOK
<1> QED BY <1>3, <1>4, <1>5, <1>6 DEF SpecInv

\* tracer_recover() drops the copies and the buckets of the path.
LEMMA RecoverKeeps ==
  ASSUME ConstantsOK, SpecInv, tracer_recover
  PROVE  SpecInv'
<1>1. /\ spec_mode' = FALSE /\ use_spec' = {}
      /\ store_htable' = [i \in DOMAIN store_htable |-> <<>>]
      /\ path' = NoPath
      /\ UNCHANGED <<isa, bugcompat_mode, regs, spec_regs, ptab>>
  BY DEF tracer_recover
<1>2. /\ path'.regs = <<>> /\ path'.mem = <<>> /\ path'.writes = {}
  BY <1>1 DEF NoPath
<1>3. Chain(<<>>) /\ AddrsDiffer(<<>>) /\ DOMAIN <<>> = {}
  BY DEF Chain, AddrsDiffer
<1>4. DOMAIN store_htable = HashSets
  BY DEF SpecInv, TypeOK, TableOK
<1>5. TableOK'
  BY <1>1, <1>3, <1>4 DEF TableOK, StoreChainOK
<1>6. TypeOK'
  BY <1>1, <1>5 DEF SpecInv, TypeOK, NoPath
<1>7. ArchitectedIntact'
  BY <1>1 DEF ArchitectedIntact
<1>8. BitsOK'
  BY <1>1, <1>2, <1>3 DEF BitsOK
<1>9. BucketsOK'
  BY <1>1, <1>2, <1>3, <1>4 DEF BucketsOK
<1> QED BY <1>6, <1>7, <1>8, <1>9 DEF SpecInv

\* Every step, and stuttering.
LEMMA NextSpecInv ==
  ASSUME ConstantsOK, SpecInv, [Next]_vars
  PROVE  SpecInv'
<1>1. ASSUME NEW rs \in {{r} : r \in RegNames} \cup Pairs, NEW v \in Values,
             WriteRegs(rs, v)
      PROVE  SpecInv'
  <2>1. rs \subseteq RegNames
    BY <1>1 DEF ConstantsOK
  <2> QED BY <1>1, <2>1, WriteRegsKeeps
<1>2. ASSUME NEW x \in Accesses, SpecLoad(x) \/ Load(x)
      PROVE  SpecInv'
  BY <1>2, LoadKeeps
<1>3. ASSUME NEW x \in Accesses, NEW v \in [1 .. x[2] -> Values],
             SpecStore(x, v) \/ Store(x, v)
      PROVE  SpecInv'
  BY <1>3, SpecStoreKeeps, StoreKeeps
<1>4. CASE Misspeculate
  BY <1>4, MisspeculateKeeps
<1>5. CASE tracer_recover
  BY <1>5, RecoverKeeps
<1>6. CASE UNCHANGED vars
  <2>1. TypeOK'
    BY <1>6 DEF vars, SpecInv, TypeOK, TableOK
  <2>2. ArchitectedIntact'
    BY <1>6 DEF vars, SpecInv, ArchitectedIntact, Architected
  <2>3. BitsOK'
    BY <1>6 DEF vars, SpecInv, BitsOK, BitOf
  <2>4. BucketsOK'
    BY <1>6 DEF vars, SpecInv, BucketsOK, Uncombined, HeldAt
  <2> QED BY <2>1, <2>2, <2>3, <2>4 DEF SpecInv
<1> QED BY <1>1, <1>2, <1>3, <1>4, <1>5, <1>6 DEF Next

-----------------------------------------------------------------------------
\* The invariant holds along every behaviour.
THEOREM TracerInvariance == ConstantsOK => (Spec => []SpecInv)
<1> SUFFICES ASSUME ConstantsOK PROVE Spec => []SpecInv
  OBVIOUS
<1>1. Init => SpecInv
  BY InitSpecInv
<1>2. SpecInv /\ [Next]_vars => SpecInv'
  BY NextSpecInv
<1> QED BY <1>1, <1>2, PTL DEF Spec

\* Outside spec_mode nothing is left of a wrong path.
LEMMA Recovered ==
  ASSUME ConstantsOK, SpecInv
  PROVE  NothingLeft
<1> SUFFICES ASSUME ~spec_mode
             PROVE  /\ \A r \in RegNames : ReadReg(r) = regs[r]
                    /\ \A i \in DOMAIN store_htable : store_htable[i] = <<>>
  BY DEF NothingLeft
<1>1. use_spec = {} /\ path.writes = {}
  BY DEF SpecInv, BitsOK, BucketsOK
<1>2. \A r \in RegNames : r \in BitOf(r)
  BY DEF BitOf
<1>3. \A r \in RegNames : ReadReg(r) = regs[r]
  BY <1>1, <1>2 DEF ReadReg
<1>4. ASSUME NEW i \in DOMAIN store_htable
      PROVE  store_htable[i] = <<>>
  <2>1. i \in HashSets /\ Chain(store_htable[i])
    BY <1>4 DEF SpecInv, TypeOK, TableOK, StoreChainOK
  <2>2. DOMAIN store_htable[i] = {}
    BY <1>1, <2>1 DEF SpecInv, BucketsOK
  <2> QED BY <2>1, <2>2 DEF Chain
<1> QED BY <1>3, <1>4

\* The chains of the page table enter no page twice.
LEMMA NoPageTwice ==
  ASSUME SpecInv
  PROVE  PagesDistinct
<1> SUFFICES ASSUME NEW s \in DOMAIN ptab
             PROVE  IsInjective([i \in DOMAIN ptab[s] |-> ptab[s][i].tag])
  BY DEF PagesDistinct
<1>1. TagsDiffer(ptab[s])
  BY DEF SpecInv, TypeOK, PTabOK
<1> QED BY <1>1 DEF TagsDiffer, IsInjective

\* A wrong path runs on a state of its own: ruu_dispatch() executes it without
\* touching the architected state, its reads find what it wrote itself or the
\* architected value, and tracer_recover() leaves nothing of it, however often
\* paths are entered and left and for every program and size of the tables.
THEOREM WrongPathIsolated ==
  ConstantsOK => (Spec => [](/\ ArchitectedIntact /\ RegistersExact /\ StoresExact
                             /\ NothingLeft /\ PagesDistinct))
<1> SUFFICES ASSUME ConstantsOK
             PROVE  Spec => [](/\ ArchitectedIntact /\ RegistersExact /\ StoresExact
                               /\ NothingLeft /\ PagesDistinct)
  OBVIOUS
<1>1. Spec => []SpecInv
  BY TracerInvariance
<1>2. SpecInv => /\ ArchitectedIntact /\ RegistersExact /\ StoresExact
                 /\ NothingLeft /\ PagesDistinct
  BY ReadsExact, LoadsExact, Recovered, NoPageTwice DEF SpecInv
<1> QED BY <1>1, <1>2, PTL
=============================================================================
