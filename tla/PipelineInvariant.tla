------------------------- MODULE PipelineInvariant --------------------------
(*****************************************************************************)
(* The inductive invariant of the out-of-order core, for every size of its   *)
(* queues, every program, every option and every behaviour of caches and     *)
(* predictors, and the operations that leave the window alone: queueing,     *)
(* issue, the release of loads, events and the broadcast of a result.        *)
(*****************************************************************************)
EXTENDS SimOutOrder, FiniteSetTheorems, WellFoundedInduction, TLAPS

-----------------------------------------------------------------------------
(***************************************************************************)
(* Types.                                                                  *)
(***************************************************************************)
Queues == {"RUU", "LSQ"}

Slot(q) == 0..(Size[q] - 1)

Names == Regs \cup {DTMP}

Ops == {"nop", "alu", "mult", "load", "store", "branch", "jump", "jr", "trap",
        "agen"}

\* A link names a slot.
Links == {l \in [q : Queues, i : Nat, tag : Nat, x : Int] : l.i \in Slot(l.q)}

Station ==
  [op : Ops, PC : Nat, next_PC : Nat, in_LSQ : BOOLEAN, ea_comp : BOOLEAN,
   recover_inst : BOOLEAN, spec_mode : BOOLEAN, addr : Nat, tag : Nat,
   seq : Nat, queued : BOOLEAN, issued : BOOLEAN, completed : BOOLEAN,
   onames : [1..2 -> Names \cup {NA}], odep_list : [1..2 -> Seq(Links)],
   idep_ready : [1..3 -> BOOLEAN]]

Creators == {v \in [q : Queues, i : Nat, odep : 1..2] : v.i \in Slot(v.q)}

CoreOK(m) ==
  /\ m = [station |-> m.station, head |-> m.head, tail |-> m.tail,
          num |-> m.num, ready_queue |-> m.ready_queue,
          event_queue |-> m.event_queue, create_vector |-> m.create_vector,
          spec_create_vector |-> m.spec_create_vector,
          use_spec_cv |-> m.use_spec_cv, free_links |-> m.free_links]
  /\ m.station = [q \in Queues |-> m.station[q]]
  /\ \A q \in Queues : m.station[q] \in [Slot(q) -> Station]
  /\ m.head \in [Queues -> Nat] /\ m.tail \in [Queues -> Nat]
  /\ m.num \in [Queues -> Nat]
  /\ \A q \in Queues : /\ m.head[q] \in Slot(q) /\ m.tail[q] \in Slot(q)
                       /\ m.num[q] <= Size[q]
  /\ m.ready_queue \in Seq(Links) /\ m.event_queue \in Seq(Links)
  /\ m.create_vector \in [Names -> Creators \cup {NONE}]
  /\ m.spec_create_vector \in [Names -> Creators \cup {NONE}]
  /\ m.use_spec_cv \subseteq Names

-----------------------------------------------------------------------------
(***************************************************************************)
(* The invariant, in parts.                                                *)
(***************************************************************************)
\* Slot i of queue q holds an operation in flight.
In(m, q, i) == Distance(m, q, i) < m.num[q]

\* The queue pointers agree with the counts.
Ring(m) ==
  \A q \in Queues : m.tail[q] = (m.head[q] + m.num[q]) % Size[q]

\* What kinds of operations are in which queue.
Kind(q, rs) ==
  /\ rs.in_LSQ <=> q = "LSQ"
  /\ q = "LSQ" <=> rs.op \in {"load", "store"}
  /\ rs.ea_comp <=> rs.op = "agen"
  /\ rs.recover_inst => q = "RUU" /\ ~rs.ea_comp
  /\ rs.op = "agen" => rs.onames = <<DTMP, NA>>
  /\ rs.op # "agen" => rs.onames[1] # DTMP /\ rs.onames[2] # DTMP
  /\ rs.op = "store" => rs.onames[1] = NA /\ rs.onames[2] = NA
  /\ rs.onames[1] = rs.onames[2] => rs.onames[1] = NA

Kinds(m) ==
  \A q \in Queues : \A i \in Slot(q) : In(m, q, i) => Kind(q, m.station[q][i])

\* Sequence numbers grow along each queue, and an address computation leaves
\* room for its memory access.
LastSeq(rs) == IF rs.ea_comp THEN rs.seq + 1 ELSE rs.seq

Ordered(m, last) ==
  \A q \in Queues : \A i \in Slot(q) : In(m, q, i) =>
    /\ LastSeq(m.station[q][i]) <= last
    /\ \A j \in Slot(q) :
         In(m, q, j) /\ Distance(m, q, i) < Distance(m, q, j) =>
           LastSeq(m.station[q][i]) < m.station[q][j].seq

\* The address computation in the RUU and the access in the LSQ of one
\* instruction.
Pair(m, i, j) ==
  LET a == m.station["RUU"][i]
      b == m.station["LSQ"][j]
  IN  a.ea_comp /\ b.seq = a.seq + 1 /\ b.PC = a.PC

Paired(m) ==
  /\ \A j \in Slot("LSQ") : In(m, "LSQ", j) =>
       \E i \in Slot("RUU") : In(m, "RUU", i) /\ Pair(m, i, j)
  /\ \A i \in Slot("RUU") : In(m, "RUU", i) /\ m.station["RUU"][i].ea_comp =>
       \E j \in Slot("LSQ") : In(m, "LSQ", j) /\ Pair(m, i, j)

\* The mispredicted operation that still has to complete.
Culprit(m, c) ==
  /\ In(m, "RUU", c)
  /\ m.station["RUU"][c].recover_inst /\ ~m.station["RUU"][c].completed
  /\ \A q \in Queues : \A i \in Slot(q) : In(m, q, i) =>
       LET rs == m.station[q][i] IN
       /\ rs.spec_mode <=> m.station["RUU"][c].seq < rs.seq
       /\ rs.recover_inst /\ ~rs.completed => q = "RUU" /\ i = c

Boundary(m, mode) ==
  /\ mode => \E c \in Slot("RUU") : Culprit(m, c)
  /\ ~mode => \A q \in Queues : \A i \in Slot(q) : In(m, q, i) =>
                LET rs == m.station[q][i]
                IN  ~rs.spec_mode /\ (rs.recover_inst => rs.completed)

\* How the flags of an operation go together.  An operation with all its
\* operands has been scheduled unless it is a load, or in N: about to be.
FlagsOK(m, N) ==
  \A q \in Queues : \A i \in Slot(q) : In(m, q, i) =>
    LET rs == m.station[q][i] IN
    /\ rs.queued => OPERANDS_READY(rs) /\ ~rs.issued
    /\ rs.issued => OPERANDS_READY(rs)
    /\ rs.completed => rs.issued
    /\ OPERANDS_READY(rs) /\ ~rs.queued /\ ~rs.issued =>
         rs.op = "load" \/ <<q, i>> \in N

\* A link with the tag of its slot is to an operation in flight.
LinkOK(m, l) ==
  /\ l.tag <= m.station[l.q][l.i].tag
  /\ l.tag = m.station[l.q][l.i].tag => In(m, l.q, l.i)

SameTarget(a, b) == a.q = b.q /\ a.i = b.i /\ a.tag = b.tag

Targets(m, l, q, i) == l.q = q /\ l.i = i /\ l.tag = m.station[q][i].tag

NoTwoTargets(s) ==
  \A j, k \in 1..Len(s) : SameTarget(s[j], s[k]) => j = k

\* The operations that are queued are those in the ready list or in the list
\* being issued from, once.
ReadyOK(m, list) ==
  /\ \A k \in 1..Len(m.ready_queue) :
       LET l == m.ready_queue[k] IN
       LinkOK(m, l) /\ (RSLINK_VALID(m, l) => RS(m, l).queued)
  /\ \A k \in 1..Len(list) :
       LET l == list[k] IN
       LinkOK(m, l) /\ (RSLINK_VALID(m, l) => RS(m, l).queued)
  /\ NoTwoTargets(m.ready_queue) /\ NoTwoTargets(list)
  /\ \A j \in 1..Len(m.ready_queue), k \in 1..Len(list) :
       ~SameTarget(m.ready_queue[j], list[k])
  /\ \A q \in Queues : \A i \in Slot(q) :
       In(m, q, i) /\ m.station[q][i].queued =>
         \/ \E k \in 1..Len(m.ready_queue) : Targets(m, m.ready_queue[k], q, i)
         \/ \E k \in 1..Len(list) : Targets(m, list[k], q, i)

\* The operations that execute are those with an event.
EventsOK(m) ==
  /\ \A k \in 1..Len(m.event_queue) :
       LET l == m.event_queue[k] IN
       /\ LinkOK(m, l)
       /\ RSLINK_VALID(m, l) => RS(m, l).issued /\ ~RS(m, l).completed
  /\ NoTwoTargets(m.event_queue)
  /\ \A q \in Queues : \A i \in Slot(q) :
       /\ In(m, q, i) /\ m.station[q][i].issued /\ ~m.station[q][i].completed
       => \E k \in 1..Len(m.event_queue) : Targets(m, m.event_queue[k], q, i)

\* The chains of waiting operations.  Outputs in X belong to an operation that
\* is completing and have not been broadcast yet; inputs in U have not been
\* linked yet.
Chain(m, q, i, d) == m.station[q][i].odep_list[d]

ChainsOK(m, X, U) ==
  /\ \A q \in Queues : \A i \in Slot(q) : \A d \in 1..2 :
       Chain(m, q, i, d) # <<>> =>
         /\ In(m, q, i) /\ m.station[q][i].onames[d] # NA
         /\ m.station[q][i].completed => <<q, i, d>> \in X
  /\ \A q \in Queues : \A i \in Slot(q) : \A d \in 1..2 :
       \A k \in 1..Len(Chain(m, q, i, d)) :
         LET l == Chain(m, q, i, d)[k] IN
         /\ LinkOK(m, l) /\ l.x \in 1..3
         /\ RSLINK_VALID(m, l) =>
              /\ ~RS(m, l).idep_ready[l.x] /\ <<l.q, l.i, l.x>> \notin U
              /\ m.station[q][i].seq < RS(m, l).seq
  /\ \A q, p \in Queues : \A i \in Slot(q), j \in Slot(p) : \A d, e \in 1..2 :
       \A k \in 1..Len(Chain(m, q, i, d)), h \in 1..Len(Chain(m, p, j, e)) :
         LET a == Chain(m, q, i, d)[k]
             b == Chain(m, p, j, e)[h]
         IN  SameTarget(a, b) /\ a.x = b.x =>
               q = p /\ i = j /\ d = e /\ k = h
  /\ \A q \in Queues : \A i \in Slot(q) : \A o \in 1..3 :
       In(m, q, i) /\ ~m.station[q][i].idep_ready[o] /\ <<q, i, o>> \notin U =>
         \E p \in Queues : \E j \in Slot(p) : \E d \in 1..2 :
           \E k \in 1..Len(Chain(m, p, j, d)) :
             LET l == Chain(m, p, j, d)[k]
             IN  Targets(m, l, q, i) /\ l.x = o

\* The create vectors.  Output d of slot i writes the register; the youngest
\* writer is named, or has completed.
Writes(m, q, i, d, name) ==
  In(m, q, i) /\ m.station[q][i].onames[d] = name

\* v is the youngest writer of the register among all operations in flight, or
\* among those of the correct path; there is none if that one has completed.
Precise(m, v, name, all, X) ==
  LET W(q, i, d) == /\ Writes(m, q, i, d, name)
                    /\ all \/ ~m.station[q][i].spec_mode
  IN  /\ v # NONE =>
           /\ W(v.q, v.i, v.odep)
           /\ m.station[v.q][v.i].completed => <<v.q, v.i, v.odep>> \in X
           /\ \A q \in Queues : \A i \in Slot(q) : \A d \in 1..2 :
                W(q, i, d) => m.station[q][i].seq <= m.station[v.q][v.i].seq
      /\ v = NONE =>
           \A q \in Queues : \A i \in Slot(q) : \A d \in 1..2 :
             W(q, i, d) =>
               \/ m.station[q][i].completed
               \/ \E p \in Queues : \E j \in Slot(p) : \E e \in 1..2 :
                    W(p, j, e) /\ m.station[q][i].seq < m.station[p][j].seq

CreatorsOK(m, X) ==
  \A name \in Names :
    /\ Precise(m, m.create_vector[name], name, FALSE, X)
    /\ Precise(m, CREATE_VECTOR(m, name), name, TRUE, X)
    /\ name \in m.use_spec_cv /\ m.spec_create_vector[name] # NONE =>
         RS(m, m.spec_create_vector[name]).spec_mode

\* The loads that have been released, and the older stores.
LoadsOK(m) ==
  \A s, p \in Slot("LSQ") :
    LET store == m.station["LSQ"][s]
        load == m.station["LSQ"][p]
    IN  /\ In(m, "LSQ", s) /\ In(m, "LSQ", p)
        /\ Distance(m, "LSQ", s) < Distance(m, "LSQ", p)
        /\ store.op = "store" /\ load.op = "load"
        /\ load.queued \/ load.issued
        => /\ STORE_ADDR_READY(store)
           /\ \/ store.addr # load.addr \/ OPERANDS_READY(store)
              \/ \E t \in Slot("LSQ") :
                   /\ Distance(m, "LSQ", s) < Distance(m, "LSQ", t)
                   /\ Distance(m, "LSQ", t) < Distance(m, "LSQ", p)
                   /\ m.station["LSQ"][t].op = "store"
                   /\ m.station["LSQ"][t].addr = load.addr

\* Only a control instruction of program t is predicted to go anywhere but on.
Straight(t, f) ==
  LET op == IF f.PC \in DOMAIN t THEN t[f.PC].op ELSE "nop"
      on == IF f.PC \in DOMAIN t THEN f.PC + 1 ELSE Len(t) + 1
  IN  ~IsCtrl(op) => f.pred_PC = on

FetchedOK(t, s) ==
  /\ s \in Seq([PC : Nat, pred_PC : Nat]) /\ Len(s) <= ruu_ifq_size
  /\ \A k \in 1..Len(s) : Straight(t, s[k])

\* The state outside the core.
FrontOK ==
  /\ text \in Programs /\ config \in Configs
  /\ FetchedOK(text, ifq) /\ fu_busy \in [Units -> Nat]
  /\ fetch_pred_PC \in Nat /\ recover_PC \in Nat
  /\ spec_mode \in BOOLEAN /\ inst_seq \in Nat
  /\ nodes \in Seq(Links)
  /\ stage \in {"commit", "writeback", "refresh", "issue", "dispatch",
                "fetch", "halted"}
  /\ stage # "issue" => nodes = <<>>
  /\ ~spec_mode => core.use_spec_cv = {}

IInv ==
  /\ FrontOK /\ CoreOK(core) /\ Ring(core)
  /\ Kinds(core) /\ Ordered(core, inst_seq) /\ Paired(core)
  /\ Boundary(core, spec_mode)
  /\ FlagsOK(core, {}) /\ ReadyOK(core, nodes) /\ EventsOK(core)
  /\ ChainsOK(core, {}, {}) /\ CreatorsOK(core, {}) /\ LoadsOK(core)

-----------------------------------------------------------------------------
(*****************************************************************************)
(* Circular buffers.                                                         *)
(*****************************************************************************)
\* The sizes of the queues.
LEMMA SizeType ==
  /\ Size["RUU"] = RUU_size /\ Size["LSQ"] = LSQ_size
  /\ \A q \in Queues : Size[q] \in Nat /\ Size[q] > 0
BY SizesAssumption DEF Size, Queues

\* What % returns within one turn of the buffer.
LEMMA Mod ==
  ASSUME NEW N \in Nat, N > 0, NEW a \in Int
  PROVE  /\ 0 <= a /\ a < N => a % N = a
         /\ N <= a /\ a < 2 * N => a % N = a - N
         /\ -N <= a /\ a < 0 => a % N = a + N
         /\ a % N \in 0..(N - 1)
<1>1. a % N \in 0..(N - 1)
  OBVIOUS
<1>2. 0 <= a /\ a < N => a % N = a
  OBVIOUS
<1>3. N <= a /\ a < 2 * N => a % N = a - N
  OBVIOUS
<1>4. -N <= a /\ a < 0 => a % N = a + N
  OBVIOUS
<1> QED BY <1>1, <1>2, <1>3, <1>4

\* The types of the pointers of a queue.
LEMMA Pointers ==
  ASSUME NEW m, CoreOK(m), NEW q \in Queues
  PROVE  /\ m.head[q] \in Nat /\ m.head[q] < Size[q]
         /\ m.tail[q] \in Nat /\ m.tail[q] < Size[q]
         /\ m.num[q] \in Nat /\ m.num[q] <= Size[q]
         /\ Size[q] \in Nat /\ Size[q] > 0
BY SizeType DEF CoreOK, Slot

\* The distance of a slot from the head.
LEMMA DistanceIs ==
  ASSUME NEW m, CoreOK(m), NEW q \in Queues, NEW i \in Slot(q)
  PROVE  /\ Distance(m, q, i) = IF i >= m.head[q] THEN i - m.head[q]
                                ELSE i - m.head[q] + Size[q]
         /\ Distance(m, q, i) \in 0..(Size[q] - 1)
<1>1. i \in Int /\ i - m.head[q] \in Int
  BY Pointers DEF Slot
<1> QED BY <1>1, Pointers, Mod DEF Distance, Slot

\* The distance determines the slot.
LEMMA DistanceInjective ==
  ASSUME NEW m, CoreOK(m), NEW q \in Queues, NEW i \in Slot(q), NEW j \in Slot(q),
         Distance(m, q, i) = Distance(m, q, j)
  PROVE  i = j
BY DistanceIs, Pointers DEF Slot

\* The slot at a distance.
LEMMA SlotAt ==
  ASSUME NEW m, CoreOK(m), NEW q \in Queues, NEW k \in 0..(Size[q] - 1)
  PROVE  /\ (m.head[q] + k) % Size[q] \in Slot(q)
         /\ Distance(m, q, (m.head[q] + k) % Size[q]) = k
<1>1. m.head[q] + k \in Int
  BY Pointers
<1>2. (m.head[q] + k) % Size[q] \in Slot(q)
  BY <1>1, Mod, Pointers DEF Slot
<1>3. (m.head[q] + k) % Size[q] = IF m.head[q] + k < Size[q] THEN m.head[q] + k
                                  ELSE m.head[q] + k - Size[q]
  BY <1>1, Mod, Pointers
<1> QED BY <1>2, <1>3, DistanceIs, Pointers

\* A slot is the one at its own distance from the head.
LEMMA SlotOf ==
  ASSUME NEW m, CoreOK(m), NEW q \in Queues, NEW i \in Slot(q)
  PROVE  (m.head[q] + Distance(m, q, i)) % Size[q] = i
BY SlotAt, DistanceIs, DistanceInjective

\* The tail is the slot after the last operation.
LEMMA TailIs ==
  ASSUME NEW m, CoreOK(m), Ring(m), NEW q \in Queues
  PROVE  /\ m.tail[q] \in Slot(q)
         /\ m.num[q] < Size[q] => Distance(m, q, m.tail[q]) = m.num[q]
         /\ m.num[q] < Size[q] => ~In(m, q, m.tail[q])
<1>1. m.tail[q] \in Slot(q)
  BY DEF CoreOK
<1>2. m.num[q] < Size[q] => Distance(m, q, m.tail[q]) = m.num[q]
  BY SlotAt, Pointers DEF Ring
<1> QED BY <1>1, <1>2, Pointers DEF In

\* The operations in flight, by distance.
LEMMA SlotsIn ==
  ASSUME CoreOK(core), NEW q \in Queues
  PROVE  Slots(q) = {i \in Slot(q) : In(core, q, i)}
<1>1. ASSUME NEW i \in Slots(q)
      PROVE  i \in Slot(q) /\ In(core, q, i)
  <2>1. PICK k \in 0..(core.num[q] - 1) : i = (core.head[q] + k) % Size[q]
    BY DEF Slots
  <2> QED BY <2>1, SlotAt, Pointers DEF In
<1>2. ASSUME NEW i \in Slot(q), In(core, q, i)
      PROVE  i \in Slots(q)
  <2>1. Distance(core, q, i) \in 0..(core.num[q] - 1)
    BY <1>2, DistanceIs, Pointers DEF In
  <2> QED BY <2>1, SlotOf DEF Slots
<1> QED BY <1>1, <1>2

-----------------------------------------------------------------------------
(*****************************************************************************)
(* Lists.                                                                    *)
(*****************************************************************************)
\* A set of natural numbers has a least one.
LEMMA LeastNumber ==
  ASSUME NEW T, T \subseteq Nat, T # {}
  PROVE  \E k \in T : \A j \in T : k <= j
<1>1. PICK k \in T : \A j \in T : ~ (<<j, k>> \in OpToRel(<, Nat))
  BY NatLessThanWellFounded, WFMin
<1>2. \A j \in Nat : j < k => <<j, k>> \in OpToRel(<, Nat)
  BY Zenon DEF OpToRel
<1>3. \A j \in T : ~ (j < k)
  BY <1>1, <1>2
<1>4. \A j \in T : k <= j
  BY <1>3
<1> QED BY <1>4

(***************************************************************************)
(* Lists of links.                                                         *)
(***************************************************************************)
\* e was inserted into s.
Inserted(s, s2, e) ==
  /\ Len(s2) = Len(s) + 1
  /\ \E p \in 0..Len(s) :
       /\ s2[p + 1] = e
       /\ \A k \in 1..Len(s) : s2[IF k <= p THEN k ELSE k + 1] = s[k]

\* Insertion at a position.
LEMMA InsertAtInserts ==
  ASSUME NEW S, NEW s \in Seq(S), NEW e \in S, NEW k \in 1..(Len(s) + 1)
  PROVE  /\ InsertAt(s, k, e) \in Seq(S)
         /\ Inserted(s, InsertAt(s, k, e), e)
<1> DEFINE a == SubSeq(s, 1, k - 1)
           b == SubSeq(s, k, Len(s))
           t == InsertAt(s, k, e)
<1>1. a \in Seq(S) /\ Len(a) = k - 1 /\ \A h \in 1..(k - 1) : a[h] = s[h]
  OBVIOUS
<1>2. /\ b \in Seq(S) /\ Len(b) = Len(s) - k + 1
      /\ \A h \in 1..(Len(s) - k + 1) : b[h] = s[k + h - 1]
  OBVIOUS
<1>3. t = (a \o <<e>>) \o b
  BY DEF InsertAt
<1> HIDE DEF a, b, t
<1> DEFINE c == a \o <<e>>
<1>a. c \in Seq(S) /\ Len(c) = k /\ c[k] = e /\ \A h \in 1..(k - 1) : c[h] = s[h]
  BY <1>1
<1>b. t = c \o b
  BY <1>3
<1> HIDE DEF c
<1>4. t \in Seq(S) /\ Len(t) = Len(s) + 1 /\ t[k] = e
  <2>1. t \in Seq(S) /\ Len(t) = k + (Len(s) - k + 1)
    BY <1>a, <1>2, <1>b
  <2>2. k \in 1..Len(c)
    BY <1>a
  <2>3. t[k] = c[k]
    BY <1>a, <1>2, <1>b, <2>2
  <2> QED BY <1>a, <2>1, <2>3
<1>5. ASSUME NEW h \in 1..Len(s)
      PROVE  t[IF h <= k - 1 THEN h ELSE h + 1] = s[h]
  <2>1. CASE h <= k - 1
    BY <1>a, <1>2, <1>b, <2>1
  <2>2. CASE h > k - 1
    <3>1. h + 1 - k \in 1..Len(b) /\ b[h + 1 - k] = s[h]
      BY <1>2, <2>2
    <3>2. t[h + 1] = b[h + 1 - k]
      BY <1>a, <1>2, <1>b, <2>2, <3>1
    <3> QED BY <2>2, <3>1, <3>2
  <2> QED BY <2>1, <2>2
<1>6. k - 1 \in 0..Len(s) /\ t[(k - 1) + 1] = e
  BY <1>4
<1>7. Inserted(s, t, e)
  BY <1>4, <1>5, <1>6 DEF Inserted
<1> QED BY <1>4, <1>7 DEF t

\* Prepending inserts at the front.
LEMMA ConsInserts ==
  ASSUME NEW S, NEW s \in Seq(S), NEW e \in S
  PROVE  /\ <<e>> \o s \in Seq(S)
         /\ Inserted(s, <<e>> \o s, e)
<1> DEFINE t == <<e>> \o s
<1>1. t \in Seq(S) /\ Len(t) = Len(s) + 1 /\ t[0 + 1] = e
  OBVIOUS
<1>2. \A k \in 1..Len(s) : t[IF k <= 0 THEN k ELSE k + 1] = s[k]
  OBVIOUS
<1>3. 0 \in 0..Len(s)
  OBVIOUS
<1> HIDE DEF t
<1>4. Inserted(s, t, e)
  BY <1>1, <1>2, <1>3 DEF Inserted
<1> QED BY <1>1, <1>4 DEF t

\* Insertion before the first element that is not smaller.
Insertion(s, e, x) == InsertBefore(s, e, LAMBDA f : f.x >= x)

\* The insertion of the ready list and the event queue inserts at some place.
LEMMA InsertionInserts ==
  ASSUME NEW S, NEW s \in Seq(S), NEW e \in S, NEW x
  PROVE  Insertion(s, e, x) \in Seq(S) /\ Inserted(s, Insertion(s, e, x), e)
<1>1. PICK k \in 1..(Len(s) + 1) : Insertion(s, e, x) = InsertAt(s, k, e)
  <2> DEFINE I == {i \in 1..Len(s) : s[i].x >= x}
             c == SelectInSeq(s, LAMBDA f : f.x >= x)
  <2>1. c = IF I # {} THEN Min(I) ELSE 0
    BY DEF SelectInSeq
  <2>2. ASSUME I # {} PROVE Min(I) \in I
    <3>1. I \subseteq Nat
      OBVIOUS
    <3> HIDE DEF I
    <3>2. \E k \in I : \A j \in I : k <= j
      BY <2>2, <3>1, LeastNumber
    <3> QED BY <3>2, Zenon DEF Min
  <2>3. c \in 0..Len(s)
    BY <2>1, <2>2
  <2>4. Insertion(s, e, x) = InsertAt(s, IF c = 0 THEN Len(s) + 1 ELSE c, e)
    BY DEF Insertion, InsertBefore
  <2> HIDE DEF c
  <2>5. (IF c = 0 THEN Len(s) + 1 ELSE c) \in 1..(Len(s) + 1)
    BY <2>3
  <2> QED BY <2>4, <2>5, Zenon
<1> QED BY <1>1, InsertAtInserts

\* What insertion does to the elements, and to the absence of two links to one
\* operation.
LEMMA InsertedElements ==
  ASSUME NEW S, NEW s \in Seq(S), NEW t \in Seq(S), NEW e, Inserted(s, t, e)
  PROVE  /\ \A k \in 1..Len(t) : t[k] = e \/ \E j \in 1..Len(s) : t[k] = s[j]
         /\ \E k \in 1..Len(t) : t[k] = e
         /\ \A j \in 1..Len(s) : \E k \in 1..Len(t) : t[k] = s[j]
<1>1. PICK p \in 0..Len(s) :
        /\ t[p + 1] = e
        /\ \A k \in 1..Len(s) : t[IF k <= p THEN k ELSE k + 1] = s[k]
  BY DEF Inserted
<1>2. Len(t) = Len(s) + 1
  BY DEF Inserted
<1>3. ASSUME NEW k \in 1..Len(t), k # p + 1
      PROVE  \E j \in 1..Len(s) : t[k] = s[j]
  <2>1. CASE k <= p
    <3>1. k \in 1..Len(s) /\ t[k] = s[k]
      BY <1>1, <1>2, <2>1
    <3> QED BY <3>1
  <2>2. CASE k > p
    <3>1. k - 1 \in 1..Len(s) /\ ~(k - 1 <= p) /\ (k - 1) + 1 = k
      BY <1>2, <1>3, <2>2
    <3>2. t[k] = s[k - 1]
      BY <1>1, <3>1
    <3> QED BY <3>1, <3>2
  <2> QED BY <2>1, <2>2
<1>4. ASSUME NEW j \in 1..Len(s)
      PROVE  \E k \in 1..Len(t) : t[k] = s[j]
  <2>1. (IF j <= p THEN j ELSE j + 1) \in 1..Len(t)
    BY <1>2
  <2> QED BY <1>1, <2>1
<1>5. p + 1 \in 1..Len(t)
  BY <1>2
<1> QED BY <1>1, <1>3, <1>4, <1>5

\* The same for lists of links, for all of them at once.
LEMMA InsertedLinks ==
  \A s, t \in Seq(Links) : \A e : Inserted(s, t, e) =>
    /\ \A k \in 1..Len(t) : t[k] = e \/ \E j \in 1..Len(s) : t[k] = s[j]
    /\ \E k \in 1..Len(t) : t[k] = e
    /\ \A j \in 1..Len(s) : \E k \in 1..Len(t) : t[k] = s[j]
<1> SUFFICES ASSUME NEW s \in Seq(Links), NEW t \in Seq(Links), NEW e, Inserted(s, t, e)
             PROVE  /\ \A k \in 1..Len(t) : t[k] = e \/ \E j \in 1..Len(s) : t[k] = s[j]
                    /\ \E k \in 1..Len(t) : t[k] = e
                    /\ \A j \in 1..Len(s) : \E k \in 1..Len(t) : t[k] = s[j]
  OBVIOUS
<1> QED BY InsertedElements

\* A list that names nobody twice still does so after somebody new is
\* inserted.
LEMMA InsertedTargets ==
  ASSUME NEW S, NEW s \in Seq(S), NEW t \in Seq(S), NEW e, Inserted(s, t, e),
         NoTwoTargets(s), \A k \in 1..Len(s) : ~SameTarget(s[k], e)
  PROVE  NoTwoTargets(t)
<1>1. PICK p \in 0..Len(s) :
        /\ t[p + 1] = e
        /\ \A k \in 1..Len(s) : t[IF k <= p THEN k ELSE k + 1] = s[k]
  BY DEF Inserted
<1>2. Len(t) = Len(s) + 1
  BY DEF Inserted
<1> DEFINE g(k) == IF k <= p THEN k ELSE k - 1
<1>3. ASSUME NEW k \in 1..Len(t), k # p + 1
      PROVE  g(k) \in 1..Len(s) /\ t[k] = s[g(k)]
  <2>1. CASE k <= p
    BY <1>1, <1>2, <2>1
  <2>2. CASE k > p
    <3>1. k - 1 \in 1..Len(s) /\ ~(k - 1 <= p) /\ (k - 1) + 1 = k /\ ~(k <= p)
      BY <1>2, <1>3, <2>2
    <3>2. t[k] = s[k - 1]
      BY <1>1, <3>1
    <3> QED BY <3>1, <3>2
  <2> QED BY <2>1, <2>2
<1>4. ASSUME NEW j \in 1..Len(t), NEW k \in 1..Len(t), j # p + 1, k # p + 1,
             SameTarget(t[j], t[k])
      PROVE  j = k
  <2>1. g(j) = g(k)
    BY <1>3, <1>4 DEF NoTwoTargets
  <2> QED BY <2>1, <1>4
<1>5. ASSUME NEW k \in 1..Len(t), k # p + 1
      PROVE  ~SameTarget(t[k], e) /\ ~SameTarget(e, t[k])
  BY <1>3, <1>5 DEF SameTarget
<1>6. p + 1 \in 1..Len(t)
  BY <1>2
<1>7. SUFFICES ASSUME NEW j \in 1..Len(t), NEW k \in 1..Len(t), SameTarget(t[j], t[k])
      PROVE  j = k
  BY DEF NoTwoTargets
<1>8. CASE j = p + 1 /\ k # p + 1
  BY <1>1, <1>5, <1>7, <1>8
<1>9. CASE j # p + 1 /\ k = p + 1
  BY <1>1, <1>5, <1>7, <1>9
<1>10. CASE j # p + 1 /\ k # p + 1
  BY <1>4, <1>7, <1>10
<1> QED BY <1>8, <1>9, <1>10

\* Removal of the first link.
LEMMA TailElements ==
  ASSUME NEW S, NEW s \in Seq(S), s # <<>>
  PROVE  /\ Head(s) \in S /\ Head(s) = s[1] /\ 1 \in 1..Len(s)
         /\ Tail(s) \in Seq(S) /\ Len(Tail(s)) = Len(s) - 1 /\ Len(s) >= 1
         /\ \A k \in 1..Len(Tail(s)) : Tail(s)[k] = s[k + 1] /\ k + 1 \in 1..Len(s)
         /\ \A k \in 1..Len(s) : k # 1 =>
              k - 1 \in 1..Len(Tail(s)) /\ s[k] = Tail(s)[k - 1]
OBVIOUS

-----------------------------------------------------------------------------
(*****************************************************************************)
(* What the operations do to a core.                                         *)
(*****************************************************************************)
\* A slot holds a station.
LEMMA StationType ==
  ASSUME NEW m, CoreOK(m), NEW q \in Queues, NEW i \in Slot(q)
  PROVE  m.station[q][i] \in Station
BY DEF CoreOK

\* The types of the fields of a station.
LEMMA StationFields ==
  ASSUME NEW a \in Station
  PROVE  /\ a.seq \in Nat /\ a.tag \in Nat /\ a.addr \in Nat /\ a.PC \in Nat
         /\ a.op \in Ops /\ a.in_LSQ \in BOOLEAN /\ a.ea_comp \in BOOLEAN
         /\ a.recover_inst \in BOOLEAN /\ a.spec_mode \in BOOLEAN
         /\ a.queued \in BOOLEAN /\ a.issued \in BOOLEAN /\ a.completed \in BOOLEAN
         /\ a.onames \in [1..2 -> Names \cup {NA}]
         /\ a.odep_list \in [1..2 -> Seq(Links)]
         /\ a.idep_ready \in [1..3 -> BOOLEAN]
BY DEF Station

\* Stations with a field changed.
LEMMA StationUpdates ==
  ASSUME NEW a \in Station
  PROVE  /\ [a EXCEPT !.queued = TRUE] \in Station
         /\ [a EXCEPT !.queued = FALSE] \in Station
         /\ [a EXCEPT !.queued = FALSE, !.issued = TRUE] \in Station
         /\ [a EXCEPT !.queued = FALSE, !.issued = TRUE, !.completed = TRUE] \in Station
         /\ [a EXCEPT !.completed = TRUE] \in Station
         /\ [a EXCEPT !.recover_inst = TRUE] \in Station
         /\ [a EXCEPT !.tag = @ + 1] \in Station
         /\ \A k \in 1..3 : [a EXCEPT !.idep_ready[k] = TRUE] \in Station
         /\ \A k \in 1..3 : [a EXCEPT !.idep_ready[k] = FALSE] \in Station
         /\ \A k \in 1..2, s \in Seq(Links) : [a EXCEPT !.odep_list[k] = s] \in Station
         /\ \A k \in 1..2, name \in Names \cup {NA} : [a EXCEPT !.onames[k] = name] \in Station
         /\ [a EXCEPT !.tag = @ + 1, !.odep_list = <<<<>>, <<>>>>] \in Station
<1>1. \A k \in 1..2, s \in Seq(Links) : [a EXCEPT !.odep_list[k] = s] \in Station
  BY DEF Station
<1>2. \A k \in 1..2, name \in Names \cup {NA} : [a EXCEPT !.onames[k] = name] \in Station
  BY DEF Station
<1>3. \A k \in 1..3 : [a EXCEPT !.idep_ready[k] = TRUE] \in Station
  BY DEF Station
<1>4. \A k \in 1..3 : [a EXCEPT !.idep_ready[k] = FALSE] \in Station
  BY DEF Station
<1>5. <<<<>>, <<>>>> \in [1..2 -> Seq(Links)]
  <2>1. <<>> \in Seq(Links)
    OBVIOUS
  <2>2. \A e \in Seq(Links) : <<e, e>> \in [1..2 -> Seq(Links)]
    OBVIOUS
  <2> QED BY <2>1, <2>2
<1>a. a.tag + 1 \in Nat
  BY DEF Station
<1>6. [a EXCEPT !.tag = @ + 1, !.odep_list = <<<<>>, <<>>>>] \in Station
  <2>1. \A t \in Nat, o \in [1..2 -> Seq(Links)] : [a EXCEPT !.tag = t, !.odep_list = o] \in Station
    BY DEF Station
  <2>2. [a EXCEPT !.tag = a.tag + 1, !.odep_list = <<<<>>, <<>>>>] \in Station
    BY <1>5, <1>a, <2>1
  <2> QED BY <2>2
<1>7. [a EXCEPT !.queued = TRUE] \in Station /\ [a EXCEPT !.queued = FALSE] \in Station
  BY DEF Station
<1>8. [a EXCEPT !.queued = FALSE, !.issued = TRUE] \in Station
  BY DEF Station
<1>9. [a EXCEPT !.queued = FALSE, !.issued = TRUE, !.completed = TRUE] \in Station
  BY DEF Station
<1>10. [a EXCEPT !.completed = TRUE] \in Station /\ [a EXCEPT !.recover_inst = TRUE] \in Station
  BY DEF Station
<1>11. [a EXCEPT !.tag = @ + 1] \in Station
  BY <1>a DEF Station
<1> QED BY <1>1, <1>2, <1>3, <1>4, <1>6, <1>7, <1>8, <1>9, <1>10, <1>11

\* A link to a slot.
LEMMA LinkType ==
  ASSUME NEW m, CoreOK(m), NEW r, r.q \in Queues, r.i \in Slot(r.q), NEW x \in Int
  PROVE  /\ Link(m, r, x) \in Links
         /\ Link(m, r, x).q = r.q /\ Link(m, r, x).i = r.i /\ Link(m, r, x).x = x
         /\ Link(m, r, x).tag = m.station[r.q][r.i].tag
<1>1. m.station[r.q][r.i].tag \in Nat
  BY StationType, StationFields
<1>2. r.i \in Nat
  BY SizeType DEF Slot
<1> QED BY <1>1, <1>2 DEF Link, Links, RS

\* What m2 has in common with m.
SameRing(m, m2) == m2.head = m.head /\ m2.tail = m.tail /\ m2.num = m.num

SameVectors(m, m2) ==
  /\ m2.create_vector = m.create_vector
  /\ m2.spec_create_vector = m.spec_create_vector
  /\ m2.use_spec_cv = m.use_spec_cv

SameLists(m, m2) ==
  m2.ready_queue = m.ready_queue /\ m2.event_queue = m.event_queue

\* Station i of queue q is now s, and the others are as they were.
Put(m, m2, q, i, s) ==
  \A p \in Queues : \A j \in Slot(p) :
    m2.station[p][j] = IF p = q /\ j = i THEN s ELSE m.station[p][j]

\* What issue and writeback do to the station of an operation.
Started(r) == [Unqueued(r) EXCEPT !.station[r.q][r.i].issued = TRUE]

Stored(r) == [Unqueued(r) EXCEPT !.station[r.q][r.i].issued = TRUE,
                                 !.station[r.q][r.i].completed = TRUE]

Completed(r) == [PopEvent EXCEPT !.station[r.q][r.i].completed = TRUE]

\* What a wakeup does to the stations of producer and consumer.
Taken(m, r, k) == [m EXCEPT !.station[r.q][r.i].odep_list[k] = Tail(@),
                            !.free_links = @ + 1]

Woken(m, r, k) == [m EXCEPT !.station[r.q][r.i].idep_ready[k] = TRUE]

\* The branch is mispredicted.
Marked(m, r) == [m EXCEPT !.station[r.q][r.i].recover_inst = TRUE]

Record(m) ==
  m = [station |-> m.station, head |-> m.head, tail |-> m.tail,
       num |-> m.num, ready_queue |-> m.ready_queue,
       event_queue |-> m.event_queue, create_vector |-> m.create_vector,
       spec_create_vector |-> m.spec_create_vector,
       use_spec_cv |-> m.use_spec_cv, free_links |-> m.free_links]

\* The mispredicted branch is marked.
LEMMA MarkIs ==
  ASSUME NEW m, CoreOK(m), NEW r, r.q \in Queues, r.i \in Slot(r.q),
         NEW m2, m2 = Marked(m, r)
  PROVE  /\ CoreOK(m2) /\ SameRing(m, m2) /\ SameVectors(m, m2)
         /\ SameLists(m, m2)
         /\ Put(m, m2, r.q, r.i, [m.station[r.q][r.i] EXCEPT !.recover_inst = TRUE])
<1> DEFINE a == m.station[r.q][r.i]
           s == [m.station[r.q][r.i] EXCEPT !.recover_inst = TRUE]
<1>1. a \in Station
  BY StationType
<1>2. s \in Station
  BY <1>1, StationUpdates
<1>3. Put(m, m2, r.q, r.i, s)
  BY DEF Marked, CoreOK, Put
<1>4. SameRing(m, m2) /\ SameVectors(m, m2)
  BY DEF Marked, CoreOK, SameRing, SameVectors
<1>5. SameLists(m, m2)
  BY DEF Marked, CoreOK, SameLists
<1>6. Record(m2)
  BY DEF Marked, CoreOK, Record
<1>7. m2.station = [q \in Queues |-> m2.station[q]]
  BY DEF Marked, CoreOK
<1>8. \A q \in Queues : m2.station[q] \in [Slot(q) -> Station]
  <2>1. \A q \in Queues : m2.station[q] = [j \in Slot(q) |-> m2.station[q][j]]
    BY DEF Marked, CoreOK
  <2> HIDE DEF s
  <2>2. ASSUME NEW q \in Queues, NEW j \in Slot(q) PROVE m2.station[q][j] \in Station
    <3>1. m.station[q][j] \in Station
      BY StationType
    <3>2. m2.station[q][j] = IF q = r.q /\ j = r.i THEN s ELSE m.station[q][j]
      BY <1>3 DEF Put
    <3> QED BY <1>2, <3>1, <3>2, Zenon
  <2> QED BY <2>1, <2>2
<1>9. CoreOK(m2)
  BY <1>4, <1>5, <1>6, <1>7, <1>8 DEF CoreOK, Record, SameRing, SameVectors, SameLists
<1> QED BY <1>3, <1>4, <1>5, <1>9

\* An operand is ready.
LEMMA WokenIs ==
  ASSUME NEW m, CoreOK(m), NEW r, r.q \in Queues, r.i \in Slot(r.q), NEW k \in 1..3,
         NEW m2, m2 = Woken(m, r, k)
  PROVE  /\ CoreOK(m2) /\ SameRing(m, m2) /\ SameVectors(m, m2)
         /\ SameLists(m, m2)
         /\ Put(m, m2, r.q, r.i, [m.station[r.q][r.i] EXCEPT !.idep_ready[k] = TRUE])
<1> DEFINE a == m.station[r.q][r.i]
           s == [m.station[r.q][r.i] EXCEPT !.idep_ready[k] = TRUE]
<1>1. a \in Station
  BY StationType
<1>2. s \in Station
  BY <1>1, StationUpdates
<1>3. Put(m, m2, r.q, r.i, s)
  BY DEF Woken, CoreOK, Put
<1>4. SameRing(m, m2) /\ SameVectors(m, m2)
  BY DEF Woken, CoreOK, SameRing, SameVectors
<1>5. SameLists(m, m2)
  BY DEF Woken, CoreOK, SameLists
<1>6. Record(m2)
  BY DEF Woken, CoreOK, Record
<1>7. m2.station = [q \in Queues |-> m2.station[q]]
  BY DEF Woken, CoreOK
<1>8. \A q \in Queues : m2.station[q] \in [Slot(q) -> Station]
  <2>1. \A q \in Queues : m2.station[q] = [j \in Slot(q) |-> m2.station[q][j]]
    BY DEF Woken, CoreOK
  <2> HIDE DEF s
  <2>2. ASSUME NEW q \in Queues, NEW j \in Slot(q) PROVE m2.station[q][j] \in Station
    <3>1. m.station[q][j] \in Station
      BY StationType
    <3>2. m2.station[q][j] = IF q = r.q /\ j = r.i THEN s ELSE m.station[q][j]
      BY <1>3 DEF Put
    <3> QED BY <1>2, <3>1, <3>2, Zenon
  <2> QED BY <2>1, <2>2
<1>9. CoreOK(m2)
  BY <1>4, <1>5, <1>6, <1>7, <1>8 DEF CoreOK, Record, SameRing, SameVectors, SameLists
<1> QED BY <1>3, <1>4, <1>5, <1>9

\* The first link of an output chain is taken off.
LEMMA TakenIs ==
  ASSUME NEW m, CoreOK(m), NEW r, r.q \in Queues, r.i \in Slot(r.q), NEW k \in 1..2,
         m.station[r.q][r.i].odep_list[k] # <<>>,
         NEW m2, m2 = Taken(m, r, k)
  PROVE  /\ CoreOK(m2) /\ SameRing(m, m2) /\ SameVectors(m, m2)
         /\ SameLists(m, m2)
         /\ Put(m, m2, r.q, r.i, [m.station[r.q][r.i] EXCEPT !.odep_list[k] = Tail(m.station[r.q][r.i].odep_list[k])])
<1> DEFINE a == m.station[r.q][r.i]
           s == [m.station[r.q][r.i] EXCEPT !.odep_list[k] = Tail(m.station[r.q][r.i].odep_list[k])]
<1>1. a \in Station
  BY StationType
<1>2. s \in Station
  <2>1. Tail(a.odep_list[k]) \in Seq(Links)
    BY <1>1, StationFields, TailElements
  <2> HIDE DEF a
  <2>2. [a EXCEPT !.odep_list[k] = Tail(a.odep_list[k])] \in Station
    BY <1>1, <2>1, StationUpdates
  <2> QED BY <2>2 DEF a
<1>3. Put(m, m2, r.q, r.i, s)
  BY DEF Taken, CoreOK, Put
<1>4. SameRing(m, m2) /\ SameVectors(m, m2)
  BY DEF Taken, CoreOK, SameRing, SameVectors
<1>5. SameLists(m, m2)
  BY DEF Taken, CoreOK, SameLists
<1>6. Record(m2)
  BY DEF Taken, CoreOK, Record
<1>7. m2.station = [q \in Queues |-> m2.station[q]]
  BY DEF Taken, CoreOK
<1>8. \A q \in Queues : m2.station[q] \in [Slot(q) -> Station]
  <2>1. \A q \in Queues : m2.station[q] = [j \in Slot(q) |-> m2.station[q][j]]
    BY DEF Taken, CoreOK
  <2> HIDE DEF s
  <2>2. ASSUME NEW q \in Queues, NEW j \in Slot(q) PROVE m2.station[q][j] \in Station
    <3>1. m.station[q][j] \in Station
      BY StationType
    <3>2. m2.station[q][j] = IF q = r.q /\ j = r.i THEN s ELSE m.station[q][j]
      BY <1>3 DEF Put
    <3> QED BY <1>2, <3>1, <3>2, Zenon
  <2> QED BY <2>1, <2>2
<1>9. CoreOK(m2)
  BY <1>4, <1>5, <1>6, <1>7, <1>8 DEF CoreOK, Record, SameRing, SameVectors, SameLists
<1> QED BY <1>3, <1>4, <1>5, <1>9

\* An operation starts to execute.
LEMMA IssuedIs ==
  ASSUME CoreOK(core), NEW r, r.q \in Queues, r.i \in Slot(r.q),
         NEW m2, m2 = Started(r)
  PROVE  /\ CoreOK(m2) /\ SameRing(core, m2) /\ SameVectors(core, m2)
         /\ SameLists(core, m2)
         /\ Put(core, m2, r.q, r.i, [core.station[r.q][r.i] EXCEPT !.queued = FALSE, !.issued = TRUE])
<1> DEFINE a == core.station[r.q][r.i]
           s == [core.station[r.q][r.i] EXCEPT !.queued = FALSE, !.issued = TRUE]
<1>1. a \in Station
  BY StationType
<1>2. s \in Station
  BY <1>1, StationUpdates
<1>3. Put(core, m2, r.q, r.i, s)
  BY DEF Started, Unqueued, FreeNode, CoreOK, Put
<1>4. SameRing(core, m2) /\ SameVectors(core, m2)
  BY DEF Started, Unqueued, FreeNode, CoreOK, SameRing, SameVectors
<1>5. SameLists(core, m2)
  BY DEF Started, Unqueued, FreeNode, CoreOK, SameLists
<1>6. Record(m2)
  BY DEF Started, Unqueued, FreeNode, CoreOK, Record
<1>7. m2.station = [q \in Queues |-> m2.station[q]]
  BY DEF Started, Unqueued, FreeNode, CoreOK
<1>8. \A q \in Queues : m2.station[q] \in [Slot(q) -> Station]
  <2>1. \A q \in Queues : m2.station[q] = [j \in Slot(q) |-> m2.station[q][j]]
    BY DEF Started, Unqueued, FreeNode, CoreOK
  <2> HIDE DEF s
  <2>2. ASSUME NEW q \in Queues, NEW j \in Slot(q) PROVE m2.station[q][j] \in Station
    <3>1. core.station[q][j] \in Station
      BY StationType
    <3>2. m2.station[q][j] = IF q = r.q /\ j = r.i THEN s ELSE core.station[q][j]
      BY <1>3 DEF Put
    <3> QED BY <1>2, <3>1, <3>2, Zenon
  <2> QED BY <2>1, <2>2
<1>9. CoreOK(m2)
  BY <1>4, <1>5, <1>6, <1>7, <1>8 DEF CoreOK, Record, SameRing, SameVectors, SameLists
<1> QED BY <1>3, <1>4, <1>5, <1>9

\* A store completes when it is issued.
LEMMA StoreIssuedIs ==
  ASSUME CoreOK(core), NEW r, r.q \in Queues, r.i \in Slot(r.q),
         NEW m2, m2 = Stored(r)
  PROVE  /\ CoreOK(m2) /\ SameRing(core, m2) /\ SameVectors(core, m2)
         /\ SameLists(core, m2)
         /\ Put(core, m2, r.q, r.i, [core.station[r.q][r.i] EXCEPT !.queued = FALSE, !.issued = TRUE, !.completed = TRUE])
<1> DEFINE a == core.station[r.q][r.i]
           s == [core.station[r.q][r.i] EXCEPT !.queued = FALSE, !.issued = TRUE, !.completed = TRUE]
<1>1. a \in Station
  BY StationType
<1>2. s \in Station
  BY <1>1, StationUpdates
<1>3. Put(core, m2, r.q, r.i, s)
  BY DEF Stored, Unqueued, FreeNode, CoreOK, Put
<1>4. SameRing(core, m2) /\ SameVectors(core, m2)
  BY DEF Stored, Unqueued, FreeNode, CoreOK, SameRing, SameVectors
<1>5. SameLists(core, m2)
  BY DEF Stored, Unqueued, FreeNode, CoreOK, SameLists
<1>6. Record(m2)
  BY DEF Stored, Unqueued, FreeNode, CoreOK, Record
<1>7. m2.station = [q \in Queues |-> m2.station[q]]
  BY DEF Stored, Unqueued, FreeNode, CoreOK
<1>8. \A q \in Queues : m2.station[q] \in [Slot(q) -> Station]
  <2>1. \A q \in Queues : m2.station[q] = [j \in Slot(q) |-> m2.station[q][j]]
    BY DEF Stored, Unqueued, FreeNode, CoreOK
  <2> HIDE DEF s
  <2>2. ASSUME NEW q \in Queues, NEW j \in Slot(q) PROVE m2.station[q][j] \in Station
    <3>1. core.station[q][j] \in Station
      BY StationType
    <3>2. m2.station[q][j] = IF q = r.q /\ j = r.i THEN s ELSE core.station[q][j]
      BY <1>3 DEF Put
    <3> QED BY <1>2, <3>1, <3>2, Zenon
  <2> QED BY <2>1, <2>2
<1>9. CoreOK(m2)
  BY <1>4, <1>5, <1>6, <1>7, <1>8 DEF CoreOK, Record, SameRing, SameVectors, SameLists
<1> QED BY <1>3, <1>4, <1>5, <1>9

\* An operation leaves the list being issued from.
LEMMA UnqueuedIs ==
  ASSUME CoreOK(core), NEW r, r.q \in Queues, r.i \in Slot(r.q),
         NEW m2, m2 = Unqueued(r)
  PROVE  /\ CoreOK(m2) /\ SameRing(core, m2) /\ SameVectors(core, m2)
         /\ SameLists(core, m2)
         /\ Put(core, m2, r.q, r.i, [core.station[r.q][r.i] EXCEPT !.queued = FALSE])
<1> DEFINE a == core.station[r.q][r.i]
           s == [core.station[r.q][r.i] EXCEPT !.queued = FALSE]
<1>1. a \in Station
  BY StationType
<1>2. s \in Station
  BY <1>1, StationUpdates
<1>3. Put(core, m2, r.q, r.i, s)
  BY DEF Unqueued, FreeNode, CoreOK, Put
<1>4. SameRing(core, m2) /\ SameVectors(core, m2)
  BY DEF Unqueued, FreeNode, CoreOK, SameRing, SameVectors
<1>5. SameLists(core, m2)
  BY DEF Unqueued, FreeNode, CoreOK, SameLists
<1>6. Record(m2)
  BY DEF Unqueued, FreeNode, CoreOK, Record
<1>7. m2.station = [q \in Queues |-> m2.station[q]]
  BY DEF Unqueued, FreeNode, CoreOK
<1>8. \A q \in Queues : m2.station[q] \in [Slot(q) -> Station]
  <2>1. \A q \in Queues : m2.station[q] = [j \in Slot(q) |-> m2.station[q][j]]
    BY DEF Unqueued, FreeNode, CoreOK
  <2> HIDE DEF s
  <2>2. ASSUME NEW q \in Queues, NEW j \in Slot(q) PROVE m2.station[q][j] \in Station
    <3>1. core.station[q][j] \in Station
      BY StationType
    <3>2. m2.station[q][j] = IF q = r.q /\ j = r.i THEN s ELSE core.station[q][j]
      BY <1>3 DEF Put
    <3> QED BY <1>2, <3>1, <3>2, Zenon
  <2> QED BY <2>1, <2>2
<1>9. CoreOK(m2)
  BY <1>4, <1>5, <1>6, <1>7, <1>8 DEF CoreOK, Record, SameRing, SameVectors, SameLists
<1> QED BY <1>3, <1>4, <1>5, <1>9

\* An operation completes.
LEMMA CompletedIs ==
  ASSUME CoreOK(core), NEW r, r.q \in Queues, r.i \in Slot(r.q), core.event_queue # <<>>,
         NEW m2, m2 = Completed(r)
  PROVE  /\ CoreOK(m2) /\ SameRing(core, m2) /\ SameVectors(core, m2)
         /\ m2.ready_queue = core.ready_queue /\ m2.event_queue = Tail(core.event_queue)
         /\ Put(core, m2, r.q, r.i, [core.station[r.q][r.i] EXCEPT !.completed = TRUE])
<1> DEFINE a == core.station[r.q][r.i]
           s == [core.station[r.q][r.i] EXCEPT !.completed = TRUE]
<1>1. a \in Station
  BY StationType
<1>2. s \in Station
  BY <1>1, StationUpdates
<1>3. Put(core, m2, r.q, r.i, s)
  BY DEF Completed, PopEvent, CoreOK, Put
<1>4. SameRing(core, m2) /\ SameVectors(core, m2)
  BY DEF Completed, PopEvent, CoreOK, SameRing, SameVectors
<1>5. m2.ready_queue = core.ready_queue /\ m2.event_queue = Tail(core.event_queue)
  BY DEF Completed, PopEvent, CoreOK, SameLists
<1>6. Record(m2)
  BY DEF Completed, PopEvent, CoreOK, Record
<1>7. m2.station = [q \in Queues |-> m2.station[q]]
  BY DEF Completed, PopEvent, CoreOK
<1>8. \A q \in Queues : m2.station[q] \in [Slot(q) -> Station]
  <2>1. \A q \in Queues : m2.station[q] = [j \in Slot(q) |-> m2.station[q][j]]
    BY DEF Completed, PopEvent, CoreOK
  <2> HIDE DEF s
  <2>2. ASSUME NEW q \in Queues, NEW j \in Slot(q) PROVE m2.station[q][j] \in Station
    <3>1. core.station[q][j] \in Station
      BY StationType
    <3>2. m2.station[q][j] = IF q = r.q /\ j = r.i THEN s ELSE core.station[q][j]
      BY <1>3 DEF Put
    <3> QED BY <1>2, <3>1, <3>2, Zenon
  <2> QED BY <2>1, <2>2
<1>a. Tail(core.event_queue) \in Seq(Links)
  BY TailElements DEF CoreOK
<1>9. CoreOK(m2)
  BY <1>a, <1>4, <1>5, <1>6, <1>7, <1>8 DEF CoreOK, Record, SameRing, SameVectors, SameLists
<1> QED BY <1>3, <1>4, <1>5, <1>9

\* An operation goes to the ready list.
LEMMA EnqueueIs ==
  ASSUME NEW m, CoreOK(m), NEW r, r.q \in Queues, r.i \in Slot(r.q),
         NEW m2, m2 = readyq_enqueue(m, r)
  PROVE  /\ CoreOK(m2) /\ SameRing(m, m2) /\ SameVectors(m, m2)
         /\ m2.event_queue = m.event_queue /\ m2.ready_queue \in Seq(Links)
         /\ Inserted(m.ready_queue, m2.ready_queue, Link(m, r, m.station[r.q][r.i].seq))
         /\ Put(m, m2, r.q, r.i, [m.station[r.q][r.i] EXCEPT !.queued = TRUE])
<1> DEFINE a == m.station[r.q][r.i]
           s == [m.station[r.q][r.i] EXCEPT !.queued = TRUE]
<1>1. a \in Station
  BY StationType
<1>2. s \in Station
  BY <1>1, StationUpdates
<1>3. Put(m, m2, r.q, r.i, s)
  BY DEF readyq_enqueue, CoreOK, Put
<1>4. SameRing(m, m2) /\ SameVectors(m, m2)
  BY DEF readyq_enqueue, CoreOK, SameRing, SameVectors
<1>5. /\ m2.event_queue = m.event_queue /\ m2.ready_queue \in Seq(Links)
      /\ Inserted(m.ready_queue, m2.ready_queue, Link(m, r, m.station[r.q][r.i].seq))
  <2> DEFINE node == Link(m, r, m.station[r.q][r.i].seq)
  <2>1. \/ m2.ready_queue = <<node>> \o m.ready_queue
        \/ m2.ready_queue = Insertion(m.ready_queue, node, m.station[r.q][r.i].seq)
    BY DEF readyq_enqueue, RS, CoreOK, Insertion
  <2>2. a.seq \in Int /\ m.ready_queue \in Seq(Links)
    BY <1>1, StationFields DEF CoreOK
  <2>3. node \in Links
    BY <2>2, LinkType
  <2>4. m2.event_queue = m.event_queue
    BY DEF readyq_enqueue, CoreOK
  <2> HIDE DEF node
  <2>5. m2.ready_queue \in Seq(Links) /\ Inserted(m.ready_queue, m2.ready_queue, node)
    BY <2>1, <2>2, <2>3, ConsInserts, InsertionInserts
  <2> QED BY <2>4, <2>5 DEF node
<1>6. Record(m2)
  BY DEF readyq_enqueue, CoreOK, Record
<1>7. m2.station = [q \in Queues |-> m2.station[q]]
  BY DEF readyq_enqueue, CoreOK
<1>8. \A q \in Queues : m2.station[q] \in [Slot(q) -> Station]
  <2>1. \A q \in Queues : m2.station[q] = [j \in Slot(q) |-> m2.station[q][j]]
    BY DEF readyq_enqueue, CoreOK
  <2> HIDE DEF s
  <2>2. ASSUME NEW q \in Queues, NEW j \in Slot(q) PROVE m2.station[q][j] \in Station
    <3>1. m.station[q][j] \in Station
      BY StationType
    <3>2. m2.station[q][j] = IF q = r.q /\ j = r.i THEN s ELSE m.station[q][j]
      BY <1>3 DEF Put
    <3> QED BY <1>2, <3>1, <3>2, Zenon
  <2> QED BY <2>1, <2>2
<1>9. CoreOK(m2)
  BY <1>4, <1>5, <1>6, <1>7, <1>8 DEF CoreOK, Record, SameRing, SameVectors, SameLists
<1> QED BY <1>3, <1>4, <1>5, <1>9

\* An event is queued.
LEMMA EventIs ==
  ASSUME NEW m, CoreOK(m), NEW r, r.q \in Queues, r.i \in Slot(r.q), NEW lat \in Int,
         NEW m2, m2 = eventq_queue_event(m, r, lat)
  PROVE  /\ CoreOK(m2) /\ SameRing(m, m2) /\ SameVectors(m, m2)
         /\ m2.station = m.station /\ m2.ready_queue = m.ready_queue
         /\ m2.event_queue \in Seq(Links)
         /\ Inserted(m.event_queue, m2.event_queue, Link(m, r, lat))
<1> DEFINE node == Link(m, r, lat)
<1>1. m2.event_queue = Insertion(m.event_queue, node, lat)
  BY DEF eventq_queue_event, RS, CoreOK, Insertion
<1>2. node \in Links /\ m.event_queue \in Seq(Links)
  BY LinkType DEF CoreOK
<1>3. m2.event_queue \in Seq(Links) /\ Inserted(m.event_queue, m2.event_queue, node)
  <2> HIDE DEF node
  <2> QED BY <1>1, <1>2, InsertionInserts
<1>4. /\ SameRing(m, m2) /\ SameVectors(m, m2)
      /\ m2.station = m.station /\ m2.ready_queue = m.ready_queue
  BY DEF eventq_queue_event, CoreOK, SameRing, SameVectors
<1>5. Record(m2)
  BY DEF eventq_queue_event, CoreOK, Record
<1>6. CoreOK(m2)
  BY <1>3, <1>4, <1>5 DEF CoreOK, Record, SameRing, SameVectors
<1> QED BY <1>3, <1>4, <1>6

-----------------------------------------------------------------------------
(*****************************************************************************)
(* Steps that leave the operations in flight alone.                          *)
(*****************************************************************************)
SameStatic(a, b) ==
  /\ b.op = a.op /\ b.PC = a.PC /\ b.next_PC = a.next_PC /\ b.in_LSQ = a.in_LSQ
  /\ b.ea_comp = a.ea_comp /\ b.recover_inst = a.recover_inst
  /\ b.spec_mode = a.spec_mode /\ b.addr = a.addr /\ b.tag = a.tag
  /\ b.seq = a.seq /\ b.onames = a.onames

\* The same operations are in flight, in the same slots.
Same(m, m2) ==
  /\ SameRing(m, m2)
  /\ \A q \in Queues : \A i \in Slot(q) :
       SameStatic(m.station[q][i], m2.station[q][i])

\* The same, up to the mark of the mispredicted one.
SameFixed(a, b) ==
  /\ b.op = a.op /\ b.PC = a.PC /\ b.ea_comp = a.ea_comp
  /\ b.spec_mode = a.spec_mode /\ b.addr = a.addr /\ b.tag = a.tag
  /\ b.seq = a.seq /\ b.onames = a.onames

Alike(m, m2) ==
  /\ SameRing(m, m2)
  /\ \A q \in Queues : \A i \in Slot(q) :
       SameFixed(m.station[q][i], m2.station[q][i])

\* What is the same is alike.
LEMMA SameAlike ==
  ASSUME NEW m, NEW m2, Same(m, m2)
  PROVE  Alike(m, m2)
BY DEF Same, Alike, SameStatic, SameFixed

\* With the same pointers the same slots are in flight.
LEMMA SameIn ==
  ASSUME NEW m, NEW m2, SameRing(m, m2), NEW q, NEW i
  PROVE  Distance(m2, q, i) = Distance(m, q, i) /\ (In(m2, q, i) <=> In(m, q, i))
BY DEF SameRing, In, Distance

\* A change of one station that keeps the fixed fields keeps the operations.
LEMMA PutSame ==
  ASSUME NEW m, NEW m2, SameRing(m, m2), NEW q \in Queues, NEW i \in Slot(q), NEW s,
         Put(m, m2, q, i, s), SameStatic(m.station[q][i], s)
  PROVE  Same(m, m2)
<1>1. ASSUME NEW p \in Queues, NEW j \in Slot(p)
      PROVE  SameStatic(m.station[p][j], m2.station[p][j])
  <2>1. m2.station[p][j] = IF p = q /\ j = i THEN s ELSE m.station[p][j]
    BY DEF Put
  <2>2. SameStatic(m.station[p][j], m.station[p][j])
    BY DEF SameStatic
  <2> QED BY <2>1, <2>2, Zenon
<1> QED BY <1>1 DEF Same

\* Two such steps are one.
LEMMA SameTrans ==
  ASSUME NEW m, NEW m1, NEW m2, Same(m, m1), Same(m1, m2)
  PROVE  Same(m, m2)
BY DEF Same, SameRing, SameStatic

\* Pointers, order and pairs depend on nothing else.
LEMMA AlikeShape ==
  ASSUME NEW m, CoreOK(m), NEW m2, CoreOK(m2), Alike(m, m2), NEW last
  PROVE  /\ Ring(m) => Ring(m2)
         /\ Ordered(m, last) => Ordered(m2, last)
         /\ Paired(m) => Paired(m2)
<1>1. \A q, i : Distance(m2, q, i) = Distance(m, q, i) /\ (In(m2, q, i) <=> In(m, q, i))
  BY SameIn DEF Alike
<1>2. Ring(m) => Ring(m2)
  BY DEF Ring, Alike, SameRing
<1>4. Ordered(m, last) => Ordered(m2, last)
  BY <1>1 DEF Ordered, LastSeq, Alike, SameFixed
<1>5. Paired(m) => Paired(m2)
  <2>1. "RUU" \in Queues /\ "LSQ" \in Queues
    BY DEF Queues
  <2>2. \A i \in Slot("RUU") : \A j \in Slot("LSQ") : Pair(m2, i, j) <=> Pair(m, i, j)
    BY <2>1 DEF Pair, Alike, SameFixed
  <2>3. \A i \in Slot("RUU") : m2.station["RUU"][i].ea_comp = m.station["RUU"][i].ea_comp
    BY <2>1 DEF Alike, SameFixed
  <2> QED BY <1>1, <2>2, <2>3 DEF Paired
<1> QED BY <1>2, <1>4, <1>5

\* The same for the kinds of operations.
LEMMA SameShape ==
  ASSUME NEW m, CoreOK(m), NEW m2, CoreOK(m2), Same(m, m2), NEW last
  PROVE  /\ Ring(m) => Ring(m2)
         /\ Kinds(m) => Kinds(m2)
         /\ Ordered(m, last) => Ordered(m2, last)
         /\ Paired(m) => Paired(m2)
<1>1. \A q, i : Distance(m2, q, i) = Distance(m, q, i) /\ (In(m2, q, i) <=> In(m, q, i))
  BY SameIn DEF Same
<1>2. Kinds(m) => Kinds(m2)
  BY <1>1, SMTT(30) DEF Kinds, Kind, Same, SameStatic
<1> QED BY <1>2, SameAlike, AlikeShape

\* Only operations that are not mispredicted branches may complete.
LEMMA SameBoundary ==
  ASSUME NEW m, CoreOK(m), NEW m2, CoreOK(m2), Same(m, m2), NEW mode, Boundary(m, mode),
         \A q \in Queues : \A i \in Slot(q) :
           /\ m.station[q][i].completed => m2.station[q][i].completed
           /\ m.station[q][i].recover_inst =>
                m2.station[q][i].completed = m.station[q][i].completed
  PROVE  Boundary(m2, mode)
<1>1. \A q, i : In(m2, q, i) <=> In(m, q, i)
  BY SameIn DEF Same
<1>2. ASSUME NEW c \in Slot("RUU"), Culprit(m, c)
      PROVE  Culprit(m2, c)
  <2>1. "RUU" \in Queues
    BY DEF Queues
  <2>2. /\ In(m2, "RUU", c) /\ m2.station["RUU"][c].recover_inst
        /\ ~m2.station["RUU"][c].completed
    BY <1>1, <1>2, <2>1 DEF Culprit, Same, SameStatic
  <2>3. ASSUME NEW q \in Queues, NEW i \in Slot(q), In(m2, q, i)
        PROVE  /\ m2.station[q][i].spec_mode
                    <=> m2.station["RUU"][c].seq < m2.station[q][i].seq
               /\ m2.station[q][i].recover_inst /\ ~m2.station[q][i].completed
                    => q = "RUU" /\ i = c
    BY <1>1, <1>2, <2>1, <2>3 DEF Culprit, Same, SameStatic
  <2> QED BY <2>2, <2>3 DEF Culprit
<1>3. mode => \E c \in Slot("RUU") : Culprit(m2, c)
  BY <1>2 DEF Boundary
<1>4. ASSUME ~mode, NEW q \in Queues, NEW i \in Slot(q), In(m2, q, i)
      PROVE  ~m2.station[q][i].spec_mode
             /\ (m2.station[q][i].recover_inst => m2.station[q][i].completed)
  BY <1>1, <1>4 DEF Boundary, Same, SameStatic
<1> QED BY <1>3, <1>4 DEF Boundary

(***************************************************************************)
(* The ready list.                                                         *)
(***************************************************************************)
\* A list of links to operations that are queued.
ListOK(m, s) ==
  /\ \A k \in 1..Len(s) :
       LinkOK(m, s[k]) /\ (RSLINK_VALID(m, s[k]) => RS(m, s[k]).queued)
  /\ NoTwoTargets(s)

Apart(s, t) ==
  \A j \in 1..Len(s), k \in 1..Len(t) : ~SameTarget(s[j], t[k])

Listed(m, s, q, i) == \E k \in 1..Len(s) : Targets(m, s[k], q, i)

\* The invariant of the ready list, in parts.
LEMMA ReadyParts ==
  ASSUME NEW m, NEW list
  PROVE  ReadyOK(m, list) <=>
           /\ ListOK(m, m.ready_queue) /\ ListOK(m, list)
           /\ Apart(m.ready_queue, list)
           /\ \A q \in Queues : \A i \in Slot(q) :
                In(m, q, i) /\ m.station[q][i].queued =>
                  Listed(m, m.ready_queue, q, i) \/ Listed(m, list, q, i)
BY DEF ReadyOK, ListOK, Apart, Listed

\* A link seen in two states.
LEMMA SameLink ==
  ASSUME NEW m, NEW m2, Alike(m, m2), NEW l \in Links
  PROVE  /\ LinkOK(m2, l) <=> LinkOK(m, l)
         /\ RSLINK_VALID(m2, l) <=> RSLINK_VALID(m, l)
         /\ \A q \in Queues : \A i \in Slot(q) : Targets(m2, l, q, i) <=> Targets(m, l, q, i)
<1>1. l.q \in Queues /\ l.i \in Slot(l.q)
  BY DEF Links
<1>2. m2.station[l.q][l.i].tag = m.station[l.q][l.i].tag
  BY <1>1 DEF Alike, SameFixed
<1>3. In(m2, l.q, l.i) <=> In(m, l.q, l.i)
  BY SameIn DEF Alike
<1>4. \A q \in Queues : \A i \in Slot(q) : m2.station[q][i].tag = m.station[q][i].tag
  BY DEF Alike, SameFixed
<1> QED BY <1>2, <1>3, <1>4 DEF LinkOK, RSLINK_VALID, RS, Targets

\* Nobody leaves the ready list.
LEMMA SameListOK ==
  ASSUME NEW m, NEW m2, Alike(m, m2), NEW s \in Seq(Links), ListOK(m, s),
         \A k \in 1..Len(s) : RSLINK_VALID(m, s[k]) /\ RS(m, s[k]).queued => RS(m2, s[k]).queued
  PROVE  ListOK(m2, s)
<1>1. \A k \in 1..Len(s) : s[k] \in Links
  OBVIOUS
<1> QED BY <1>1, SameLink DEF ListOK

\* The ready list stays in order when no operation is queued or taken off.
LEMMA SameReady ==
  ASSUME NEW m, CoreOK(m), NEW m2, Alike(m, m2), m2.ready_queue = m.ready_queue,
         NEW list \in Seq(Links), ReadyOK(m, list),
         \A q \in Queues : \A i \in Slot(q) :
           m2.station[q][i].queued = m.station[q][i].queued
  PROVE  ReadyOK(m2, list)
<1>1. m.ready_queue \in Seq(Links)
  BY DEF CoreOK
<1>2. \A l \in Links : RS(m2, l).queued = RS(m, l).queued
  BY DEF Links, RS
<1>3. ListOK(m2, m.ready_queue) /\ ListOK(m2, list)
  <2>1. \A s \in Seq(Links) : \A k \in 1..Len(s) : s[k] \in Links
    OBVIOUS
  <2> QED BY <1>1, <1>2, <2>1, SameListOK, ReadyParts
<1>4. ASSUME NEW q \in Queues, NEW i \in Slot(q), NEW s \in Seq(Links), Listed(m, s, q, i)
      PROVE  Listed(m2, s, q, i)
  <2>1. PICK k \in 1..Len(s) : Targets(m, s[k], q, i)
    BY <1>4 DEF Listed
  <2>2. s[k] \in Links
    OBVIOUS
  <2> QED BY <2>1, <2>2, SameLink DEF Listed
<1>5. ASSUME NEW q \in Queues, NEW i \in Slot(q), In(m2, q, i), m2.station[q][i].queued
      PROVE  Listed(m2, m.ready_queue, q, i) \/ Listed(m2, list, q, i)
  <2>1. In(m, q, i) /\ m.station[q][i].queued
    BY <1>5, SameIn DEF Alike
  <2> QED BY <1>1, <1>4, <2>1, ReadyParts
<1> QED BY <1>3, <1>5, ReadyParts

\* The flags stay in order when they do not change.
LEMMA SameFlags ==
  ASSUME NEW m, NEW m2, Alike(m, m2), NEW N, FlagsOK(m, N),
         \A q \in Queues : \A i \in Slot(q) :
           /\ m2.station[q][i].queued = m.station[q][i].queued
           /\ m2.station[q][i].issued = m.station[q][i].issued
           /\ m2.station[q][i].completed = m.station[q][i].completed
           /\ m2.station[q][i].idep_ready = m.station[q][i].idep_ready
  PROVE  FlagsOK(m2, N)
<1>1. \A q, i : In(m2, q, i) <=> In(m, q, i)
  BY SameIn DEF Alike
<1> QED BY <1>1 DEF FlagsOK, OPERANDS_READY, Alike, SameFixed

\* The event queue stays in order when nothing is issued or completes.
LEMMA SameEvents ==
  ASSUME NEW m, CoreOK(m), NEW m2, Alike(m, m2), m2.event_queue = m.event_queue, EventsOK(m),
         \A q \in Queues : \A i \in Slot(q) :
           /\ m2.station[q][i].issued = m.station[q][i].issued
           /\ m2.station[q][i].completed = m.station[q][i].completed
  PROVE  EventsOK(m2)
<1>1. \A q, i : In(m2, q, i) <=> In(m, q, i)
  BY SameIn DEF Alike
<1>2. \A k \in 1..Len(m.event_queue) : m.event_queue[k] \in Links
  BY DEF CoreOK
<1>3. \A l \in Links : RS(m2, l).issued = RS(m, l).issued /\ RS(m2, l).completed = RS(m, l).completed
  BY DEF Links, RS
<1>4. \A k \in 1..Len(m.event_queue) :
        LET l == m.event_queue[k] IN
        /\ LinkOK(m2, l)
        /\ RSLINK_VALID(m2, l) => RS(m2, l).issued /\ ~RS(m2, l).completed
  BY <1>2, <1>3, SameLink DEF EventsOK
<1>5. \A q \in Queues : \A i \in Slot(q) :
       /\ In(m2, q, i) /\ m2.station[q][i].issued /\ ~m2.station[q][i].completed
       => \E k \in 1..Len(m.event_queue) : Targets(m2, m.event_queue[k], q, i)
  BY <1>1, <1>2, SameLink DEF EventsOK
<1> QED BY <1>4, <1>5 DEF EventsOK

\* The four parts of ChainsOK.
ChainsInFlight(m, X) ==
  \A q \in Queues : \A i \in Slot(q) : \A d \in 1..2 :
    Chain(m, q, i, d) # <<>> =>
      /\ In(m, q, i) /\ m.station[q][i].onames[d] # NA
      /\ m.station[q][i].completed => <<q, i, d>> \in X

ChainLinks(m, U) ==
  \A q \in Queues : \A i \in Slot(q) : \A d \in 1..2 :
    \A k \in 1..Len(Chain(m, q, i, d)) :
      LET l == Chain(m, q, i, d)[k] IN
      /\ LinkOK(m, l) /\ l.x \in 1..3
      /\ RSLINK_VALID(m, l) =>
           /\ ~RS(m, l).idep_ready[l.x] /\ <<l.q, l.i, l.x>> \notin U
           /\ m.station[q][i].seq < RS(m, l).seq

LinkedOnce(m) ==
  \A q, p \in Queues : \A i \in Slot(q), j \in Slot(p) : \A d, e \in 1..2 :
    \A k \in 1..Len(Chain(m, q, i, d)), h \in 1..Len(Chain(m, p, j, e)) :
      LET a == Chain(m, q, i, d)[k]
          b == Chain(m, p, j, e)[h]
      IN  SameTarget(a, b) /\ a.x = b.x =>
            q = p /\ i = j /\ d = e /\ k = h

Linked(m, q, i, o) ==
  \E p \in Queues : \E j \in Slot(p) : \E d \in 1..2 :
    \E k \in 1..Len(Chain(m, p, j, d)) :
      LET l == Chain(m, p, j, d)[k]
      IN  Targets(m, l, q, i) /\ l.x = o

AllLinked(m, U) ==
  \A q \in Queues : \A i \in Slot(q) : \A o \in 1..3 :
    In(m, q, i) /\ ~m.station[q][i].idep_ready[o] /\ <<q, i, o>> \notin U =>
      Linked(m, q, i, o)

\* The invariant of the chains, in parts.
LEMMA ChainsParts ==
  ASSUME NEW m, NEW X, NEW U
  PROVE  ChainsOK(m, X, U) <=> /\ ChainsInFlight(m, X) /\ ChainLinks(m, U)
                               /\ LinkedOnce(m) /\ AllLinked(m, U)
BY DEF ChainsOK, ChainsInFlight, ChainLinks, LinkedOnce, AllLinked, Linked

\* A chain is a sequence of links.
LEMMA ChainType ==
  ASSUME NEW m, CoreOK(m), NEW q \in Queues, NEW i \in Slot(q), NEW d \in 1..2
  PROVE  /\ Chain(m, q, i, d) \in Seq(Links)
         /\ \A k \in 1..Len(Chain(m, q, i, d)) : Chain(m, q, i, d)[k] \in Links
<1>1. m.station[q][i] \in Station
  BY StationType
<1>2. m.station[q][i].odep_list[d] \in Seq(Links)
  BY <1>1, StationFields
<1> QED BY <1>2 DEF Chain

\* Operations may complete whose outputs are in X2 or that nobody waits for.
LEMMA CompleteChains ==
  ASSUME NEW m, CoreOK(m), NEW m2, Alike(m, m2), NEW X, NEW X2, X \subseteq X2, NEW U,
         ChainsOK(m, X, U),
         \A q \in Queues : \A i \in Slot(q) :
           /\ m2.station[q][i].odep_list = m.station[q][i].odep_list
           /\ m2.station[q][i].idep_ready = m.station[q][i].idep_ready,
         \A q \in Queues : \A i \in Slot(q) : \A d \in 1..2 :
           m2.station[q][i].completed /\ Chain(m, q, i, d) # <<>> =>
             m.station[q][i].completed \/ <<q, i, d>> \in X2
  PROVE  ChainsOK(m2, X2, U)
<1>1. \A q, i : In(m2, q, i) <=> In(m, q, i)
  BY SameIn DEF Alike
<1>2. \A q \in Queues : \A i \in Slot(q) : \A d \in 1..2 : Chain(m2, q, i, d) = Chain(m, q, i, d)
  BY DEF Chain
<1>3. \A l \in Links : /\ RS(m2, l).idep_ready = RS(m, l).idep_ready
                       /\ RS(m2, l).seq = RS(m, l).seq
  BY DEF Links, RS, Alike, SameFixed
<1>4. \A q \in Queues : \A i \in Slot(q) :
        /\ m2.station[q][i].seq = m.station[q][i].seq
        /\ m2.station[q][i].onames = m.station[q][i].onames
  BY DEF Alike, SameFixed
<1>5. ChainsInFlight(m2, X2)
  BY <1>1, <1>2, <1>4, ChainsParts DEF ChainsInFlight
<1>6. ChainLinks(m2, U)
  BY <1>2, <1>3, <1>4, SameLink, ChainType, ChainsParts DEF ChainLinks
<1>7. LinkedOnce(m2)
  BY <1>2, ChainsParts DEF LinkedOnce
<1>8. AllLinked(m2, U)
  <2>1. ASSUME NEW q \in Queues, NEW i \in Slot(q), NEW o \in 1..3, Linked(m, q, i, o)
        PROVE  Linked(m2, q, i, o)
    BY <1>2, <2>1, SameLink, ChainType DEF Linked
  <2> QED BY <1>1, <2>1, ChainsParts DEF AllLinked
<1> QED BY <1>5, <1>6, <1>7, <1>8, ChainsParts

\* The chains stay in order when nothing about them changes.
LEMMA SameChains ==
  ASSUME NEW m, CoreOK(m), NEW m2, Alike(m, m2), NEW X, NEW U, ChainsOK(m, X, U),
         \A q \in Queues : \A i \in Slot(q) :
           /\ m2.station[q][i].completed = m.station[q][i].completed
           /\ m2.station[q][i].odep_list = m.station[q][i].odep_list
           /\ m2.station[q][i].idep_ready = m.station[q][i].idep_ready
  PROVE  ChainsOK(m2, X, U)
BY CompleteChains

\* A creator names an output of a slot and is not NONE.
LEMMA CreatorType ==
  ASSUME NEW v \in Creators
  PROVE  v.q \in Queues /\ v.i \in Slot(v.q) /\ v.odep \in 1..2 /\ v # NONE
BY DEF Creators, NONE, Queues

\* A creator stays precise when an operation completes whose outputs are then
\* in X.
LEMMA CompletePrecise ==
  ASSUME NEW m, NEW m2, Alike(m, m2), NEW v \in Creators \cup {NONE}, NEW name \in Names, NEW all,
         NEW X, NEW X2, X \subseteq X2,
         Precise(m, v, name, all, X),
         \A q \in Queues : \A i \in Slot(q) :
           m.station[q][i].completed => m2.station[q][i].completed,
         \A q \in Queues : \A i \in Slot(q) : \A d \in 1..2 :
           m2.station[q][i].completed /\ m.station[q][i].onames[d] \in Names =>
             m.station[q][i].completed \/ <<q, i, d>> \in X2
  PROVE  Precise(m2, v, name, all, X2)
<1>1. \A q, i : In(m2, q, i) <=> In(m, q, i)
  BY SameIn DEF Alike
<1>2. \A q \in Queues : \A i \in Slot(q) :
        /\ m2.station[q][i].seq = m.station[q][i].seq
        /\ m2.station[q][i].spec_mode = m.station[q][i].spec_mode
        /\ m2.station[q][i].onames = m.station[q][i].onames
  BY DEF Alike, SameFixed
<1>3. \A q \in Queues : \A i \in Slot(q) : \A d \in 1..2 :
        Writes(m2, q, i, d, name) <=> Writes(m, q, i, d, name)
  BY <1>1, <1>2 DEF Writes
<1>4. CASE v = NONE
  BY <1>2, <1>3, <1>4 DEF Precise
<1>5. CASE v \in Creators
  <2>1. v.q \in Queues /\ v.i \in Slot(v.q) /\ v.odep \in 1..2 /\ v # NONE
    BY <1>5, CreatorType
  <2>2. m2.station[v.q][v.i].completed => <<v.q, v.i, v.odep>> \in X2
    BY <2>1 DEF Precise, Writes
  <2> QED BY <1>2, <1>3, <2>1, <2>2, ZenonT(40) DEF Precise
<1> QED BY <1>4, <1>5

\* Entries of the create vectors are creators or NONE.
LEMMA VectorType ==
  ASSUME NEW m, CoreOK(m), NEW name \in Names
  PROVE  /\ m.create_vector[name] \in Creators \cup {NONE}
         /\ m.spec_create_vector[name] \in Creators \cup {NONE}
         /\ CREATE_VECTOR(m, name) \in Creators \cup {NONE}
BY DEF CoreOK, CREATE_VECTOR

\* The same for both vectors.
LEMMA CompleteCreators ==
  ASSUME NEW m, CoreOK(m), NEW m2, Alike(m, m2), SameVectors(m, m2),
         NEW X, NEW X2, X \subseteq X2, CreatorsOK(m, X),
         \A q \in Queues : \A i \in Slot(q) :
           m.station[q][i].completed => m2.station[q][i].completed,
         \A q \in Queues : \A i \in Slot(q) : \A d \in 1..2 :
           m2.station[q][i].completed /\ m.station[q][i].onames[d] \in Names =>
             m.station[q][i].completed \/ <<q, i, d>> \in X2
  PROVE  CreatorsOK(m2, X2)
<1> SUFFICES ASSUME NEW name \in Names
             PROVE  /\ Precise(m2, m2.create_vector[name], name, FALSE, X2)
                    /\ Precise(m2, CREATE_VECTOR(m2, name), name, TRUE, X2)
                    /\ name \in m2.use_spec_cv /\ m2.spec_create_vector[name] # NONE =>
                         RS(m2, m2.spec_create_vector[name]).spec_mode
  BY DEF CreatorsOK
<1>1. /\ m2.create_vector[name] = m.create_vector[name]
      /\ CREATE_VECTOR(m2, name) = CREATE_VECTOR(m, name)
      /\ m2.use_spec_cv = m.use_spec_cv
      /\ m2.spec_create_vector[name] = m.spec_create_vector[name]
  BY DEF SameVectors, CREATE_VECTOR
<1>2. /\ Precise(m, m.create_vector[name], name, FALSE, X)
      /\ Precise(m, CREATE_VECTOR(m, name), name, TRUE, X)
      /\ name \in m.use_spec_cv /\ m.spec_create_vector[name] # NONE =>
           RS(m, m.spec_create_vector[name]).spec_mode
  BY DEF CreatorsOK
<1>3. /\ Precise(m2, m.create_vector[name], name, FALSE, X2)
      /\ Precise(m2, CREATE_VECTOR(m, name), name, TRUE, X2)
  <2>1. /\ m.create_vector[name] \in Creators \cup {NONE}
        /\ CREATE_VECTOR(m, name) \in Creators \cup {NONE}
    BY VectorType
  <2>2. Precise(m2, m.create_vector[name], name, FALSE, X2)
    BY <1>2, <2>1, CompletePrecise
  <2>3. Precise(m2, CREATE_VECTOR(m, name), name, TRUE, X2)
    BY <1>2, <2>1, CompletePrecise
  <2> QED BY <2>2, <2>3
<1>4. \A v \in Creators : RS(m2, v).spec_mode = RS(m, v).spec_mode
  BY CreatorType DEF RS, Alike, SameFixed
<1> QED BY <1>1, <1>2, <1>3, <1>4, VectorType

\* The create vectors stay precise when nothing completes.
LEMMA SameCreators ==
  ASSUME NEW m, CoreOK(m), NEW m2, Alike(m, m2), SameVectors(m, m2), NEW X, CreatorsOK(m, X),
         \A q \in Queues : \A i \in Slot(q) :
           m2.station[q][i].completed = m.station[q][i].completed
  PROVE  CreatorsOK(m2, X)
BY CompleteCreators

\* Loads stay in order when no load is released and no store loses an operand.
LEMMA SameLoads ==
  ASSUME NEW m, NEW m2, Alike(m, m2), LoadsOK(m),
         \A i \in Slot("LSQ") :
           LET a == m.station["LSQ"][i]
               b == m2.station["LSQ"][i]
           IN  /\ b.op = "load" /\ (b.queued \/ b.issued) => a.queued \/ a.issued
               /\ \A k \in 1..3 : a.idep_ready[k] => b.idep_ready[k]
  PROVE  LoadsOK(m2)
<1>1. \A q, i : Distance(m2, q, i) = Distance(m, q, i) /\ (In(m2, q, i) <=> In(m, q, i))
  BY SameIn DEF Alike
<1>2. "LSQ" \in Queues
  BY DEF Queues
<1>3. \A i \in Slot("LSQ") : /\ m2.station["LSQ"][i].op = m.station["LSQ"][i].op
                             /\ m2.station["LSQ"][i].addr = m.station["LSQ"][i].addr
  BY <1>2 DEF Alike, SameFixed
<1>4. \A i \in Slot("LSQ") :
        /\ STORE_ADDR_READY(m.station["LSQ"][i]) => STORE_ADDR_READY(m2.station["LSQ"][i])
        /\ OPERANDS_READY(m.station["LSQ"][i]) => OPERANDS_READY(m2.station["LSQ"][i])
  BY DEF STORE_ADDR_READY, OPERANDS_READY, MAX_IDEPS
<1> QED BY <1>1, <1>3, <1>4 DEF LoadsOK

-----------------------------------------------------------------------------
(*****************************************************************************)
(* Queueing.                                                                 *)
(*****************************************************************************)
\* The parts of the invariant that hold within a step too: see FlagsOK and
\* ChainsOK for N, X and U.
Sound(m, mode, last, list, N, X, U) ==
  /\ CoreOK(m) /\ Ring(m) /\ Kinds(m) /\ Ordered(m, last) /\ Paired(m)
  /\ Boundary(m, mode) /\ FlagsOK(m, N) /\ ReadyOK(m, list) /\ EventsOK(m)
  /\ ChainsOK(m, X, U) /\ CreatorsOK(m, X) /\ LoadsOK(m)

\* An operation with its operands is put on the ready list.
LEMMA EnqueueReady ==
  ASSUME NEW m, CoreOK(m), NEW list \in Seq(Links), ReadyOK(m, list),
         NEW r, r.q \in Queues, r.i \in Slot(r.q), In(m, r.q, r.i),
         ~m.station[r.q][r.i].queued,
         NEW m2, m2 = readyq_enqueue(m, r)
  PROVE  ReadyOK(m2, list)
<1> DEFINE a == m.station[r.q][r.i]
           node == Link(m, r, a.seq)
<1>1. /\ CoreOK(m2) /\ SameRing(m, m2) /\ m2.ready_queue \in Seq(Links)
      /\ Inserted(m.ready_queue, m2.ready_queue, node)
      /\ Put(m, m2, r.q, r.i, [a EXCEPT !.queued = TRUE])
  BY EnqueueIs
<1>2. a \in Station /\ m.ready_queue \in Seq(Links)
  BY StationType DEF CoreOK
<1>3. SameStatic(a, [a EXCEPT !.queued = TRUE]) /\ [a EXCEPT !.queued = TRUE].queued = TRUE
  BY <1>2 DEF SameStatic, Station
<1>4. Same(m, m2)
  BY <1>1, <1>3, PutSame
<1>5. a.seq \in Int
  BY <1>2, StationFields
<1>6. node \in Links /\ node.q = r.q /\ node.i = r.i /\ node.tag = a.tag
  BY <1>5, LinkType
<1>7. \A q \in Queues : \A i \in Slot(q) :
        m2.station[q][i].queued <=> (m.station[q][i].queued \/ (q = r.q /\ i = r.i))
  BY <1>1, <1>3, ZenonT(40) DEF Put
<1> HIDE DEF node
<1>8. \A s \in Seq(Links) : \A k \in 1..Len(s) : s[k] \in Links
  OBVIOUS
<1>9. \A l \in Links : RS(m2, l).queued <=> (RS(m, l).queued \/ (l.q = r.q /\ l.i = r.i))
  BY <1>7 DEF Links, RS
<1>10. ListOK(m2, m.ready_queue) /\ ListOK(m2, list)
  BY <1>2, <1>4, <1>8, <1>9, SameAlike, SameListOK, ReadyParts
<1>11. ASSUME NEW s \in Seq(Links), ListOK(m, s), NEW k \in 1..Len(s)
       PROVE  ~SameTarget(s[k], node) /\ ~SameTarget(node, s[k])
  <2>1. s[k] \in Links /\ (RSLINK_VALID(m, s[k]) => RS(m, s[k]).queued)
    BY <1>8, <1>11 DEF ListOK
  <2> QED BY <1>6, <2>1 DEF SameTarget, RSLINK_VALID, RS
<1>12. ListOK(m, m.ready_queue) /\ ListOK(m, list) /\ Apart(m.ready_queue, list)
  BY ReadyParts
<1>13. LinkOK(m2, node) /\ RS(m2, node).queued
  <2>1. LinkOK(m, node)
    BY <1>2, <1>6, StationFields DEF LinkOK
  <2> QED BY <1>4, <1>6, <1>9, <2>1, SameAlike, SameLink
<1>14. ListOK(m2, m2.ready_queue)
  <2>1. NoTwoTargets(m2.ready_queue)
    BY <1>1, <1>2, <1>11, <1>12, InsertedTargets DEF ListOK
  <2>2. \A k \in 1..Len(m2.ready_queue) : m2.ready_queue[k] = node
          \/ \E j \in 1..Len(m.ready_queue) : m2.ready_queue[k] = m.ready_queue[j]
    BY ONLY <1>1, <1>2, InsertedElements, SMTT(30)
  <2> QED BY <1>10, <1>13, <2>1, <2>2 DEF ListOK
<1>15. Apart(m2.ready_queue, list)
  <2>2. \A k \in 1..Len(m2.ready_queue) : m2.ready_queue[k] = node
          \/ \E j \in 1..Len(m.ready_queue) : m2.ready_queue[k] = m.ready_queue[j]
    BY ONLY <1>1, <1>2, InsertedElements, SMTT(30)
  <2> QED BY <1>11, <1>12, <2>2 DEF Apart
<1>16. ASSUME NEW q \in Queues, NEW i \in Slot(q), In(m2, q, i), m2.station[q][i].queued
       PROVE  Listed(m2, m2.ready_queue, q, i) \/ Listed(m2, list, q, i)
  <2>1. CASE q = r.q /\ i = r.i
    <3>1. PICK k \in 1..Len(m2.ready_queue) : m2.ready_queue[k] = node
      BY ONLY <1>1, <1>2, InsertedElements
    <3>2. Targets(m, node, q, i)
      BY <1>6, <2>1 DEF Targets
    <3> QED BY <1>4, <1>6, <3>1, <3>2, SameAlike, SameLink DEF Listed
  <2>2. CASE ~(q = r.q /\ i = r.i)
    <3>1. In(m, q, i) /\ m.station[q][i].queued
      BY <1>1, <1>7, <1>16, <2>2, SameIn
    <3>2. Listed(m, m.ready_queue, q, i) \/ Listed(m, list, q, i)
      BY <3>1, ReadyParts
    <3>3. Listed(m, list, q, i) => Listed(m2, list, q, i)
      BY <1>4, <1>8, SameAlike, SameLink DEF Listed
    <3>4. ASSUME Listed(m, m.ready_queue, q, i) PROVE Listed(m2, m2.ready_queue, q, i)
      <4>1. PICK j \in 1..Len(m.ready_queue) : Targets(m, m.ready_queue[j], q, i)
        BY <3>4 DEF Listed
      <4>2. PICK k \in 1..Len(m2.ready_queue) : m2.ready_queue[k] = m.ready_queue[j]
        BY ONLY <1>1, <1>2, InsertedElements
      <4>3. Targets(m2, m.ready_queue[j], q, i)
        BY <1>2, <1>4, <1>8, <4>1, SameAlike, SameLink
      <4> QED BY <4>2, <4>3 DEF Listed
    <3> QED BY <3>2, <3>3, <3>4
  <2> QED BY <2>1, <2>2
<1> QED BY <1>10, <1>14, <1>15, <1>16, ReadyParts

\* Only the flag that r is queued has changed.
Enqueued(m, m2, r) ==
  \A q \in Queues : \A i \in Slot(q) :
    /\ m2.station[q][i].issued = m.station[q][i].issued
    /\ m2.station[q][i].completed = m.station[q][i].completed
    /\ m2.station[q][i].idep_ready = m.station[q][i].idep_ready
    /\ m2.station[q][i].odep_list = m.station[q][i].odep_list
    /\ m2.station[q][i].queued <=> (m.station[q][i].queued \/ (q = r.q /\ i = r.i))

\* Queueing an operation with all its operands keeps every part.
LEMMA EnqueueSound ==
  ASSUME NEW m, NEW mode, NEW last, NEW list \in Seq(Links), NEW N, NEW X, NEW U,
         Sound(m, mode, last, list, N, X, U),
         NEW r, r.q \in Queues, r.i \in Slot(r.q), In(m, r.q, r.i),
         OPERANDS_READY(m.station[r.q][r.i]),
         ~m.station[r.q][r.i].queued, ~m.station[r.q][r.i].issued,
         NEW m2, m2 = readyq_enqueue(m, r),
         m.station[r.q][r.i].op # "load" \/ LoadsOK(m2)
  PROVE  /\ Sound(m2, mode, last, list, N \ {<<r.q, r.i>>}, X, U)
         /\ Same(m, m2) /\ SameVectors(m, m2)
         /\ Enqueued(m, m2, r)
<1> DEFINE a == m.station[r.q][r.i]
           b == [a EXCEPT !.queued = TRUE]
<1>1. CoreOK(m)
  BY DEF Sound
<1>2. /\ CoreOK(m2) /\ SameRing(m, m2) /\ SameVectors(m, m2)
      /\ m2.event_queue = m.event_queue
      /\ Put(m, m2, r.q, r.i, b)
  BY <1>1, EnqueueIs
<1>3. a \in Station
  BY <1>1, StationType
<1>4. /\ SameStatic(a, b) /\ b.queued = TRUE /\ b.issued = a.issued
      /\ b.completed = a.completed /\ b.idep_ready = a.idep_ready
      /\ b.odep_list = a.odep_list
  BY <1>3 DEF SameStatic, Station
<1>5. Same(m, m2)
  BY <1>2, <1>4, PutSame
<1>6. \A q \in Queues : \A i \in Slot(q) :
        /\ m2.station[q][i].issued = m.station[q][i].issued
        /\ m2.station[q][i].completed = m.station[q][i].completed
        /\ m2.station[q][i].idep_ready = m.station[q][i].idep_ready
        /\ m2.station[q][i].odep_list = m.station[q][i].odep_list
        /\ m2.station[q][i].queued
             <=> (m.station[q][i].queued \/ (q = r.q /\ i = r.i))
  <2> HIDE DEF b
  <2> QED BY <1>2, <1>4 DEF Put
<1>7. Ring(m2) /\ Kinds(m2) /\ Ordered(m2, last) /\ Paired(m2)
  BY <1>1, <1>2, <1>5, SameShape DEF Sound
<1>8. Boundary(m2, mode)
  BY <1>1, <1>2, <1>5, <1>6, SameBoundary DEF Sound
<1>9. ReadyOK(m2, list)
  BY <1>1, EnqueueReady DEF Sound
<1>10. EventsOK(m2)
  BY <1>1, <1>2, <1>5, <1>6, SameAlike, SameEvents DEF Sound
<1>11. ChainsOK(m2, X, U)
  BY <1>1, <1>5, <1>6, SameAlike, SameChains DEF Sound
<1>12. CreatorsOK(m2, X)
  BY <1>1, <1>2, <1>5, <1>6, SameAlike, SameCreators DEF Sound
<1>13. FlagsOK(m2, N \ {<<r.q, r.i>>})
  <2>1. \A q, i : In(m2, q, i) <=> In(m, q, i)
    BY <1>2, SameIn
  <2>2. FlagsOK(m, N)
    BY DEF Sound
  <2>3. \A q \in Queues : \A i \in Slot(q) :
          /\ OPERANDS_READY(m2.station[q][i]) <=> OPERANDS_READY(m.station[q][i])
          /\ m2.station[q][i].op = m.station[q][i].op
    BY <1>5, <1>6 DEF OPERANDS_READY, Same, SameStatic
  <2> QED BY <1>6, <2>1, <2>2, <2>3 DEF FlagsOK
<1>14. LoadsOK(m2)
  <2> SUFFICES ASSUME a.op # "load" PROVE LoadsOK(m2)
    OBVIOUS
  <2>1. "LSQ" \in Queues
    BY DEF Queues
  <2>2. \A i \in Slot("LSQ") : m2.station["LSQ"][i].op = m.station["LSQ"][i].op
    BY <1>5, <2>1 DEF Same, SameStatic
  <2>3. LoadsOK(m)
    BY DEF Sound
  <2> HIDE DEF b
  <2>4. ASSUME NEW i \in Slot("LSQ")
        PROVE  LET c == m.station["LSQ"][i]
                   e == m2.station["LSQ"][i]
               IN  /\ e.op = "load" /\ (e.queued \/ e.issued) => c.queued \/ c.issued
                   /\ \A k \in 1..3 : c.idep_ready[k] => e.idep_ready[k]
    BY ONLY <1>6, <2>1, <2>2, <2>4, a.op # "load"
  <2>5. Alike(m, m2)
    BY ONLY <1>5, SameAlike
  <2> QED BY ONLY <2>3, <2>4, <2>5, SameLoads
<1>15. Enqueued(m, m2, r)
  BY <1>6 DEF Enqueued
<1> QED BY <1>2, <1>5, <1>7, <1>8, <1>9, <1>10, <1>11, <1>12, <1>13, <1>14, <1>15 DEF Sound

-----------------------------------------------------------------------------
(*****************************************************************************)
(* The list being issued from.                                               *)
(*****************************************************************************)
\* The first operation of the list leaves it.
LEMMA PopReady ==
  ASSUME NEW m, CoreOK(m), NEW m2, Same(m, m2), m2.ready_queue = m.ready_queue,
         NEW list \in Seq(Links), list # <<>>, ReadyOK(m, list),
         \A q \in Queues : \A i \in Slot(q) :
           m2.station[q][i].queued
             <=> (m.station[q][i].queued /\ ~Targets(m, Head(list), q, i))
  PROVE  ReadyOK(m2, Tail(list))
<1>1. /\ Head(list) \in Links /\ Head(list) = list[1] /\ 1 \in 1..Len(list)
      /\ Tail(list) \in Seq(Links)
      /\ \A k \in 1..Len(Tail(list)) : Tail(list)[k] = list[k + 1] /\ k + 1 \in 1..Len(list)
      /\ \A k \in 1..Len(list) : k # 1 =>
           k - 1 \in 1..Len(Tail(list)) /\ list[k] = Tail(list)[k - 1]
  BY TailElements
<1>2. m.ready_queue \in Seq(Links)
  BY DEF CoreOK
<1>3. \A s \in Seq(Links) : \A k \in 1..Len(s) : s[k] \in Links
  OBVIOUS
<1>4. /\ ListOK(m, m.ready_queue) /\ ListOK(m, list) /\ Apart(m.ready_queue, list)
  BY ReadyParts
<1>5. \A l \in Links : RSLINK_VALID(m, l) /\ ~SameTarget(l, Head(list)) =>
        (RS(m2, l).queued <=> RS(m, l).queued)
  BY DEF Links, RS, RSLINK_VALID, SameTarget, Targets
<1>6. ListOK(m2, m.ready_queue)
  <2>1. \A k \in 1..Len(m.ready_queue) : ~SameTarget(m.ready_queue[k], Head(list))
    BY <1>1, <1>4 DEF Apart
  <2> QED BY <1>2, <1>3, <1>4, <1>5, <2>1, SameAlike, SameListOK
<1>7. ListOK(m, Tail(list)) /\ \A k \in 1..Len(Tail(list)) : ~SameTarget(Tail(list)[k], Head(list))
  <2>1. NoTwoTargets(list)
    BY <1>4 DEF ListOK
  <2>2. NoTwoTargets(Tail(list))
    BY <1>1, <2>1 DEF NoTwoTargets
  <2>3. \A k \in 1..Len(Tail(list)) : ~SameTarget(Tail(list)[k], Head(list))
    <3>1. \A k \in 1..Len(Tail(list)) : k + 1 # 1
      OBVIOUS
    <3> QED BY <1>1, <2>1, <3>1 DEF NoTwoTargets
  <2> QED BY <1>1, <1>4, <2>2, <2>3 DEF ListOK
<1>8. ListOK(m2, Tail(list))
  BY <1>1, <1>3, <1>5, <1>7, SameAlike, SameListOK
<1>9. Apart(m2.ready_queue, Tail(list))
  BY <1>1, <1>4 DEF Apart
<1>10. ASSUME NEW q \in Queues, NEW i \in Slot(q), In(m2, q, i), m2.station[q][i].queued
       PROVE  Listed(m2, m.ready_queue, q, i) \/ Listed(m2, Tail(list), q, i)
  <2>1. In(m, q, i) /\ m.station[q][i].queued /\ ~Targets(m, Head(list), q, i)
    BY <1>10, SameIn DEF Same
  <2>2. Listed(m, m.ready_queue, q, i) \/ Listed(m, list, q, i)
    BY <2>1, ReadyParts
  <2>3. Listed(m, m.ready_queue, q, i) => Listed(m2, m.ready_queue, q, i)
    BY <1>2, <1>3, SameAlike, SameLink DEF Listed
  <2>4. ASSUME Listed(m, list, q, i) PROVE Listed(m2, Tail(list), q, i)
    <3>1. PICK k \in 1..Len(list) : Targets(m, list[k], q, i)
      BY <2>4 DEF Listed
    <3>2. k # 1
      BY <1>1, <2>1, <3>1
    <3>3. k - 1 \in 1..Len(Tail(list)) /\ Targets(m2, Tail(list)[k - 1], q, i)
      BY <1>1, <1>3, <3>1, <3>2, SameAlike, SameLink
    <3> QED BY <3>3 DEF Listed
  <2> QED BY <2>2, <2>3, <2>4
<1> QED BY <1>6, <1>8, <1>9, <1>10, ReadyParts

\* Every state is the same as itself.
LEMMA SameItself ==
  ASSUME NEW m
  PROVE  Same(m, m)
BY DEF Same, SameRing, SameStatic

\* The operation at the head of the list being issued from.
LEMMA NodeFacts ==
  ASSUME NEW m, NEW mode, NEW last, NEW list \in Seq(Links), list # <<>>,
         NEW N, NEW X, NEW U, Sound(m, mode, last, list, N, X, U),
         RSLINK_VALID(m, Head(list))
  PROVE  LET r == Head(list)
             a == m.station[r.q][r.i]
         IN  /\ r \in Links /\ r.q \in Queues /\ r.i \in Slot(r.q)
             /\ r.tag = a.tag /\ In(m, r.q, r.i) /\ a \in Station
             /\ a.queued /\ OPERANDS_READY(a) /\ ~a.issued /\ ~a.completed
             /\ \A q \in Queues : \A i \in Slot(q) :
                  Targets(m, r, q, i) <=> (q = r.q /\ i = r.i)
<1> DEFINE r == Head(list)
           a == m.station[r.q][r.i]
<1>1. r \in Links /\ r = list[1] /\ 1 \in 1..Len(list)
  BY TailElements
<1>2. r.q \in Queues /\ r.i \in Slot(r.q)
  BY <1>1 DEF Links
<1>3. LinkOK(m, r) /\ RS(m, r).queued
  BY <1>1 DEF Sound, ReadyOK
<1>4. r.tag = a.tag /\ In(m, r.q, r.i) /\ a.queued
  BY <1>3 DEF LinkOK, RSLINK_VALID, RS
<1>5. a \in Station
  BY <1>2, StationType DEF Sound
<1>6. OPERANDS_READY(a) /\ ~a.issued /\ ~a.completed
  BY <1>2, <1>4, <1>5, StationFields DEF Sound, FlagsOK
<1>7. \A q \in Queues : \A i \in Slot(q) : Targets(m, r, q, i) <=> (q = r.q /\ i = r.i)
  BY <1>4 DEF Targets
<1> QED BY <1>1, <1>2, <1>4, <1>5, <1>6, <1>7

\* A node whose operation is gone is dropped.
LEMMA DropNodeSound ==
  ASSUME CoreOK(core), NEW list \in Seq(Links), list # <<>>, ReadyOK(core, list),
         ~RSLINK_VALID(core, Head(list))
  PROVE  ReadyOK(core, Tail(list))
<1>1. Head(list) \in Links
  BY TailElements
<1>2. \A q \in Queues : \A i \in Slot(q) : ~Targets(core, Head(list), q, i)
  BY <1>1 DEF Targets, RSLINK_VALID, RS
<1>3. Same(core, core)
  BY SameItself
<1>4. \A q \in Queues : \A i \in Slot(q) : core.station[q][i].queued \in BOOLEAN
  BY StationType, StationFields
<1> QED BY <1>2, <1>3, <1>4, PopReady

\* An operation goes back to the ready list.
LEMMA RequeueSound ==
  ASSUME NEW mode, NEW last, NEW list \in Seq(Links), list # <<>>,
         Sound(core, mode, last, list, {}, {}, {}),
         RSLINK_VALID(core, Head(list)),
         NEW m2, m2 = readyq_enqueue(Unqueued(Head(list)), Head(list))
  PROVE  Sound(m2, mode, last, Tail(list), {}, {}, {})
         /\ SameVectors(core, m2)
<1> DEFINE r == Head(list)
           a == core.station[r.q][r.i]
           m1 == Unqueued(r)
           b == [a EXCEPT !.queued = FALSE]
<1>1. CoreOK(core)
  BY DEF Sound
<1>2. /\ r \in Links /\ r.q \in Queues /\ r.i \in Slot(r.q)
      /\ r.tag = a.tag /\ In(core, r.q, r.i) /\ a \in Station
      /\ a.queued /\ OPERANDS_READY(a) /\ ~a.issued /\ ~a.completed
      /\ \A q \in Queues : \A i \in Slot(q) :
           Targets(core, r, q, i) <=> (q = r.q /\ i = r.i)
  BY NodeFacts
<1>3. /\ CoreOK(m1) /\ SameRing(core, m1) /\ SameVectors(core, m1) /\ SameLists(core, m1)
      /\ Put(core, m1, r.q, r.i, b)
  BY <1>1, <1>2, UnqueuedIs
<1>4. SameStatic(a, b) /\ b.queued = FALSE /\ b \in Station
  BY <1>2 DEF SameStatic, Station
<1>5. Same(core, m1)
  BY <1>2, <1>3, <1>4, PutSame
<1> HIDE DEF b, m1
<1>6. \A q \in Queues : \A i \in Slot(q) :
        m1.station[q][i].queued
          <=> (core.station[q][i].queued /\ ~Targets(core, r, q, i))
  <2>1. \A q \in Queues : \A i \in Slot(q) : core.station[q][i].queued \in BOOLEAN
    BY <1>1, StationType, StationFields
  <2>2. m1.station[r.q][r.i].queued = FALSE
    BY ONLY <1>2, <1>3, <1>4 DEF Put
  <2>3. ASSUME NEW q \in Queues, NEW i \in Slot(q), ~(q = r.q /\ i = r.i)
        PROVE  m1.station[q][i] = core.station[q][i]
    BY ONLY <1>3, <2>3 DEF Put
  <2> HIDE DEF r, a
  <2> QED BY ONLY <1>2, <2>1, <2>2, <2>3
<1>7. Tail(list) \in Seq(Links)
  BY TailElements
<1>8. ReadyOK(m1, Tail(list))
  BY <1>1, <1>3, <1>5, <1>6, PopReady DEF Sound, SameLists
<1>9. m1.station[r.q][r.i] = b
  BY <1>2, <1>3 DEF Put
<1>10. In(m1, r.q, r.i)
  BY <1>2, <1>3, SameIn
<1>11. m2 = readyq_enqueue(m1, r)
  BY DEF m1
<1>12. ReadyOK(m2, Tail(list))
  BY <1>2, <1>3, <1>4, <1>7, <1>8, <1>9, <1>10, <1>11, EnqueueReady
<1>13. /\ CoreOK(m2) /\ SameRing(m1, m2) /\ SameVectors(m1, m2)
       /\ m2.event_queue = m1.event_queue
       /\ Put(m1, m2, r.q, r.i, [b EXCEPT !.queued = TRUE])
  BY ONLY <1>2, <1>3, <1>9, <1>11, EnqueueIs
<1>14. [b EXCEPT !.queued = TRUE] = a
  BY <1>2 DEF b, Station
<1>15. \A q \in Queues : \A i \in Slot(q) : m2.station[q][i] = core.station[q][i]
  BY <1>3, <1>13, <1>14 DEF Put
<1>16. Same(core, m2) /\ SameVectors(core, m2) /\ m2.event_queue = core.event_queue
  BY <1>3, <1>13, <1>15 DEF Same, SameRing, SameVectors, SameLists, SameStatic
<1>17. Ring(m2) /\ Kinds(m2) /\ Ordered(m2, last) /\ Paired(m2)
  BY <1>1, <1>13, <1>16, SameShape DEF Sound
<1>18. Boundary(m2, mode)
  BY <1>1, <1>13, <1>15, <1>16, SameBoundary DEF Sound
<1>19. EventsOK(m2)
  BY <1>1, <1>15, <1>16, SameAlike, SameEvents DEF Sound
<1>20. ChainsOK(m2, {}, {})
  BY <1>1, <1>15, <1>16, SameAlike, SameChains DEF Sound
<1>21. CreatorsOK(m2, {})
  BY <1>1, <1>15, <1>16, SameAlike, SameCreators DEF Sound
<1>22. FlagsOK(m2, {})
  BY <1>15, <1>16, SameAlike, SameFlags DEF Sound
<1>23. LoadsOK(m2)
  <2>1. \A i \in Slot("LSQ") : m2.station["LSQ"][i] = core.station["LSQ"][i]
    BY <1>15 DEF Queues
  <2> QED BY <1>16, <2>1, SameAlike, SameLoads DEF Sound
<1> QED BY <1>12, <1>13, <1>16, <1>17, <1>18, <1>19, <1>20, <1>21, <1>22, <1>23 DEF Sound

-----------------------------------------------------------------------------
(*****************************************************************************)
(* Issue.                                                                    *)
(*****************************************************************************)
\* The operation at the head of the list starts to execute.
LEMMA IssueSound ==
  ASSUME NEW mode, NEW last, NEW list \in Seq(Links), list # <<>>,
         Sound(core, mode, last, list, {}, {}, {}),
         RSLINK_VALID(core, Head(list)), NEW lat \in Int,
         NEW m2, m2 = eventq_queue_event(Started(Head(list)), Head(list), lat)
  PROVE  Sound(m2, mode, last, Tail(list), {}, {}, {})
         /\ SameVectors(core, m2)
<1> DEFINE r == Head(list)
           a == core.station[r.q][r.i]
           m1 == Started(r)
           b == [a EXCEPT !.queued = FALSE, !.issued = TRUE]
<1>0. PICK ev : ev = Link(m1, r, lat)
  OBVIOUS
<1>1. CoreOK(core)
  BY DEF Sound
<1>2. /\ r \in Links /\ r.q \in Queues /\ r.i \in Slot(r.q)
      /\ r.tag = a.tag /\ In(core, r.q, r.i) /\ a \in Station
      /\ a.queued /\ OPERANDS_READY(a) /\ ~a.issued /\ ~a.completed
      /\ \A q \in Queues : \A i \in Slot(q) :
           Targets(core, r, q, i) <=> (q = r.q /\ i = r.i)
  BY NodeFacts
<1>3. /\ CoreOK(m1) /\ SameRing(core, m1) /\ SameVectors(core, m1) /\ SameLists(core, m1)
      /\ Put(core, m1, r.q, r.i, b)
  BY <1>1, <1>2, IssuedIs
<1>4. /\ SameStatic(a, b) /\ b.queued = FALSE /\ b.issued = TRUE
      /\ b.completed = a.completed /\ b.idep_ready = a.idep_ready
      /\ b.odep_list = a.odep_list
  BY <1>2 DEF SameStatic, Station
<1> HIDE DEF b, m1
<1>5. /\ CoreOK(m2) /\ SameRing(m1, m2) /\ SameVectors(m1, m2)
      /\ m2.station = m1.station /\ m2.ready_queue = m1.ready_queue
      /\ m2.event_queue \in Seq(Links)
      /\ Inserted(m1.event_queue, m2.event_queue, ev)
  <2>1. m2 = eventq_queue_event(m1, r, lat)
    BY DEF m1
  <2> QED BY ONLY <1>0, <1>2, <1>3, <2>1, EventIs, lat \in Int
<1>6. SameRing(core, m2) /\ SameVectors(core, m2) /\ Put(core, m2, r.q, r.i, b)
  BY <1>3, <1>5 DEF SameRing, SameVectors, Put
<1>7. Same(core, m2)
  BY <1>2, <1>4, <1>6, PutSame
<1>8. m2.ready_queue = core.ready_queue /\ Inserted(core.event_queue, m2.event_queue, ev)
  BY <1>3, <1>5 DEF SameLists
<1>9. ev \in Links /\ ev.q = r.q /\ ev.i = r.i /\ ev.tag = a.tag
  <2>1. m1.station[r.q][r.i].tag = a.tag
    BY <1>2, <1>3, <1>4 DEF Put, SameStatic
  <2>2. ev \in Links /\ ev.q = r.q /\ ev.i = r.i /\ ev.tag = m1.station[r.q][r.i].tag
    <3> HIDE DEF r, a
    <3> QED BY ONLY <1>0, <1>2, <1>3, LinkType, lat \in Int
  <2> QED BY <2>1, <2>2
<1>10. \A q \in Queues : \A i \in Slot(q) :
         /\ m2.station[q][i].completed = core.station[q][i].completed
         /\ m2.station[q][i].idep_ready = core.station[q][i].idep_ready
         /\ m2.station[q][i].odep_list = core.station[q][i].odep_list
         /\ m2.station[q][i].queued <=> (core.station[q][i].queued /\ ~(q = r.q /\ i = r.i))
         /\ m2.station[q][i].issued <=> (core.station[q][i].issued \/ (q = r.q /\ i = r.i))
  BY <1>4, <1>6, ZenonT(40) DEF Put
<1>11. ReadyOK(m2, Tail(list))
  <2>1. \A q \in Queues : \A i \in Slot(q) :
          m2.station[q][i].queued
            <=> (core.station[q][i].queued /\ ~Targets(core, Head(list), q, i))
    <3>1. ASSUME NEW q \in Queues, NEW i \in Slot(q)
          PROVE  m2.station[q][i].queued
                   <=> (core.station[q][i].queued /\ ~Targets(core, Head(list), q, i))
      <4>1. Targets(core, r, q, i) <=> (q = r.q /\ i = r.i)
        BY <1>2
      <4>2. m2.station[q][i].queued <=> (core.station[q][i].queued /\ ~(q = r.q /\ i = r.i))
        BY <1>10
      <4> QED BY <4>1, <4>2
    <3> QED BY <3>1
  <2> QED BY <1>1, <1>7, <1>8, <2>1, PopReady DEF Sound
<1>12. Ring(m2) /\ Kinds(m2) /\ Ordered(m2, last) /\ Paired(m2)
  BY <1>1, <1>5, <1>7, SameShape DEF Sound
<1>13. Boundary(m2, mode)
  BY <1>1, <1>5, <1>7, <1>10, SameBoundary DEF Sound
<1>14. ChainsOK(m2, {}, {})
  BY <1>1, <1>7, <1>10, SameAlike, SameChains DEF Sound
<1>15. CreatorsOK(m2, {})
  BY <1>1, <1>6, <1>7, <1>10, SameAlike, SameCreators DEF Sound
<1>16. \A q, i : In(m2, q, i) <=> In(core, q, i)
  BY <1>6, SameIn
<1>17. FlagsOK(m2, {})
  <2>1. FlagsOK(core, {})
    BY DEF Sound
  <2>2. \A q \in Queues : \A i \in Slot(q) :
          /\ OPERANDS_READY(m2.station[q][i]) <=> OPERANDS_READY(core.station[q][i])
          /\ m2.station[q][i].op = core.station[q][i].op
    BY <1>7, <1>10 DEF OPERANDS_READY, Same, SameStatic
  <2>3. ASSUME NEW q \in Queues, NEW i \in Slot(q), In(m2, q, i)
        PROVE  LET rs == m2.station[q][i] IN
               /\ rs.queued => OPERANDS_READY(rs) /\ ~rs.issued
               /\ rs.issued => OPERANDS_READY(rs)
               /\ rs.completed => rs.issued
               /\ OPERANDS_READY(rs) /\ ~rs.queued /\ ~rs.issued => rs.op = "load"
    <3>1. LET rs == core.station[q][i] IN
          /\ rs.queued => OPERANDS_READY(rs) /\ ~rs.issued
          /\ rs.issued => OPERANDS_READY(rs)
          /\ rs.completed => rs.issued
          /\ OPERANDS_READY(rs) /\ ~rs.queued /\ ~rs.issued => rs.op = "load"
      BY <1>16, <2>1, <2>3 DEF FlagsOK
    <3>2. CASE q = r.q /\ i = r.i
      BY <1>2, <1>10, <2>2, <3>1, <3>2
    <3>3. CASE ~(q = r.q /\ i = r.i)
      BY <1>10, <2>2, <3>1, <3>3
    <3> QED BY <3>2, <3>3
  <2> QED BY <2>3 DEF FlagsOK
<1>18. LoadsOK(m2)
  <2>1. \A i \in Slot("LSQ") :
          /\ m2.station["LSQ"][i].idep_ready = core.station["LSQ"][i].idep_ready
          /\ (m2.station["LSQ"][i].queued \/ m2.station["LSQ"][i].issued) =>
               (core.station["LSQ"][i].queued \/ core.station["LSQ"][i].issued)
    BY <1>2, <1>10 DEF Queues
  <2> QED BY <1>7, <2>1, SameAlike, SameLoads DEF Sound
<1>19. EventsOK(m2)
  <2>1. core.event_queue \in Seq(Links) /\ \A k \in 1..Len(core.event_queue) : core.event_queue[k] \in Links
    BY <1>1 DEF CoreOK
  <2>2. \A k \in 1..Len(core.event_queue) :
          LET l == core.event_queue[k] IN
          /\ LinkOK(core, l)
          /\ RSLINK_VALID(core, l) => RS(core, l).issued /\ ~RS(core, l).completed
    BY DEF Sound, EventsOK
  <2>3. \A l \in Links : /\ RS(core, l).issued => RS(m2, l).issued
                         /\ RS(m2, l).completed = RS(core, l).completed
    BY <1>10 DEF Links, RS
  <2>a. /\ \A k \in 1..Len(m2.event_queue) :
              m2.event_queue[k] = ev \/ \E j \in 1..Len(core.event_queue) : m2.event_queue[k] = core.event_queue[j]
        /\ \E k \in 1..Len(m2.event_queue) : m2.event_queue[k] = ev
        /\ \A j \in 1..Len(core.event_queue) : \E k \in 1..Len(m2.event_queue) : m2.event_queue[k] = core.event_queue[j]
    <3>1. /\ m2.event_queue \in Seq(Links) /\ core.event_queue \in Seq(Links)
          /\ Inserted(core.event_queue, m2.event_queue, ev)
      BY <1>5, <1>8, <2>1
    <3>2. \A k \in 1..Len(m2.event_queue) :
            m2.event_queue[k] = ev \/ \E j \in 1..Len(core.event_queue) : m2.event_queue[k] = core.event_queue[j]
      <4>1. PICK s \in Seq(Links), t \in Seq(Links) : s = core.event_queue /\ t = m2.event_queue
        BY <3>1
      <4>2. Inserted(s, t, ev)
        BY <3>1, <4>1
      <4>3. \A k \in 1..Len(t) : t[k] = ev \/ \E j \in 1..Len(s) : t[k] = s[j]
        BY ONLY <4>2, InsertedLinks
      <4> QED BY ONLY <4>1, <4>3
    <3>3. \E k \in 1..Len(m2.event_queue) : m2.event_queue[k] = ev
      BY ONLY <3>1, InsertedLinks
    <3>4. \A j \in 1..Len(core.event_queue) : \E k \in 1..Len(m2.event_queue) : m2.event_queue[k] = core.event_queue[j]
      BY ONLY <3>1, InsertedLinks
    <3> QED BY <3>2, <3>3, <3>4
  <2>4. \A k \in 1..Len(core.event_queue) : ~SameTarget(core.event_queue[k], ev)
    BY <1>2, <1>9, <2>1, <2>2 DEF SameTarget, RSLINK_VALID, RS
  <2>5. NoTwoTargets(m2.event_queue)
    BY <1>5, <1>8, <2>1, <2>4, InsertedTargets DEF Sound, EventsOK
  <2>6. LinkOK(m2, ev) /\ RS(m2, ev).issued /\ ~RS(m2, ev).completed
    <3>1. LinkOK(core, ev)
      <4>1. a.tag \in Nat
        BY ONLY <1>2, StationFields
      <4>2. ev.q = r.q /\ ev.i = r.i /\ ev.tag = core.station[r.q][r.i].tag
        BY ONLY <1>9
      <4>3. In(core, r.q, r.i) /\ core.station[r.q][r.i].tag \in Nat
        BY ONLY <1>2, <4>1
      <4> HIDE DEF r
      <4> QED BY ONLY <4>2, <4>3 DEF LinkOK
    <3>2. LinkOK(m2, ev)
      BY <1>7, <1>9, <3>1, SameAlike, SameLink
    <3>3. m2.station[r.q][r.i].issued /\ ~m2.station[r.q][r.i].completed
      BY <1>2, <1>10
    <3> QED BY <1>9, <3>2, <3>3 DEF RS
  <2>7. ASSUME NEW k \in 1..Len(m2.event_queue)
        PROVE  LET l == m2.event_queue[k] IN
               /\ LinkOK(m2, l)
               /\ RSLINK_VALID(m2, l) => RS(m2, l).issued /\ ~RS(m2, l).completed
    <3>1. m2.event_queue[k] = ev \/ \E j \in 1..Len(core.event_queue) : m2.event_queue[k] = core.event_queue[j]
      BY <2>a
    <3>2. CASE m2.event_queue[k] = ev
      BY <2>6, <3>2
    <3>3. ASSUME NEW j \in 1..Len(core.event_queue), m2.event_queue[k] = core.event_queue[j]
          PROVE  LET l == m2.event_queue[k] IN
                 /\ LinkOK(m2, l)
                 /\ RSLINK_VALID(m2, l) => RS(m2, l).issued /\ ~RS(m2, l).completed
      BY <1>7, <2>1, <2>2, <2>3, <3>3, SameAlike, SameLink
    <3> QED BY <3>1, <3>2, <3>3
  <2>8. ASSUME NEW q \in Queues, NEW i \in Slot(q), In(m2, q, i), m2.station[q][i].issued,
               ~m2.station[q][i].completed
        PROVE  \E k \in 1..Len(m2.event_queue) : Targets(m2, m2.event_queue[k], q, i)
    <3>1. CASE q = r.q /\ i = r.i
      <4>1. PICK k \in 1..Len(m2.event_queue) : m2.event_queue[k] = ev
        BY <2>a
      <4>2. Targets(core, ev, q, i)
        BY <1>9, <3>1 DEF Targets
      <4> QED BY <1>7, <1>9, <4>1, <4>2, SameAlike, SameLink
    <3>2. CASE ~(q = r.q /\ i = r.i)
      <4>1. In(core, q, i) /\ core.station[q][i].issued /\ ~core.station[q][i].completed
        BY <1>10, <1>16, <2>8, <3>2
      <4>2. PICK j \in 1..Len(core.event_queue) : Targets(core, core.event_queue[j], q, i)
        BY <4>1 DEF Sound, EventsOK
      <4>3. PICK k \in 1..Len(m2.event_queue) : m2.event_queue[k] = core.event_queue[j]
        BY <2>a
      <4> QED BY <1>7, <2>1, <4>2, <4>3, SameAlike, SameLink
    <3> QED BY <3>1, <3>2
  <2> QED BY <2>5, <2>7, <2>8 DEF EventsOK
<1> QED BY <1>5, <1>6, <1>11, <1>12, <1>13, <1>14, <1>15, <1>17, <1>18, <1>19 DEF Sound

\* A store completes when it is issued.
LEMMA StoreSound ==
  ASSUME NEW mode, NEW last, NEW list \in Seq(Links), list # <<>>,
         Sound(core, mode, last, list, {}, {}, {}),
         RSLINK_VALID(core, Head(list)), RS(core, Head(list)).op = "store",
         NEW m2, m2 = Stored(Head(list))
  PROVE  Sound(m2, mode, last, Tail(list), {}, {}, {})
         /\ SameVectors(core, m2)
<1> DEFINE r == Head(list)
           a == core.station[r.q][r.i]
           b == [a EXCEPT !.queued = FALSE, !.issued = TRUE, !.completed = TRUE]
<1>1. CoreOK(core)
  BY DEF Sound
<1>2. /\ r \in Links /\ r.q \in Queues /\ r.i \in Slot(r.q)
      /\ r.tag = a.tag /\ In(core, r.q, r.i) /\ a \in Station
      /\ a.queued /\ OPERANDS_READY(a) /\ ~a.issued /\ ~a.completed
      /\ \A q \in Queues : \A i \in Slot(q) :
           Targets(core, r, q, i) <=> (q = r.q /\ i = r.i)
  BY NodeFacts
<1>3. /\ CoreOK(m2) /\ SameRing(core, m2) /\ SameVectors(core, m2) /\ SameLists(core, m2)
      /\ Put(core, m2, r.q, r.i, b)
  BY <1>1, <1>2, StoreIssuedIs
<1>4. /\ SameStatic(a, b) /\ b.queued = FALSE /\ b.issued = TRUE
      /\ b.completed = TRUE /\ b.idep_ready = a.idep_ready
      /\ b.odep_list = a.odep_list
  BY <1>2 DEF SameStatic, Station
<1>5. a.op = "store" /\ r.q = "LSQ" /\ ~a.recover_inst /\ a.onames[1] = NA /\ a.onames[2] = NA
  BY <1>2 DEF RS, Sound, Kinds, Kind
<1> HIDE DEF b
<1>7. Same(core, m2)
  BY <1>2, <1>3, <1>4, PutSame
<1>10. \A q \in Queues : \A i \in Slot(q) :
         /\ m2.station[q][i].idep_ready = core.station[q][i].idep_ready
         /\ m2.station[q][i].odep_list = core.station[q][i].odep_list
         /\ m2.station[q][i].completed <=> (core.station[q][i].completed \/ (q = r.q /\ i = r.i))
         /\ m2.station[q][i].queued <=> (core.station[q][i].queued /\ ~(q = r.q /\ i = r.i))
         /\ m2.station[q][i].issued <=> (core.station[q][i].issued \/ (q = r.q /\ i = r.i))
  BY <1>3, <1>4 DEF Put
<1>a. \A q \in Queues : \A i \in Slot(q) :
        /\ core.station[q][i].completed \in BOOLEAN /\ m2.station[q][i].completed \in BOOLEAN
  BY <1>1, <1>3, StationType, StationFields
<1>11. ReadyOK(m2, Tail(list))
  <2>1. \A q \in Queues : \A i \in Slot(q) :
          m2.station[q][i].queued
            <=> (core.station[q][i].queued /\ ~Targets(core, Head(list), q, i))
    <3>1. ASSUME NEW q \in Queues, NEW i \in Slot(q)
          PROVE  m2.station[q][i].queued
                   <=> (core.station[q][i].queued /\ ~Targets(core, Head(list), q, i))
      <4>1. Targets(core, r, q, i) <=> (q = r.q /\ i = r.i)
        BY <1>2
      <4>2. m2.station[q][i].queued <=> (core.station[q][i].queued /\ ~(q = r.q /\ i = r.i))
        BY <1>10
      <4> QED BY <4>1, <4>2
    <3> QED BY <3>1
  <2> QED BY <1>1, <1>3, <1>7, <2>1, PopReady DEF Sound, SameLists
<1>12. Ring(m2) /\ Kinds(m2) /\ Ordered(m2, last) /\ Paired(m2)
  BY <1>1, <1>3, <1>7, SameShape DEF Sound
<1>13. Boundary(m2, mode)
  <2>1. \A q \in Queues : \A i \in Slot(q) :
           /\ core.station[q][i].completed => m2.station[q][i].completed
           /\ core.station[q][i].recover_inst =>
                m2.station[q][i].completed = core.station[q][i].completed
    BY <1>a, <1>5, <1>10
  <2> QED BY <1>1, <1>3, <1>7, <2>1, SameBoundary DEF Sound
<1>16. \A q, i : In(m2, q, i) <=> In(core, q, i)
  BY <1>3, SameIn
<1>14. ChainsOK(m2, {}, {})
  <2>1. ChainsOK(core, {}, {})
    BY DEF Sound
  <2>2. \A q \in Queues : \A i \in Slot(q) : \A d \in 1..2 :
          m2.station[q][i].completed /\ Chain(core, q, i, d) # <<>> => core.station[q][i].completed
    <3>1. ASSUME NEW q \in Queues, NEW i \in Slot(q), NEW d \in 1..2,
                 m2.station[q][i].completed, Chain(core, q, i, d) # <<>>
          PROVE  core.station[q][i].completed
      <4>1. core.station[q][i].onames[d] # NA
        BY <2>1, <3>1, ChainsParts DEF ChainsInFlight
      <4>2. ~(q = r.q /\ i = r.i)
        BY <1>5, <4>1
      <4> QED BY <1>10, <3>1, <4>2
    <3> QED BY <3>1
  <2> QED BY <1>1, <1>7, <1>10, <2>1, <2>2, SameAlike, CompleteChains
<1>15. CreatorsOK(m2, {})
  <2>1. NA \notin Names
    BY SizesAssumption DEF Names, DTMP, NA
  <2>2. \A q \in Queues : \A i \in Slot(q) : \A d \in 1..2 :
          m2.station[q][i].completed /\ core.station[q][i].onames[d] \in Names =>
            core.station[q][i].completed
    BY <1>5, <1>10, <2>1
  <2> QED BY <1>1, <1>3, <1>7, <1>10, <2>2, SameAlike, CompleteCreators DEF Sound
<1>17. FlagsOK(m2, {})
  <2>1. FlagsOK(core, {})
    BY DEF Sound
  <2>2. \A q \in Queues : \A i \in Slot(q) :
          /\ OPERANDS_READY(m2.station[q][i]) <=> OPERANDS_READY(core.station[q][i])
          /\ m2.station[q][i].op = core.station[q][i].op
    BY <1>7, <1>10 DEF OPERANDS_READY, Same, SameStatic
  <2>3. ASSUME NEW q \in Queues, NEW i \in Slot(q), In(m2, q, i)
        PROVE  LET rs == m2.station[q][i] IN
               /\ rs.queued => OPERANDS_READY(rs) /\ ~rs.issued
               /\ rs.issued => OPERANDS_READY(rs)
               /\ rs.completed => rs.issued
               /\ OPERANDS_READY(rs) /\ ~rs.queued /\ ~rs.issued => rs.op = "load"
    <3>1. LET rs == core.station[q][i] IN
          /\ rs.queued => OPERANDS_READY(rs) /\ ~rs.issued
          /\ rs.issued => OPERANDS_READY(rs)
          /\ rs.completed => rs.issued
          /\ OPERANDS_READY(rs) /\ ~rs.queued /\ ~rs.issued => rs.op = "load"
      BY <1>16, <2>1, <2>3 DEF FlagsOK
    <3>2. CASE q = r.q /\ i = r.i
      BY <1>2, <1>10, <2>2, <3>1, <3>2
    <3>3. CASE ~(q = r.q /\ i = r.i)
      BY <1>10, <2>2, <3>1, <3>3
    <3> QED BY <3>2, <3>3
  <2> QED BY <2>3 DEF FlagsOK
<1>18. LoadsOK(m2)
  <2>1. \A i \in Slot("LSQ") :
          /\ m2.station["LSQ"][i].idep_ready = core.station["LSQ"][i].idep_ready
          /\ (m2.station["LSQ"][i].queued \/ m2.station["LSQ"][i].issued) =>
               (core.station["LSQ"][i].queued \/ core.station["LSQ"][i].issued)
    BY <1>2, <1>10 DEF Queues
  <2> QED BY <1>7, <2>1, SameAlike, SameLoads DEF Sound
<1>19. EventsOK(m2)
  <2>1. \A k \in 1..Len(core.event_queue) : core.event_queue[k] \in Links
    BY <1>1 DEF CoreOK
  <2>2. \A k \in 1..Len(core.event_queue) :
          LET l == core.event_queue[k] IN
          /\ LinkOK(core, l)
          /\ RSLINK_VALID(core, l) => RS(core, l).issued /\ ~RS(core, l).completed
    BY DEF Sound, EventsOK
  <2>3. \A l \in Links : RSLINK_VALID(core, l) /\ RS(core, l).issued =>
                           /\ RS(m2, l).issued
                           /\ RS(m2, l).completed <=> RS(core, l).completed
    BY <1>2, <1>10, ZenonT(40) DEF Links, RS
  <2>4. m2.event_queue = core.event_queue
    BY <1>3 DEF SameLists
  <2>5. \A k \in 1..Len(m2.event_queue) :
          LET l == m2.event_queue[k] IN
          /\ LinkOK(m2, l)
          /\ RSLINK_VALID(m2, l) => RS(m2, l).issued /\ ~RS(m2, l).completed
    BY <1>7, <2>1, <2>2, <2>3, <2>4, SameAlike, SameLink
  <2>6. \A q \in Queues : \A i \in Slot(q) :
          /\ In(m2, q, i) /\ m2.station[q][i].issued /\ ~m2.station[q][i].completed
          => \E k \in 1..Len(m2.event_queue) : Targets(m2, m2.event_queue[k], q, i)
    BY <1>7, <1>10, <1>16, <2>1, <2>4, SameAlike, SameLink DEF Sound, EventsOK
  <2> QED BY <2>4, <2>5, <2>6 DEF Sound, EventsOK
<1> QED BY <1>3, <1>11, <1>12, <1>13, <1>14, <1>15, <1>17, <1>18, <1>19 DEF Sound

-----------------------------------------------------------------------------
(*****************************************************************************)
(* lsq_refresh.                                                              *)
(*****************************************************************************)
\* The operation lsq_refresh finds at a position of the LSQ.
LEMMA LSQAtIs ==
  ASSUME CoreOK(core), NEW j \in Slot("LSQ")
  PROVE  /\ LSQAt(Distance(core, "LSQ", j)) = core.station["LSQ"][j]
         /\ Distance(core, "LSQ", j) \in Nat
<1>1. "LSQ" \in Queues
  BY DEF Queues
<1>2. (core.head["LSQ"] + Distance(core, "LSQ", j)) % Size["LSQ"] = j
  BY <1>1, SlotOf
<1> QED BY <1>1, <1>2, SizeType, DistanceIs DEF LSQAt

\* A load that ReadyLoad admits may be released.
LEMMA LoadReleased ==
  ASSUME CoreOK(core), LoadsOK(core), Kinds(core), NEW p \in ReadyLoads,
         NEW i \in Slot("LSQ"), Distance(core, "LSQ", i) = p,
         NEW s \in Slot("LSQ"), In(core, "LSQ", s),
         Distance(core, "LSQ", s) < p, core.station["LSQ"][s].op = "store"
  PROVE  /\ STORE_ADDR_READY(core.station["LSQ"][s])
         /\ \/ core.station["LSQ"][s].addr # core.station["LSQ"][i].addr
            \/ OPERANDS_READY(core.station["LSQ"][s])
            \/ \E t \in Slot("LSQ") :
                 /\ Distance(core, "LSQ", s) < Distance(core, "LSQ", t)
                 /\ Distance(core, "LSQ", t) < p
                 /\ core.station["LSQ"][t].op = "store"
                 /\ core.station["LSQ"][t].addr = core.station["LSQ"][i].addr
<1> DEFINE d == Distance(core, "LSQ", s)
<1>0. "LSQ" \in Queues
  BY DEF Queues
<1>1. p \in 0..(core.num["LSQ"] - 1) /\ ReadyLoad(p) /\ p \in Nat /\ p < core.num["LSQ"]
      /\ p < Size["LSQ"]
  BY <1>0, Pointers DEF ReadyLoads
<1>2. LSQAt(p) = core.station["LSQ"][i] /\ LSQAt(d) = core.station["LSQ"][s]
  BY LSQAtIs
<1>3. d \in 0..(p - 1)
  BY <1>1, LSQAtIs
<1>4. StoreAt(d)
  BY <1>2 DEF StoreAt
<1>5. STORE_ADDR_READY(LSQAt(d))
  BY <1>1, <1>3, <1>4 DEF ReadyLoad
<1>6. ~Conflict(p)
  BY <1>1 DEF ReadyLoad
<1>7. StdUnknown(d) => LSQAt(p).addr # IF Hidden(d, p) THEN 0 ELSE LSQAt(d).addr
  BY <1>3, <1>6 DEF Conflict
<1>8. ASSUME ~OPERANDS_READY(LSQAt(d)), Hidden(d, p), LSQAt(d).addr = LSQAt(p).addr
      PROVE  \E t \in Slot("LSQ") :
               /\ Distance(core, "LSQ", s) < Distance(core, "LSQ", t)
               /\ Distance(core, "LSQ", t) < p
               /\ core.station["LSQ"][t].op = "store"
               /\ core.station["LSQ"][t].addr = core.station["LSQ"][i].addr
  <2>1. PICK k \in (d + 1)..(p - 1) : StoreAt(k) /\ LSQAt(k).addr = LSQAt(d).addr
    BY <1>8 DEF Hidden
  <2>2. k \in 0..(Size["LSQ"] - 1) /\ d < k /\ k < p
    <3>1. d \in Int /\ p \in Int /\ Size["LSQ"] \in Int /\ d >= 0 /\ p < Size["LSQ"]
      BY <1>0, <1>1, <1>3, SizeType
    <3> QED BY <3>1
  <2> DEFINE t == (core.head["LSQ"] + k) % Size["LSQ"]
  <2>3. t \in Slot("LSQ") /\ Distance(core, "LSQ", t) = k
    BY <1>0, <2>2, SlotAt
  <2>4. LSQAt(k) = core.station["LSQ"][t]
    BY <2>3, LSQAtIs
  <2> HIDE DEF t
  <2> QED BY <1>2, <1>8, <2>1, <2>2, <2>3, <2>4 DEF StoreAt
<1> QED BY <1>2, <1>4, <1>5, <1>7, <1>8 DEF StdUnknown

\* Releasing it keeps every part.
LEMMA RefreshSound ==
  ASSUME NEW mode, NEW last, NEW list \in Seq(Links),
         Sound(core, mode, last, list, {}, {}, {}), NEW i \in Slot("LSQ"),
         Distance(core, "LSQ", i) \in ReadyLoads,
         NEW m2, m2 = readyq_enqueue(core, Ref("LSQ", i))
  PROVE  Sound(m2, mode, last, list, {}, {}, {}) /\ SameVectors(core, m2)
<1> DEFINE p == Distance(core, "LSQ", i)
           r == Ref("LSQ", i)
           a == core.station["LSQ"][i]
<1>0. "LSQ" \in Queues /\ CoreOK(core)
  BY DEF Queues, Sound
<1>1. /\ p \in 0..(core.num["LSQ"] - 1) /\ ReadyLoad(p) /\ p \in 0..(Size["LSQ"] - 1)
      /\ p < core.num["LSQ"]
  BY <1>0, Pointers DEF ReadyLoads
<1>2. i \in Slot("LSQ") /\ Distance(core, "LSQ", i) = p
  OBVIOUS
<1>3. m2 = readyq_enqueue(core, r)
  OBVIOUS
<1> HIDE DEF p
<1>4. r.q = "LSQ" /\ r.i = i
  BY DEF Ref
<1>5. LSQAt(p) = a
  BY <1>0, <1>2, LSQAtIs
<1>6. In(core, "LSQ", i)
  BY <1>1, <1>2 DEF In
<1>7. a.op = "load" /\ ~a.queued /\ ~a.issued /\ OPERANDS_READY(a)
  BY <1>1, <1>5 DEF ReadyLoad
<1> HIDE DEF r
<1>8. /\ CoreOK(m2) /\ SameRing(core, m2) /\ SameVectors(core, m2)
      /\ Put(core, m2, "LSQ", i, [a EXCEPT !.queued = TRUE])
  BY <1>0, <1>2, <1>3, <1>4, EnqueueIs
<1>9. a \in Station
  BY <1>0, <1>2, StationType
<1> DEFINE b == [a EXCEPT !.queued = TRUE]
<1>10. SameStatic(a, b) /\ b.idep_ready = a.idep_ready /\ b.issued = a.issued
  BY <1>9 DEF SameStatic, Station
<1> HIDE DEF b
<1>11. Same(core, m2)
  BY <1>0, <1>2, <1>8, <1>10, PutSame DEF b
<1>12. \A j \in Slot("LSQ") :
         /\ m2.station["LSQ"][j].op = core.station["LSQ"][j].op
         /\ m2.station["LSQ"][j].addr = core.station["LSQ"][j].addr
         /\ m2.station["LSQ"][j].idep_ready = core.station["LSQ"][j].idep_ready
         /\ m2.station["LSQ"][j].issued = core.station["LSQ"][j].issued
         /\ j # i => m2.station["LSQ"][j] = core.station["LSQ"][j]
  <2>1. \A j \in Slot("LSQ") : m2.station["LSQ"][j] = IF j = i THEN b ELSE core.station["LSQ"][j]
    BY <1>0, <1>8 DEF Put, b
  <2> QED BY <1>10, <2>1 DEF SameStatic
<1>13. \A q, j : Distance(m2, q, j) = Distance(core, q, j) /\ (In(m2, q, j) <=> In(core, q, j))
  BY <1>8, SameIn
<1>14. \A j \in Slot("LSQ") :
         /\ STORE_ADDR_READY(m2.station["LSQ"][j]) <=> STORE_ADDR_READY(core.station["LSQ"][j])
         /\ OPERANDS_READY(m2.station["LSQ"][j]) <=> OPERANDS_READY(core.station["LSQ"][j])
  BY <1>12 DEF STORE_ADDR_READY, OPERANDS_READY
<1>15. LoadsOK(m2)
  <2> SUFFICES ASSUME NEW s \in Slot("LSQ"), NEW l \in Slot("LSQ"),
                      In(core, "LSQ", s), In(core, "LSQ", l),
                      Distance(core, "LSQ", s) < Distance(core, "LSQ", l),
                      core.station["LSQ"][s].op = "store", core.station["LSQ"][l].op = "load",
                      m2.station["LSQ"][l].queued \/ m2.station["LSQ"][l].issued
               PROVE  /\ STORE_ADDR_READY(core.station["LSQ"][s])
                      /\ \/ core.station["LSQ"][s].addr # core.station["LSQ"][l].addr
                         \/ OPERANDS_READY(core.station["LSQ"][s])
                         \/ \E t \in Slot("LSQ") :
                              /\ Distance(core, "LSQ", s) < Distance(core, "LSQ", t)
                              /\ Distance(core, "LSQ", t) < Distance(core, "LSQ", l)
                              /\ core.station["LSQ"][t].op = "store"
                              /\ core.station["LSQ"][t].addr = core.station["LSQ"][l].addr
    <3> HIDE DEF a, r
    <3> QED BY <1>12, <1>13, <1>14 DEF LoadsOK
  <2>1. CASE l = i
    BY <1>0, <1>2, <2>1, LoadReleased DEF Sound
  <2>2. CASE l # i
    <3>1. core.station["LSQ"][l].queued \/ core.station["LSQ"][l].issued
      BY <1>12, <2>2
    <3> QED BY <3>1 DEF Sound, LoadsOK
  <2> QED BY <2>1, <2>2
<1>16. Sound(m2, mode, last, list, {} \ {<<r.q, r.i>>}, {}, {})
  <2>1. /\ r.q \in Queues /\ r.i \in Slot(r.q) /\ In(core, r.q, r.i)
        /\ OPERANDS_READY(core.station[r.q][r.i])
        /\ ~core.station[r.q][r.i].queued /\ ~core.station[r.q][r.i].issued
    BY <1>0, <1>2, <1>4, <1>6, <1>7
  <2> QED BY <1>3, <1>15, <2>1, EnqueueSound
<1>17. {} \ {<<r.q, r.i>>} = {}
  OBVIOUS
<1> QED BY <1>8, <1>16, <1>17

\* ruu_issue takes over the ready list.
LEMMA TakeOverSound ==
  ASSUME NEW mode, NEW last, Sound(core, mode, last, <<>>, {}, {}, {}),
         NEW m2, m2 = [core EXCEPT !.ready_queue = <<>>]
  PROVE  /\ Sound(m2, mode, last, core.ready_queue, {}, {}, {})
         /\ core.ready_queue \in Seq(Links) /\ m2.use_spec_cv = core.use_spec_cv
<1>1. CoreOK(core)
  BY DEF Sound
<1>2. /\ m2.station = core.station /\ SameRing(core, m2) /\ SameVectors(core, m2)
      /\ m2.event_queue = core.event_queue /\ m2.ready_queue = <<>>
  BY <1>1 DEF CoreOK, SameRing, SameVectors
<1>a. <<>> \in Seq(Links)
  OBVIOUS
<1>b. Record(m2)
  BY <1>1 DEF CoreOK, Record
<1>3. Record(m2) /\ <<>> \in Seq(Links)
  BY <1>a, <1>b
<1>4. CoreOK(m2)
  BY <1>1, <1>2, <1>3 DEF CoreOK, Record, SameRing, SameVectors
<1>5. Same(core, m2)
  BY <1>2 DEF Same, SameStatic
<1>6. Ring(m2) /\ Kinds(m2) /\ Ordered(m2, last) /\ Paired(m2)
  BY <1>1, <1>4, <1>5, SameShape DEF Sound
<1>7. Boundary(m2, mode)
  BY <1>1, <1>2, <1>4, <1>5, SameBoundary DEF Sound
<1>8. ChainsOK(m2, {}, {})
  BY <1>1, <1>2, <1>5, SameAlike, SameChains DEF Sound
<1>9. CreatorsOK(m2, {})
  BY <1>1, <1>2, <1>5, SameAlike, SameCreators DEF Sound
<1>10. FlagsOK(m2, {})
  BY <1>2, <1>5, SameAlike, SameFlags DEF Sound
<1>11. EventsOK(m2)
  BY <1>1, <1>2, <1>5, SameAlike, SameEvents DEF Sound
<1>12. LoadsOK(m2)
  BY <1>2, <1>5, SameAlike, SameLoads DEF Sound
<1>13. core.ready_queue \in Seq(Links)
  BY <1>1 DEF CoreOK
<1>14. ReadyOK(m2, core.ready_queue)
  <2>1. /\ ListOK(core, core.ready_queue) /\ ListOK(core, <<>>)
        /\ \A q \in Queues : \A i \in Slot(q) :
                In(core, q, i) /\ core.station[q][i].queued =>
                  Listed(core, core.ready_queue, q, i) \/ Listed(core, <<>>, q, i)
    BY ReadyParts DEF Sound
  <2>2. \A l \in Links : RS(m2, l).queued = RS(core, l).queued
    BY <1>2 DEF RS
  <2>3. \A s \in Seq(Links) : \A k \in 1..Len(s) : s[k] \in Links
    OBVIOUS
  <2>4. ListOK(m2, core.ready_queue) /\ ListOK(m2, <<>>)
    BY <1>3, <1>5, <1>13, <2>1, <2>2, <2>3, SameAlike, SameListOK
  <2>5. Apart(<<>>, core.ready_queue)
    BY DEF Apart
  <2>6. ASSUME NEW q \in Queues, NEW i \in Slot(q), In(m2, q, i), m2.station[q][i].queued
        PROVE  Listed(m2, core.ready_queue, q, i)
    <3>1. In(core, q, i) /\ core.station[q][i].queued
      BY <1>2, <2>6, SameIn
    <3>2. ~Listed(core, <<>>, q, i)
      BY DEF Listed
    <3>3. Listed(core, core.ready_queue, q, i)
      BY <2>1, <3>1, <3>2
    <3> QED BY <1>5, <1>13, <2>3, <3>3, SameAlike, SameLink DEF Listed
  <2> QED BY <1>2, <2>4, <2>5, <2>6, ReadyParts
<1> QED BY <1>2, <1>4, <1>6, <1>7, <1>8, <1>9, <1>10, <1>11, <1>12, <1>13, <1>14 DEF Sound, SameVectors

-----------------------------------------------------------------------------
(*****************************************************************************)
(* Events.                                                                   *)
(*****************************************************************************)
\* The first event is taken off; its operation, if it is there, completes.
LEMMA PopEvents ==
  ASSUME NEW m, CoreOK(m), NEW m2, Same(m, m2), m.event_queue # <<>>,
         m2.event_queue = Tail(m.event_queue), EventsOK(m),
         \A q \in Queues : \A i \in Slot(q) :
           /\ m2.station[q][i].issued = m.station[q][i].issued
           /\ m2.station[q][i].completed
                <=> (m.station[q][i].completed \/ Targets(m, Head(m.event_queue), q, i))
  PROVE  EventsOK(m2)
<1> DEFINE s == m.event_queue
<1>1. s \in Seq(Links)
  BY DEF CoreOK
<1> HIDE DEF s
<1>2. /\ Head(s) \in Links /\ Head(s) = s[1] /\ 1 \in 1..Len(s)
      /\ Tail(s) \in Seq(Links)
      /\ \A k \in 1..Len(Tail(s)) : Tail(s)[k] = s[k + 1] /\ k + 1 \in 1..Len(s)
      /\ \A k \in 1..Len(s) : k # 1 =>
           k - 1 \in 1..Len(Tail(s)) /\ s[k] = Tail(s)[k - 1]
  BY <1>1, TailElements DEF s
<1>3. \A k \in 1..Len(s) : s[k] \in Links
  BY <1>1
<1>4. NoTwoTargets(s) /\ m2.event_queue = Tail(s)
  BY DEF EventsOK, s
<1>5. \A k \in 1..Len(s) :
        /\ LinkOK(m, s[k])
        /\ RSLINK_VALID(m, s[k]) => RS(m, s[k]).issued /\ ~RS(m, s[k]).completed
  BY DEF EventsOK, s
<1>6. \A k \in 1..Len(Tail(s)) : ~SameTarget(Tail(s)[k], Head(s))
  <2>1. \A k \in 1..Len(Tail(s)) : k + 1 # 1
    OBVIOUS
  <2> QED BY <1>2, <1>4, <2>1 DEF NoTwoTargets
<1>7. \A l \in Links : RSLINK_VALID(m, l) /\ ~SameTarget(l, Head(s)) =>
        /\ RS(m2, l).issued = RS(m, l).issued
        /\ RS(m2, l).completed <=> RS(m, l).completed
  BY DEF Links, RS, RSLINK_VALID, SameTarget, Targets, s
<1>8. ASSUME NEW k \in 1..Len(Tail(s))
      PROVE  /\ LinkOK(m2, Tail(s)[k])
             /\ RSLINK_VALID(m2, Tail(s)[k]) =>
                  RS(m2, Tail(s)[k]).issued /\ ~RS(m2, Tail(s)[k]).completed
  <2>1. Tail(s)[k] \in Links /\ LinkOK(m, Tail(s)[k])
        /\ (RSLINK_VALID(m, Tail(s)[k]) => RS(m, Tail(s)[k]).issued /\ ~RS(m, Tail(s)[k]).completed)
    BY <1>2, <1>3, <1>5
  <2> QED BY <1>6, <1>7, <2>1, SameAlike, SameLink
<1>9. NoTwoTargets(Tail(s))
  BY <1>2, <1>4 DEF NoTwoTargets
<1>10. ASSUME NEW q \in Queues, NEW i \in Slot(q), In(m2, q, i), m2.station[q][i].issued,
              ~m2.station[q][i].completed
       PROVE  \E k \in 1..Len(Tail(s)) : Targets(m2, Tail(s)[k], q, i)
  <2>1. /\ In(m, q, i) /\ m.station[q][i].issued /\ ~m.station[q][i].completed
        /\ ~Targets(m, Head(s), q, i)
    BY <1>10, SameIn DEF Same, s
  <2>2. PICK k \in 1..Len(s) : Targets(m, s[k], q, i)
    BY <2>1 DEF EventsOK, s
  <2>3. k # 1
    BY <1>2, <2>1, <2>2
  <2>4. k - 1 \in 1..Len(Tail(s)) /\ Targets(m2, Tail(s)[k - 1], q, i)
    BY <1>2, <1>3, <2>2, <2>3, SameAlike, SameLink
  <2> QED BY <2>4
<1> QED BY <1>4, <1>8, <1>9, <1>10 DEF EventsOK

\* Sound without the boundary between the paths.
Work(m, last, list, N, X, U) ==
  /\ CoreOK(m) /\ Ring(m) /\ Kinds(m) /\ Ordered(m, last) /\ Paired(m)
  /\ FlagsOK(m, N) /\ ReadyOK(m, list) /\ EventsOK(m)
  /\ ChainsOK(m, X, U) /\ CreatorsOK(m, X) /\ LoadsOK(m)

\* The invariant without the boundary, while a recovery is under way.
LEMMA SoundWork ==
  ASSUME NEW m, NEW mode, NEW last, NEW list, NEW N, NEW X, NEW U
  PROVE  Sound(m, mode, last, list, N, X, U) <=>
           Work(m, last, list, N, X, U) /\ Boundary(m, mode)
BY DEF Sound, Work

\* The event of an operation that is gone.
LEMMA DropEventSound ==
  ASSUME NEW mode, NEW last, NEW list \in Seq(Links),
         Sound(core, mode, last, list, {}, {}, {}), core.event_queue # <<>>,
         ~RSLINK_VALID(core, Head(core.event_queue)),
         NEW m2, m2 = PopEvent
  PROVE  Sound(m2, mode, last, list, {}, {}, {}) /\ SameVectors(core, m2)
<1>1. CoreOK(core)
  BY DEF Sound
<1>2. /\ m2.station = core.station /\ SameRing(core, m2) /\ SameVectors(core, m2)
      /\ m2.event_queue = Tail(core.event_queue) /\ m2.ready_queue = core.ready_queue
  BY <1>1 DEF CoreOK, SameRing, SameVectors, PopEvent
<1>a. Record(m2)
  BY <1>1 DEF CoreOK, Record, PopEvent
<1>3. Tail(core.event_queue) \in Seq(Links) /\ Head(core.event_queue) \in Links
  BY <1>1, TailElements DEF CoreOK
<1>4. CoreOK(m2)
  BY <1>1, <1>2, <1>3, <1>a DEF CoreOK, Record, SameRing, SameVectors
<1>5. Same(core, m2)
  BY <1>2 DEF Same, SameStatic
<1>6. Ring(m2) /\ Kinds(m2) /\ Ordered(m2, last) /\ Paired(m2)
  BY <1>1, <1>4, <1>5, SameShape DEF Sound
<1>7. Boundary(m2, mode)
  BY <1>1, <1>2, <1>4, <1>5, SameBoundary DEF Sound
<1>8. ChainsOK(m2, {}, {})
  BY <1>1, <1>2, <1>5, SameAlike, SameChains DEF Sound
<1>9. CreatorsOK(m2, {})
  BY <1>1, <1>2, <1>5, SameAlike, SameCreators DEF Sound
<1>10. FlagsOK(m2, {})
  BY <1>2, <1>5, SameAlike, SameFlags DEF Sound
<1>11. EventsOK(m2)
  <2>1. \A q \in Queues : \A i \in Slot(q) : ~Targets(core, Head(core.event_queue), q, i)
    BY <1>3 DEF Targets, RSLINK_VALID, RS
  <2>2. \A q \in Queues : \A i \in Slot(q) : core.station[q][i].completed \in BOOLEAN
    BY <1>1, StationType, StationFields
  <2> QED BY <1>1, <1>2, <1>5, <2>1, <2>2, PopEvents DEF Sound
<1>12. LoadsOK(m2)
  BY <1>2, <1>5, SameAlike, SameLoads DEF Sound
<1>13. ReadyOK(m2, list)
  BY <1>1, <1>2, <1>5, SameAlike, SameReady DEF Sound
<1> QED BY <1>2, <1>4, <1>6, <1>7, <1>8, <1>9, <1>10, <1>11, <1>12, <1>13 DEF Sound

\* Time passes.

Later(m) == [m EXCEPT !.event_queue = Aged(@)]

\* One cycle later every event is nearer and nothing else has changed.
LEMMA LaterSound ==
  ASSUME NEW mode, NEW last, NEW list \in Seq(Links),
         Sound(core, mode, last, list, {}, {}, {}),
         NEW m2, m2 = Later(core)
  PROVE  Sound(m2, mode, last, list, {}, {}, {}) /\ SameVectors(core, m2)
<1> DEFINE s == core.event_queue
           t == Aged(s)
<1>1. CoreOK(core)
  BY DEF Sound
<1>2. /\ m2.station = core.station /\ SameRing(core, m2) /\ SameVectors(core, m2)
      /\ m2.event_queue = t /\ m2.ready_queue = core.ready_queue
  BY <1>1 DEF CoreOK, SameRing, SameVectors, Later
<1>a. Record(m2)
  BY <1>1 DEF CoreOK, Record, Later
<1>b. s \in Seq(Links)
  BY <1>1 DEF CoreOK
<1>c. ASSUME NEW l \in Links
      PROVE  LET l2 == [l EXCEPT !.x = @ - 1] IN
             l2 \in Links /\ l2.q = l.q /\ l2.i = l.i /\ l2.tag = l.tag
  <2>1. l \in [q : Queues, i : Nat, tag : Nat, x : Int] /\ l.i \in Slot(l.q)
    BY DEF Links
  <2>2. l.x - 1 \in Int
    BY <2>1
  <2>3. \A x \in Int : LET l2 == [l EXCEPT !.x = x] IN
          /\ l2 \in [q : Queues, i : Nat, tag : Nat, x : Int]
          /\ l2.q = l.q /\ l2.i = l.i /\ l2.tag = l.tag
    BY <2>1
  <2> QED BY <2>1, <2>2, <2>3 DEF Links
<1>d. DOMAIN s = 1..Len(s) /\ Len(s) \in Nat /\ \A k \in 1..Len(s) : s[k] \in Links
  BY <1>b
<1> HIDE DEF s
<1>e. \A k \in 1..Len(s) : t[k] = [s[k] EXCEPT !.x = @ - 1]
  BY <1>d DEF Aged
<1>f. \A k \in 1..Len(s) : t[k].q = s[k].q /\ t[k].i = s[k].i /\ t[k].tag = s[k].tag
                              /\ t[k] \in Links
  BY <1>c, <1>d, <1>e
<1>g. t = [k \in 1..Len(s) |-> t[k]]
  BY <1>d DEF Aged
<1>3. /\ t \in Seq(Links) /\ Len(t) = Len(s)
      /\ \A k \in 1..Len(s) : t[k].q = s[k].q /\ t[k].i = s[k].i /\ t[k].tag = s[k].tag
                              /\ t[k] \in Links
  <2> HIDE DEF t
  <2>1. t \in [1..Len(s) -> Links]
    BY <1>f, <1>g
  <2> QED BY <1>d, <1>f, <2>1
<1> HIDE DEF t
<1>4. CoreOK(m2)
  BY <1>1, <1>2, <1>3, <1>a DEF CoreOK, Record, SameRing, SameVectors
<1>5. Same(core, m2)
  BY <1>2 DEF Same, SameStatic
<1>6. Ring(m2) /\ Kinds(m2) /\ Ordered(m2, last) /\ Paired(m2)
  BY <1>1, <1>4, <1>5, SameShape DEF Sound
<1>7. Boundary(m2, mode)
  BY <1>1, <1>2, <1>4, <1>5, SameBoundary DEF Sound
<1>8. ChainsOK(m2, {}, {})
  BY <1>1, <1>2, <1>5, SameAlike, SameChains DEF Sound
<1>9. CreatorsOK(m2, {})
  BY <1>1, <1>2, <1>5, SameAlike, SameCreators DEF Sound
<1>10. FlagsOK(m2, {})
  BY <1>2, <1>5, SameAlike, SameFlags DEF Sound
<1>11. EventsOK(m2)
  <2>1. \A k \in 1..Len(s) :
          /\ LinkOK(core, s[k])
          /\ RSLINK_VALID(core, s[k]) => RS(core, s[k]).issued /\ ~RS(core, s[k]).completed
    BY DEF Sound, EventsOK, s
  <2>2. \A k \in 1..Len(s) :
          /\ LinkOK(m2, t[k])
          /\ RSLINK_VALID(m2, t[k]) => RS(m2, t[k]).issued /\ ~RS(m2, t[k]).completed
    <3>1. ASSUME NEW k \in 1..Len(s)
          PROVE  /\ LinkOK(core, t[k])
                 /\ RSLINK_VALID(core, t[k]) <=> RSLINK_VALID(core, s[k])
                 /\ RS(core, t[k]) = RS(core, s[k])
      BY <1>3, <2>1 DEF LinkOK, RSLINK_VALID, RS
    <3>2. \A l \in Links : RS(m2, l) = RS(core, l)
      BY <1>2 DEF RS
    <3> QED BY <1>3, <1>5, <2>1, <3>1, <3>2, SameAlike, SameLink
  <2>3. NoTwoTargets(t)
    BY <1>3 DEF Sound, EventsOK, NoTwoTargets, SameTarget, s
  <2>4. ASSUME NEW q \in Queues, NEW i \in Slot(q), In(m2, q, i), m2.station[q][i].issued,
               ~m2.station[q][i].completed
        PROVE  \E k \in 1..Len(t) : Targets(m2, t[k], q, i)
    <3>1. In(core, q, i) /\ core.station[q][i].issued /\ ~core.station[q][i].completed
      BY <1>2, <2>4, SameIn
    <3>2. PICK k \in 1..Len(s) : Targets(core, s[k], q, i)
      BY <3>1 DEF Sound, EventsOK, s
    <3>3. Targets(m2, t[k], q, i)
      BY <1>2, <1>3, <3>2 DEF Targets
    <3> QED BY <1>3, <3>3
  <2> QED BY <1>2, <1>3, <2>2, <2>3, <2>4 DEF EventsOK
<1>12. LoadsOK(m2)
  BY <1>2, <1>5, SameAlike, SameLoads DEF Sound
<1>13. ReadyOK(m2, list)
  BY <1>1, <1>2, <1>5, SameAlike, SameReady DEF Sound
<1> QED BY <1>2, <1>4, <1>6, <1>7, <1>8, <1>9, <1>10, <1>11, <1>12, <1>13 DEF Sound

\* The outputs of r, as they appear in X.
Outputs(r) == {<<r.q, r.i, 1>>, <<r.q, r.i, 2>>}

\* From m to m2, exactly r has completed.
Finishes(m, m2, r) ==
  \A q \in Queues : \A i \in Slot(q) :
    m2.station[q][i].completed <=> (m.station[q][i].completed \/ (q = r.q /\ i = r.i))

\* The operation whose event is due completes; its outputs are still to be
\* broadcast, and if it was mispredicted, recovery is still to come.
LEMMA CompleteWork ==
  ASSUME NEW mode, NEW last, NEW list \in Seq(Links),
         Sound(core, mode, last, list, {}, {}, {}), core.event_queue # <<>>,
         NEW r, r = Head(core.event_queue), RSLINK_VALID(core, r),
         NEW m2, m2 = Completed(r)
  PROVE  /\ r \in Links /\ r.q \in Queues /\ r.i \in Slot(r.q) /\ In(core, r.q, r.i)
         /\ OPERANDS_READY(core.station[r.q][r.i])
         /\ ~core.station[r.q][r.i].queued /\ core.station[r.q][r.i].issued
         /\ ~core.station[r.q][r.i].completed
         /\ Work(m2, last, list, {}, Outputs(r), {})
         /\ Same(core, m2) /\ SameVectors(core, m2) /\ Finishes(core, m2, r)
         /\ ~core.station[r.q][r.i].recover_inst => Boundary(m2, mode)
<1> DEFINE a == core.station[r.q][r.i]
           b == [a EXCEPT !.completed = TRUE]
           X == {<<r.q, r.i, 1>>, <<r.q, r.i, 2>>}
<1>1. CoreOK(core)
  BY DEF Sound
<1>2. r \in Links /\ r.q \in Queues /\ r.i \in Slot(r.q) /\ LinkOK(core, r)
      /\ RS(core, r).issued /\ ~RS(core, r).completed
  <2>1. r \in Links /\ r = core.event_queue[1] /\ 1 \in 1..Len(core.event_queue)
    BY <1>1, TailElements DEF CoreOK
  <2> QED BY <2>1 DEF Sound, EventsOK, Links
<1>3. In(core, r.q, r.i) /\ r.tag = a.tag /\ a.issued /\ ~a.completed /\ a \in Station
  BY <1>1, <1>2, StationType DEF LinkOK, RSLINK_VALID, RS
<1>4. OPERANDS_READY(a) /\ ~a.queued
  BY <1>2, <1>3 DEF Sound, FlagsOK
<1>5. /\ CoreOK(m2) /\ SameRing(core, m2) /\ SameVectors(core, m2)
      /\ m2.ready_queue = core.ready_queue /\ m2.event_queue = Tail(core.event_queue)
      /\ Put(core, m2, r.q, r.i, b)
  BY <1>1, <1>2, CompletedIs
<1>6. /\ SameStatic(a, b) /\ b.queued = a.queued /\ b.issued = a.issued
      /\ b.completed = TRUE /\ b.idep_ready = a.idep_ready
      /\ b.odep_list = a.odep_list
  BY <1>3 DEF SameStatic, Station
<1> HIDE DEF b
<1>7. Same(core, m2)
  BY <1>2, <1>5, <1>6, PutSame
<1>8. \A q \in Queues : \A i \in Slot(q) :
         /\ m2.station[q][i].idep_ready = core.station[q][i].idep_ready
         /\ m2.station[q][i].odep_list = core.station[q][i].odep_list
         /\ m2.station[q][i].queued = core.station[q][i].queued
         /\ m2.station[q][i].issued = core.station[q][i].issued
         /\ m2.station[q][i].completed <=> (core.station[q][i].completed \/ (q = r.q /\ i = r.i))
  BY ONLY <1>5, <1>6 DEF Put
<1>9. Ring(m2) /\ Kinds(m2) /\ Ordered(m2, last) /\ Paired(m2)
  BY <1>1, <1>5, <1>7, SameShape DEF Sound
<1>10. ReadyOK(m2, list)
  BY <1>1, <1>5, <1>7, <1>8, SameAlike, SameReady DEF Sound
<1>11. EventsOK(m2)
  <2>1. \A q \in Queues : \A i \in Slot(q) :
          Targets(core, Head(core.event_queue), q, i) <=> (q = r.q /\ i = r.i)
    BY <1>3 DEF Targets
  <2> QED BY <1>1, <1>5, <1>7, <1>8, <2>1, PopEvents DEF Sound
<1>12. LoadsOK(m2)
  <2>1. \A i \in Slot("LSQ") :
          /\ m2.station["LSQ"][i].idep_ready = core.station["LSQ"][i].idep_ready
          /\ m2.station["LSQ"][i].queued = core.station["LSQ"][i].queued
          /\ m2.station["LSQ"][i].issued = core.station["LSQ"][i].issued
    BY <1>8 DEF Queues
  <2> QED BY <1>7, <2>1, SameAlike, SameLoads DEF Sound
<1>13. ChainsOK(m2, X, {})
  <2>1. \A q \in Queues : \A i \in Slot(q) : \A d \in 1..2 :
          m2.station[q][i].completed => core.station[q][i].completed \/ <<q, i, d>> \in X
    BY <1>8
  <2> HIDE DEF X
  <2> QED BY <1>1, <1>7, <1>8, <2>1, SameAlike, CompleteChains DEF Sound
<1>14. CreatorsOK(m2, X)
  <2>1. \A q \in Queues : \A i \in Slot(q) : \A d \in 1..2 :
          m2.station[q][i].completed => core.station[q][i].completed \/ <<q, i, d>> \in X
    BY <1>8
  <2> HIDE DEF X
  <2> QED BY <1>1, <1>5, <1>7, <1>8, <2>1, SameAlike, CompleteCreators, ZenonT(40) DEF Sound
<1>15. FlagsOK(m2, {})
  <2>1. \A q, i : In(m2, q, i) <=> In(core, q, i)
    BY <1>5, SameIn
  <2>2. \A q \in Queues : \A i \in Slot(q) :
          /\ OPERANDS_READY(m2.station[q][i]) <=> OPERANDS_READY(core.station[q][i])
          /\ m2.station[q][i].op = core.station[q][i].op
    BY <1>7, <1>8 DEF OPERANDS_READY, Same, SameStatic
  <2>3. FlagsOK(core, {})
    BY DEF Sound
  <2>4. ASSUME NEW q \in Queues, NEW i \in Slot(q), In(m2, q, i)
        PROVE  LET rs == m2.station[q][i] IN
               /\ rs.queued => OPERANDS_READY(rs) /\ ~rs.issued
               /\ rs.issued => OPERANDS_READY(rs)
               /\ rs.completed => rs.issued
               /\ OPERANDS_READY(rs) /\ ~rs.queued /\ ~rs.issued => rs.op = "load"
    <3>1. LET rs == core.station[q][i] IN
          /\ rs.queued => OPERANDS_READY(rs) /\ ~rs.issued
          /\ rs.issued => OPERANDS_READY(rs)
          /\ rs.completed => rs.issued
          /\ OPERANDS_READY(rs) /\ ~rs.queued /\ ~rs.issued => rs.op = "load"
      BY <2>1, <2>3, <2>4 DEF FlagsOK
    <3>2. CASE q = r.q /\ i = r.i
      <4>1. m2.station[r.q][r.i].issued /\ ~m2.station[r.q][r.i].queued
        <5>1. m2.station[r.q][r.i].queued = a.queued /\ m2.station[r.q][r.i].issued = a.issued
          BY <1>2, <1>8, Zenon
        <5> HIDE DEF a
        <5> QED BY <1>3, <1>4, <5>1
      <4>2. OPERANDS_READY(m2.station[r.q][r.i])
        BY <1>2, <1>4, <2>2
      <4> HIDE DEF a
      <4> QED BY <3>2, <4>1, <4>2
    <3>3. CASE ~(q = r.q /\ i = r.i)
      <4>1. m2.station[q][i].completed <=> core.station[q][i].completed
        BY <1>8, <3>3
      <4> QED BY <1>8, <2>2, <3>1, <4>1
    <3> QED BY <3>2, <3>3
  <2> QED BY <2>4 DEF FlagsOK
<1>16. ASSUME ~a.recover_inst PROVE Boundary(m2, mode)
  <2>1. \A q \in Queues : \A i \in Slot(q) :
          core.station[q][i].completed \in BOOLEAN /\ m2.station[q][i].completed \in BOOLEAN
    BY <1>1, <1>5, StationType, StationFields
  <2>2. \A q \in Queues : \A i \in Slot(q) :
           /\ core.station[q][i].completed => m2.station[q][i].completed
           /\ core.station[q][i].recover_inst =>
                m2.station[q][i].completed = core.station[q][i].completed
    BY <1>8, <1>16, <2>1
  <2> QED BY <1>1, <1>5, <1>7, <2>2, SameBoundary DEF Sound
<1>17. Work(m2, last, list, {}, X, {})
  BY <1>5, <1>9, <1>10, <1>11, <1>12, <1>13, <1>14, <1>15 DEF Work
<1>18. Finishes(core, m2, r)
  BY <1>8 DEF Finishes
<1>19. X = Outputs(r)
  BY DEF Outputs
<1> HIDE DEF X
<1> QED BY <1>2, <1>3, <1>4, <1>5, <1>7, <1>16, <1>17, <1>18, <1>19

-----------------------------------------------------------------------------
(*****************************************************************************)
(* Sequence numbers and creators.                                            *)
(*****************************************************************************)
\* The later of two operations of a queue has the larger sequence number.
LEMMA SeqOrder ==
  ASSUME NEW m, CoreOK(m), NEW last, Ordered(m, last), NEW q \in Queues,
         NEW i \in Slot(q), NEW j \in Slot(q), In(m, q, i), In(m, q, j)
  PROVE  /\ Distance(m, q, i) < Distance(m, q, j)
              <=> m.station[q][i].seq < m.station[q][j].seq
         /\ Distance(m, q, i) < Distance(m, q, j) =>
              LastSeq(m.station[q][i]) < m.station[q][j].seq
         /\ m.station[q][i].seq = m.station[q][j].seq => i = j
         /\ m.station[q][i].seq <= LastSeq(m.station[q][i])
         /\ LastSeq(m.station[q][i]) \in Nat
<1>1. \A k \in Slot(q) : m.station[q][k].seq \in Nat
  BY StationType, StationFields
<1>2. \A k \in Slot(q) : /\ LastSeq(m.station[q][k]) \in Nat
                         /\ m.station[q][k].seq <= LastSeq(m.station[q][k])
  BY <1>1 DEF LastSeq
<1>3. \A k, h \in Slot(q) :
        In(m, q, k) /\ In(m, q, h) /\ Distance(m, q, k) < Distance(m, q, h) =>
          LastSeq(m.station[q][k]) < m.station[q][h].seq
  BY DEF Ordered
<1>4. \A k \in Slot(q) : Distance(m, q, k) \in Int
  BY DistanceIs, SizeType
<1>5. \/ Distance(m, q, i) < Distance(m, q, j)
      \/ Distance(m, q, j) < Distance(m, q, i)
      \/ i = j
  BY <1>4, DistanceInjective
<1>6. Distance(m, q, i) < Distance(m, q, j) => m.station[q][i].seq < m.station[q][j].seq
  BY <1>1, <1>2, <1>3
<1>7. Distance(m, q, j) < Distance(m, q, i) => m.station[q][j].seq < m.station[q][i].seq
  BY <1>1, <1>2, <1>3
<1> QED BY <1>1, <1>2, <1>3, <1>4, <1>5, <1>6, <1>7

\* No two operations in flight have the same sequence number.
LEMMA SeqUnique ==
  ASSUME NEW m, CoreOK(m), NEW last, Ordered(m, last), Paired(m),
         NEW q \in Queues, NEW i \in Slot(q), In(m, q, i),
         NEW p \in Queues, NEW j \in Slot(p), In(m, p, j),
         m.station[q][i].seq = m.station[p][j].seq
  PROVE  q = p /\ i = j
<1>0. "RUU" \in Queues /\ "LSQ" \in Queues /\ \A x \in Queues : x = "RUU" \/ x = "LSQ"
  BY DEF Queues
<1>1. ASSUME NEW a \in Slot("RUU"), In(m, "RUU", a), NEW b \in Slot("LSQ"), In(m, "LSQ", b)
      PROVE  m.station["RUU"][a].seq # m.station["LSQ"][b].seq
  <2>1. PICK c \in Slot("RUU") : In(m, "RUU", c) /\ Pair(m, c, b)
    BY <1>1 DEF Paired
  <2>2. /\ m.station["RUU"][c].ea_comp
        /\ m.station["LSQ"][b].seq = m.station["RUU"][c].seq + 1
    BY <2>1 DEF Pair
  <2>3. LastSeq(m.station["RUU"][c]) = m.station["RUU"][c].seq + 1
    BY <2>2 DEF LastSeq
  <2>4. m.station["RUU"][a].seq \in Nat /\ m.station["RUU"][c].seq \in Nat
    BY <1>0, StationType, StationFields
  <2>5. CASE Distance(m, "RUU", c) < Distance(m, "RUU", a)
    <3>1. LastSeq(m.station["RUU"][c]) < m.station["RUU"][a].seq
      BY <1>0, <1>1, <2>1, <2>5, SeqOrder
    <3> QED BY <2>2, <2>3, <2>4, <3>1
  <2>6. CASE ~(Distance(m, "RUU", c) < Distance(m, "RUU", a))
    <3>1. ~(m.station["RUU"][c].seq < m.station["RUU"][a].seq)
      BY <1>0, <1>1, <2>1, <2>6, SeqOrder
    <3> QED BY <2>2, <2>4, <3>1
  <2> QED BY <2>5, <2>6
<1>2. CASE q = p
  BY <1>2, SeqOrder
<1>3. CASE q # p
  BY <1>0, <1>1, <1>3
<1> QED BY <1>2, <1>3

(***************************************************************************)
(* Broadcast.                                                              *)
(***************************************************************************)
\* r is no longer the creator of its output k.
Done(m, r, k) ==
  LET rs == RS(m, r)
      name == rs.onames[k]
      cv == [q |-> r.q, i |-> r.i, odep |-> k]
  IN  IF rs.spec_mode
      THEN [m EXCEPT !.spec_create_vector[name] = IF @ = cv THEN NONE ELSE @]
      ELSE [m EXCEPT !.create_vector[name] = IF @ = cv THEN NONE ELSE @]

\* What m2 has in common with m when only the create vectors change.
SameBut(m, m2) ==
  /\ m2.station = m.station /\ SameRing(m, m2) /\ SameLists(m, m2)
  /\ m2.use_spec_cv = m.use_spec_cv

\* The vector of its path forgets r.
DoneEffect(m, m2, r, k) ==
  LET rs == m.station[r.q][r.i]
      cv == [q |-> r.q, i |-> r.i, odep |-> k]
  IN  /\ CoreOK(m2) /\ SameBut(m, m2)
      /\ \A name \in Names :
           /\ m2.create_vector[name] =
                IF ~rs.spec_mode /\ name = rs.onames[k] /\ m.create_vector[name] = cv
                THEN NONE ELSE m.create_vector[name]
           /\ m2.spec_create_vector[name] =
                IF rs.spec_mode /\ name = rs.onames[k] /\ m.spec_create_vector[name] = cv
                THEN NONE ELSE m.spec_create_vector[name]

\* What the completion of an output does to the create vectors.
LEMMA DoneIs ==
  ASSUME NEW m, CoreOK(m), NEW r, r.q \in Queues, r.i \in Slot(r.q), NEW k \in 1..2,
         m.station[r.q][r.i].onames[k] \in Names,
         NEW m2, m2 = Done(m, r, k)
  PROVE  DoneEffect(m, m2, r, k)
<1> DEFINE rs == m.station[r.q][r.i]
           name == rs.onames[k]
           cv == [q |-> r.q, i |-> r.i, odep |-> k]
           c1 == [m.create_vector EXCEPT ![name] = IF @ = cv THEN NONE ELSE @]
           c2 == [m.spec_create_vector EXCEPT ![name] = IF @ = cv THEN NONE ELSE @]
<1>0. name \in Names
  OBVIOUS
<1>1. m2 = IF rs.spec_mode THEN [m EXCEPT !.spec_create_vector = c2]
                           ELSE [m EXCEPT !.create_vector = c1]
  BY DEF Done, RS, CoreOK
<1> HIDE DEF name, rs, cv
<1>2. c1 \in [Names -> Creators \cup {NONE}] /\ c2 \in [Names -> Creators \cup {NONE}]
  BY <1>0 DEF CoreOK
<1>3. \A x \in Names :
        /\ c1[x] = IF x = name /\ m.create_vector[x] = cv THEN NONE ELSE m.create_vector[x]
        /\ c2[x] = IF x = name /\ m.spec_create_vector[x] = cv THEN NONE
                                                               ELSE m.spec_create_vector[x]
  BY <1>0 DEF CoreOK
<1> HIDE DEF c1, c2
<1>4. SameBut(m, m2)
  BY <1>1 DEF CoreOK, SameBut, SameRing, SameLists
<1>5. /\ m2.create_vector = IF rs.spec_mode THEN m.create_vector ELSE c1
      /\ m2.spec_create_vector = IF rs.spec_mode THEN c2 ELSE m.spec_create_vector
  BY <1>1 DEF CoreOK
<1>6. Record(m2)
  BY <1>1 DEF CoreOK, Record
<1>7. /\ m2.create_vector \in [Names -> Creators \cup {NONE}]
      /\ m2.spec_create_vector \in [Names -> Creators \cup {NONE}]
  BY <1>2, <1>5 DEF CoreOK
<1>8. CoreOK(m2)
  BY <1>4, <1>6, <1>7 DEF CoreOK, Record, SameBut, SameRing, SameLists
<1>9. ASSUME NEW x \in Names
      PROVE  /\ m2.create_vector[x] =
                  IF ~rs.spec_mode /\ x = name /\ m.create_vector[x] = cv
                  THEN NONE ELSE m.create_vector[x]
             /\ m2.spec_create_vector[x] =
                  IF rs.spec_mode /\ x = name /\ m.spec_create_vector[x] = cv
                  THEN NONE ELSE m.spec_create_vector[x]
  BY <1>3, <1>5
<1> QED BY <1>4, <1>8, <1>9 DEF rs, name, cv, DoneEffect

\* An operation that completed and is no creator is in X for nothing.
LEMMA PreciseLess ==
  ASSUME NEW m, NEW v, NEW name, NEW all, NEW X, Precise(m, v, name, all, X),
         NEW q, NEW i, NEW d, v # NONE => ~(v.q = q /\ v.i = i /\ v.odep = d)
  PROVE  Precise(m, v, name, all, X \ {<<q, i, d>>})
BY DEF Precise

\* The youngest writer has completed: there is no creator.
LEMMA PreciseNone ==
  ASSUME NEW m, CoreOK(m), NEW last, Ordered(m, last), Paired(m),
         NEW v \in Creators, NEW name, NEW all, NEW X, NEW Y,
         Precise(m, v, name, all, X), m.station[v.q][v.i].completed
  PROVE  Precise(m, NONE, name, all, Y)
<1>1. v.q \in Queues /\ v.i \in Slot(v.q) /\ v.odep \in 1..2 /\ v # NONE
  BY CreatorType
<1> DEFINE W(q, i, d) == Writes(m, q, i, d, name) /\ (all \/ ~m.station[q][i].spec_mode)
<1>2. /\ W(v.q, v.i, v.odep)
      /\ \A q \in Queues : \A i \in Slot(q) : \A d \in 1..2 :
           W(q, i, d) => m.station[q][i].seq <= m.station[v.q][v.i].seq
  BY <1>1 DEF Precise
<1>3. ASSUME NEW q \in Queues, NEW i \in Slot(q), NEW d \in 1..2, W(q, i, d)
      PROVE  \/ m.station[q][i].completed
             \/ \E p \in Queues : \E j \in Slot(p) : \E e \in 1..2 :
                  W(p, j, e) /\ m.station[q][i].seq < m.station[p][j].seq
  <2>1. m.station[q][i].seq \in Nat /\ m.station[v.q][v.i].seq \in Nat
    BY <1>1, StationType, StationFields
  <2>2. CASE m.station[q][i].seq < m.station[v.q][v.i].seq
    BY <1>1, <1>2, <2>2
  <2>3. CASE m.station[q][i].seq = m.station[v.q][v.i].seq
    <3>1. In(m, q, i) /\ In(m, v.q, v.i)
      BY <1>2, <1>3 DEF Writes
    <3>2. q = v.q /\ i = v.i
      BY <1>1, <2>3, <3>1, SeqUnique
    <3> QED BY <3>2
  <2>4. m.station[q][i].seq <= m.station[v.q][v.i].seq
    BY <1>2, <1>3
  <2> QED BY <2>1, <2>2, <2>3, <2>4
<1> QED BY <1>3 DEF Precise

\* The create vectors do not matter to the other operations.
LEMMA PreciseSame ==
  ASSUME NEW m, NEW m2, SameBut(m, m2), NEW v, NEW name, NEW all, NEW X
  PROVE  Precise(m2, v, name, all, X) <=> Precise(m, v, name, all, X)
<1>1. m2.station = m.station /\ \A q, i : In(m2, q, i) <=> In(m, q, i)
  BY SameIn DEF SameBut
<1>2. \A q, i, d : Writes(m2, q, i, d, name) <=> Writes(m, q, i, d, name)
  BY ONLY <1>1 DEF Writes
<1> QED BY ONLY <1>1, <1>2 DEF Precise

\* After it, the completed output need not be excused any more.
LEMMA DoneCreators ==
  ASSUME NEW m, CoreOK(m), NEW last, Ordered(m, last), Paired(m), NEW X, CreatorsOK(m, X),
         NEW r, r.q \in Queues, r.i \in Slot(r.q), NEW k \in 1..2,
         m.station[r.q][r.i].onames[k] \in Names, m.station[r.q][r.i].completed,
         NEW m2, m2 = Done(m, r, k)
  PROVE  CreatorsOK(m2, X \ {<<r.q, r.i, k>>})
<1> DEFINE rs == m.station[r.q][r.i]
           cv == [q |-> r.q, i |-> r.i, odep |-> k]
           Y == X \ {<<r.q, r.i, k>>}
<1>0. DoneEffect(m, m2, r, k)
  BY DoneIs
<1>1. /\ CoreOK(m2) /\ SameBut(m, m2)
      /\ \A name \in Names :
           /\ m2.create_vector[name] =
                IF ~rs.spec_mode /\ name = rs.onames[k] /\ m.create_vector[name] = cv
                THEN NONE ELSE m.create_vector[name]
           /\ m2.spec_create_vector[name] =
                IF rs.spec_mode /\ name = rs.onames[k] /\ m.spec_create_vector[name] = cv
                THEN NONE ELSE m.spec_create_vector[name]
  BY <1>0 DEF DoneEffect
<1>2. rs \in Station /\ rs.spec_mode \in BOOLEAN
  BY StationType, StationFields
<1>3. cv \in Creators /\ cv.q = r.q /\ cv.i = r.i /\ cv.odep = k
  <2>1. r.i \in Nat
    BY SizeType DEF Slot
  <2> QED BY <2>1 DEF Creators
<1>4. \A v \in Creators : v # cv => ~(v.q = r.q /\ v.i = r.i /\ v.odep = k)
  BY DEF Creators
<1>c. rs.completed
  OBVIOUS
<1>s. rs = m.station[cv.q][cv.i]
  BY <1>3
<1> HIDE DEF cv, rs
<1>5. ASSUME NEW v \in Creators \cup {NONE}, NEW name \in Names, NEW all,
             Precise(m, v, name, all, X), v # cv
      PROVE  Precise(m, v, name, all, Y)
  <2>1. v # NONE => ~(v.q = r.q /\ v.i = r.i /\ v.odep = k)
    BY <1>4, <1>5
  <2> QED BY <1>5, <2>1, PreciseLess
<1>6. ASSUME NEW name \in Names, NEW all, Precise(m, cv, name, all, X)
      PROVE  /\ Precise(m, NONE, name, all, Y) /\ name = rs.onames[k]
             /\ all \/ ~rs.spec_mode
  <2>1. Precise(m, NONE, name, all, Y)
    BY <1>3, <1>6, <1>c, <1>s, PreciseNone
  <2>2. cv # NONE
    BY <1>3, CreatorType
  <2> QED BY <1>3, <1>6, <1>s, <2>1, <2>2 DEF Precise, Writes
<1> SUFFICES ASSUME NEW name \in Names
             PROVE  /\ Precise(m2, m2.create_vector[name], name, FALSE, Y)
                    /\ Precise(m2, CREATE_VECTOR(m2, name), name, TRUE, Y)
                    /\ name \in m2.use_spec_cv /\ m2.spec_create_vector[name] # NONE =>
                         RS(m2, m2.spec_create_vector[name]).spec_mode
  BY DEF CreatorsOK
<1>7. /\ Precise(m, m.create_vector[name], name, FALSE, X)
      /\ Precise(m, CREATE_VECTOR(m, name), name, TRUE, X)
      /\ name \in m.use_spec_cv /\ m.spec_create_vector[name] # NONE =>
           RS(m, m.spec_create_vector[name]).spec_mode
  BY DEF CreatorsOK
<1>8. /\ m.create_vector[name] \in Creators \cup {NONE}
      /\ m.spec_create_vector[name] \in Creators \cup {NONE}
      /\ CREATE_VECTOR(m, name) \in Creators \cup {NONE}
  BY VectorType
<1>9. Precise(m, m2.create_vector[name], name, FALSE, Y)
  <2>1. CASE m.create_vector[name] = cv
    <3>1. Precise(m, NONE, name, FALSE, Y) /\ name = rs.onames[k] /\ ~rs.spec_mode
      BY <1>6, <1>7, <2>1
    <3>2. m2.create_vector[name] = NONE
      BY <1>1, <2>1, <3>1
    <3> QED BY <3>1, <3>2
  <2>2. CASE m.create_vector[name] # cv
    <3>1. m2.create_vector[name] = m.create_vector[name]
      BY <1>1, <2>2
    <3> QED BY <1>5, <1>7, <1>8, <2>2, <3>1
  <2> QED BY <2>1, <2>2
<1>10. m2.use_spec_cv = m.use_spec_cv /\ m2.station = m.station
  BY <1>1 DEF SameBut
<1>11. name \in m2.use_spec_cv /\ m2.spec_create_vector[name] # NONE =>
         RS(m2, m2.spec_create_vector[name]).spec_mode
  BY <1>1, <1>7, <1>10 DEF RS
<1>12. Precise(m, CREATE_VECTOR(m2, name), name, TRUE, Y)
  <2>1. CASE name \in m.use_spec_cv
    <3>1. /\ CREATE_VECTOR(m2, name) = m2.spec_create_vector[name]
          /\ CREATE_VECTOR(m, name) = m.spec_create_vector[name]
      BY <1>10, <2>1 DEF CREATE_VECTOR
    <3>2. CASE m.spec_create_vector[name] = cv
      <4>1. Precise(m, NONE, name, TRUE, Y) /\ name = rs.onames[k]
        BY <1>6, <1>7, <3>1, <3>2
      <4>2. rs.spec_mode
        BY <1>3, <1>7, <1>s, <2>1, <3>2, CreatorType DEF RS
      <4>3. m2.spec_create_vector[name] = NONE
        BY <1>1, <3>2, <4>1, <4>2
      <4> QED BY <3>1, <4>1, <4>3
    <3>3. CASE m.spec_create_vector[name] # cv
      <4>1. m2.spec_create_vector[name] = m.spec_create_vector[name]
        BY <1>1, <3>3
      <4> QED BY <1>5, <1>7, <1>8, <3>1, <3>3, <4>1
    <3> QED BY <3>2, <3>3
  <2>2. CASE name \notin m.use_spec_cv
    <3>1. /\ CREATE_VECTOR(m2, name) = m2.create_vector[name]
          /\ CREATE_VECTOR(m, name) = m.create_vector[name]
      BY <1>10, <2>2 DEF CREATE_VECTOR
    <3>2. CASE m.create_vector[name] = cv
      <4>1. Precise(m, NONE, name, TRUE, Y) /\ name = rs.onames[k]
        BY <1>6, <1>7, <3>1, <3>2
      <4>2. ~rs.spec_mode
        BY <1>6, <1>7, <3>2
      <4>3. m2.create_vector[name] = NONE
        BY <1>1, <3>2, <4>1, <4>2
      <4> QED BY <3>1, <4>1, <4>3
    <3>3. CASE m.create_vector[name] # cv
      <4>1. m2.create_vector[name] = m.create_vector[name]
        BY <1>1, <3>3
      <4> QED BY <1>5, <1>7, <1>8, <3>1, <3>3, <4>1
    <3> QED BY <3>2, <3>3
  <2> QED BY <2>1, <2>2
<1> QED BY <1>1, <1>9, <1>11, <1>12, PreciseSame, ZenonT(40)

-----------------------------------------------------------------------------
(*****************************************************************************)
(* Wakeup.                                                                   *)
(*****************************************************************************)
\* What LinkedOnce says of two places.
LEMMA OnceElim ==
  ASSUME NEW m, LinkedOnce(m), NEW q \in Queues, NEW p \in Queues,
         NEW i \in Slot(q), NEW j \in Slot(p), NEW d \in 1..2, NEW e \in 1..2,
         NEW g \in 1..Len(Chain(m, q, i, d)), NEW h \in 1..Len(Chain(m, p, j, e)),
         SameTarget(Chain(m, q, i, d)[g], Chain(m, p, j, e)[h]),
         Chain(m, q, i, d)[g].x = Chain(m, p, j, e)[h].x
  PROVE  q = p /\ i = j /\ d = e /\ g = h
BY SMTT(30) DEF LinkedOnce

\* The first link of a chain is taken off.
LEMMA TakeChains ==
  ASSUME NEW m, CoreOK(m), NEW m2, CoreOK(m2), Same(m, m2), NEW X, ChainsOK(m, X, {}),
         NEW r, r.q \in Queues, r.i \in Slot(r.q), NEW k \in 1..2,
         Chain(m, r.q, r.i, k) # <<>>,
         \A q \in Queues : \A i \in Slot(q) :
           /\ m2.station[q][i].completed = m.station[q][i].completed
           /\ m2.station[q][i].idep_ready = m.station[q][i].idep_ready,
         \A q \in Queues : \A i \in Slot(q) : \A d \in 1..2 :
           Chain(m2, q, i, d) = IF q = r.q /\ i = r.i /\ d = k THEN Tail(Chain(m, q, i, d))
                                                               ELSE Chain(m, q, i, d),
         NEW l, l = Head(Chain(m, r.q, r.i, k)), NEW U,
         RSLINK_VALID(m, l) => U = {<<l.q, l.i, l.x>>},
         ~RSLINK_VALID(m, l) => U = {}
  PROVE  ChainsOK(m2, X, U)
<1> DEFINE pos(q, i, d, h) == IF q = r.q /\ i = r.i /\ d = k THEN h + 1 ELSE h
<1>1. ChainsInFlight(m, X) /\ ChainLinks(m, {}) /\ LinkedOnce(m) /\ AllLinked(m, {})
  BY ChainsParts
<1>2. \A q, i : In(m2, q, i) <=> In(m, q, i)
  BY SameIn DEF Same
<1>3. \A q \in Queues : \A i \in Slot(q) :
        /\ m2.station[q][i].seq = m.station[q][i].seq
        /\ m2.station[q][i].tag = m.station[q][i].tag
        /\ m2.station[q][i].onames = m.station[q][i].onames
  BY DEF Same, SameStatic
<1> DEFINE s == Chain(m, r.q, r.i, k)
<1>4. s \in Seq(Links)
  BY ChainType
<1>a. s # <<>> /\ l = Head(s)
  OBVIOUS
<1> HIDE DEF s
<1>5. /\ Head(s) \in Links /\ Head(s) = s[1] /\ 1 \in 1..Len(s)
      /\ Tail(s) \in Seq(Links)
      /\ \A h \in 1..Len(Tail(s)) : Tail(s)[h] = s[h + 1] /\ h + 1 \in 1..Len(s)
      /\ \A h \in 1..Len(s) : h # 1 =>
           h - 1 \in 1..Len(Tail(s)) /\ s[h] = Tail(s)[h - 1]
  BY <1>4, <1>a, TailElements
<1>6. ASSUME NEW q \in Queues, NEW i \in Slot(q), NEW d \in 1..2,
             NEW h \in 1..Len(Chain(m2, q, i, d))
      PROVE  /\ pos(q, i, d, h) \in 1..Len(Chain(m, q, i, d))
             /\ Chain(m2, q, i, d)[h] = Chain(m, q, i, d)[pos(q, i, d, h)]
             /\ h \in Nat /\ h >= 1
  <2>1. CASE q = r.q /\ i = r.i /\ d = k
    <3>1. Chain(m, q, i, d) = s /\ Chain(m2, q, i, d) = Tail(s)
      BY <2>1 DEF s
    <3> QED BY <1>5, <2>1, <3>1
  <2>2. CASE ~(q = r.q /\ i = r.i /\ d = k)
    BY <2>2
  <2> QED BY <2>1, <2>2
<1>7. ASSUME NEW q \in Queues, NEW i \in Slot(q), NEW d \in 1..2,
             NEW h \in 1..Len(Chain(m, q, i, d)), ~(q = r.q /\ i = r.i /\ d = k /\ h = 1)
      PROVE  \E g \in 1..Len(Chain(m2, q, i, d)) : Chain(m2, q, i, d)[g] = Chain(m, q, i, d)[h]
  <2>1. CASE q = r.q /\ i = r.i /\ d = k
    <3>1. Chain(m, q, i, d) = s /\ Chain(m2, q, i, d) = Tail(s)
      BY <2>1 DEF s
    <3>2. h \in 1..Len(s) /\ h # 1
      BY <1>7, <2>1, <3>1
    <3>3. h - 1 \in 1..Len(Tail(s)) /\ s[h] = Tail(s)[h - 1]
      BY <1>5, <3>2
    <3> QED BY <3>1, <3>3
  <2>2. CASE ~(q = r.q /\ i = r.i /\ d = k)
    BY <2>2
  <2> QED BY <2>1, <2>2
<1>8. \A q \in Queues : \A i \in Slot(q) : \A d \in 1..2 :
        Chain(m2, q, i, d) # <<>> => Chain(m, q, i, d) # <<>>
  BY <1>a DEF s
<1>9. ChainsInFlight(m2, X)
  <2> SUFFICES ASSUME NEW q \in Queues, NEW i \in Slot(q), NEW d \in 1..2,
                      Chain(m2, q, i, d) # <<>>
               PROVE  /\ In(m2, q, i) /\ m2.station[q][i].onames[d] # NA
                      /\ m2.station[q][i].completed => <<q, i, d>> \in X
    BY DEF ChainsInFlight
  <2>1. Chain(m, q, i, d) # <<>>
    BY <1>8
  <2>2. /\ In(m, q, i) /\ m.station[q][i].onames[d] # NA
        /\ m.station[q][i].completed => <<q, i, d>> \in X
    BY <1>1, <2>1 DEF ChainsInFlight
  <2> QED BY <1>2, <1>3, <2>2
<1>10. \A n1 \in Links : RSLINK_VALID(m2, n1) <=> RSLINK_VALID(m, n1)
  BY SameAlike, SameLink
<1>11. \A n1 \in Links : RS(m2, n1).idep_ready = RS(m, n1).idep_ready /\ RS(m2, n1).seq = RS(m, n1).seq
  BY <1>3 DEF RS, Links
<1>12. ASSUME NEW q \in Queues, NEW i \in Slot(q), NEW d \in 1..2,
              NEW h \in 1..Len(Chain(m2, q, i, d))
       PROVE  LET e == Chain(m2, q, i, d)[h] IN
              /\ LinkOK(m2, e) /\ e.x \in 1..3
              /\ RSLINK_VALID(m2, e) =>
                   /\ ~RS(m2, e).idep_ready[e.x] /\ <<e.q, e.i, e.x>> \notin U
                   /\ m2.station[q][i].seq < RS(m2, e).seq
  <2> DEFINE e == Chain(m2, q, i, d)[h]
             g == pos(q, i, d, h)
  <2>1. g \in 1..Len(Chain(m, q, i, d)) /\ e = Chain(m, q, i, d)[g] /\ h \in Nat /\ h >= 1
    BY <1>6
  <2>2. e \in Links
    BY <2>1, ChainType
  <2>3. /\ LinkOK(m, e) /\ e.x \in 1..3
        /\ RSLINK_VALID(m, e) =>
             ~RS(m, e).idep_ready[e.x] /\ m.station[q][i].seq < RS(m, e).seq
    BY <1>1, <2>1 DEF ChainLinks
  <2>4. ASSUME RSLINK_VALID(m, e), <<e.q, e.i, e.x>> \in U
        PROVE  FALSE
    <3>1. RSLINK_VALID(m, l) /\ e.q = l.q /\ e.i = l.i /\ e.x = l.x
      BY <2>4
    <3>2. SameTarget(e, l)
      BY <2>4, <3>1 DEF SameTarget, RSLINK_VALID, RS
    <3>3. 1 \in 1..Len(Chain(m, r.q, r.i, k)) /\ l = Chain(m, r.q, r.i, k)[1]
      BY <1>5, <1>a DEF s
    <3>4. q = r.q /\ i = r.i /\ d = k /\ g = 1
      <4> HIDE DEF e, g
      <4> QED BY <1>1, <2>1, <3>1, <3>2, <3>3, SMTT(30) DEF LinkedOnce
    <3> QED BY <2>1, <3>4
  <2>5. LinkOK(m2, e)
    BY <2>2, <2>3, SameAlike, SameLink
  <2> HIDE DEF e, g
  <2>6. /\ LinkOK(m2, e) /\ e.x \in 1..3
        /\ RSLINK_VALID(m2, e) =>
             /\ ~RS(m2, e).idep_ready[e.x] /\ <<e.q, e.i, e.x>> \notin U
             /\ m2.station[q][i].seq < RS(m2, e).seq
    BY <1>3, <1>10, <1>11, <2>2, <2>3, <2>4, <2>5
  <2> QED BY <2>6 DEF e
<1>13. ChainLinks(m2, U)
  BY <1>12 DEF ChainLinks
<1>14. LinkedOnce(m2)
  <2>0. ASSUME NEW q \in Queues, NEW p \in Queues, NEW i \in Slot(q), NEW j \in Slot(p),
               NEW d \in 1..2, NEW e \in 1..2,
               NEW g \in 1..Len(Chain(m2, q, i, d)), NEW h \in 1..Len(Chain(m2, p, j, e)),
               SameTarget(Chain(m2, q, i, d)[g], Chain(m2, p, j, e)[h]),
               Chain(m2, q, i, d)[g].x = Chain(m2, p, j, e)[h].x
        PROVE  q = p /\ i = j /\ d = e /\ g = h
    <3>1. /\ pos(q, i, d, g) \in 1..Len(Chain(m, q, i, d))
          /\ Chain(m2, q, i, d)[g] = Chain(m, q, i, d)[pos(q, i, d, g)] /\ g \in Nat
      BY <1>6
    <3>2. /\ pos(p, j, e, h) \in 1..Len(Chain(m, p, j, e))
          /\ Chain(m2, p, j, e)[h] = Chain(m, p, j, e)[pos(p, j, e, h)] /\ h \in Nat
      BY <1>6
    <3> HIDE DEF pos
    <3>3. q = p /\ i = j /\ d = e /\ pos(q, i, d, g) = pos(p, j, e, h)
      <4>1. PICK g2 \in 1..Len(Chain(m, q, i, d)) : g2 = pos(q, i, d, g)
        BY <3>1
      <4>2. PICK h2 \in 1..Len(Chain(m, p, j, e)) : h2 = pos(p, j, e, h)
        BY <3>2
      <4>3. /\ SameTarget(Chain(m, q, i, d)[g2], Chain(m, p, j, e)[h2])
            /\ Chain(m, q, i, d)[g2].x = Chain(m, p, j, e)[h2].x
        BY ONLY <2>0, <3>1, <3>2, <4>1, <4>2
      <4>4. LinkedOnce(m)
        BY <1>1
      <4>5. q = p /\ i = j /\ d = e /\ g2 = h2
        BY ONLY <4>3, <4>4, OnceElim, q \in Queues, p \in Queues, i \in Slot(q), j \in Slot(p),
           d \in 1..2, e \in 1..2
      <4> QED BY <4>1, <4>2, <4>5
    <3> QED BY <3>1, <3>2, <3>3 DEF pos
  <2> QED BY ONLY <2>0, SMTT(30) DEF LinkedOnce
<1>15. AllLinked(m2, U)
  <2> SUFFICES ASSUME NEW q \in Queues, NEW i \in Slot(q), NEW o \in 1..3,
                      In(m2, q, i), ~m2.station[q][i].idep_ready[o], <<q, i, o>> \notin U
               PROVE  Linked(m2, q, i, o)
    BY DEF AllLinked
  <2>1. Linked(m, q, i, o)
    BY <1>1, <1>2 DEF AllLinked
  <2>a. PICK p \in Queues : \E j \in Slot(p) : \E d \in 1..2 :
          \E h \in 1..Len(Chain(m, p, j, d)) :
            Targets(m, Chain(m, p, j, d)[h], q, i) /\ Chain(m, p, j, d)[h].x = o
    BY <2>1 DEF Linked
  <2>b. PICK j \in Slot(p), d \in 1..2 : \E h \in 1..Len(Chain(m, p, j, d)) :
          Targets(m, Chain(m, p, j, d)[h], q, i) /\ Chain(m, p, j, d)[h].x = o
    BY <2>a
  <2>2. PICK h \in 1..Len(Chain(m, p, j, d)) :
          Targets(m, Chain(m, p, j, d)[h], q, i) /\ Chain(m, p, j, d)[h].x = o
    BY <2>b
  <2>3. ~(p = r.q /\ j = r.i /\ d = k /\ h = 1)
    <3> SUFFICES ASSUME p = r.q, j = r.i, d = k, h = 1 PROVE FALSE
      OBVIOUS
    <3>1. Chain(m, p, j, d)[h] = l
      BY <1>5, <1>a DEF s
    <3>2. l.q = q /\ l.i = i /\ l.x = o /\ RSLINK_VALID(m, l)
      BY <2>2, <3>1 DEF Targets, RSLINK_VALID, RS
    <3> QED BY <3>2
  <2>4. PICK g \in 1..Len(Chain(m2, p, j, d)) : Chain(m2, p, j, d)[g] = Chain(m, p, j, d)[h]
    BY <1>7, <2>3
  <2>5. Targets(m2, Chain(m2, p, j, d)[g], q, i) /\ Chain(m2, p, j, d)[g].x = o
    BY <1>3, <2>2, <2>4 DEF Targets
  <2> QED BY <2>5 DEF Linked
<1> QED BY <1>9, <1>13, <1>14, <1>15, ChainsParts

\* What stays the same when operands become ready.
SameState(m, m2) ==
  \A q \in Queues : \A i \in Slot(q) :
    /\ m2.station[q][i].issued = m.station[q][i].issued
    /\ m2.station[q][i].completed = m.station[q][i].completed

\* The input the link l leaves unlinked when it is taken off its chain.
Pending(m, l) == IF RSLINK_VALID(m, l) THEN {<<l.q, l.i, l.x>>} ELSE {}

\* Only the chain of output k of r has changed.
Shortened(m, m2, r, k) ==
  /\ \A q \in Queues : \A i \in Slot(q) :
       m2.station[q][i].idep_ready = m.station[q][i].idep_ready
  /\ Chain(m2, r.q, r.i, k) = Tail(Chain(m, r.q, r.i, k))

\* Taking the first link off a chain leaves at most the named input unlinked.
LEMMA TakeSound ==
  ASSUME NEW m, NEW mode, NEW last, NEW list \in Seq(Links), NEW X,
         Sound(m, mode, last, list, {}, X, {}),
         NEW r, r.q \in Queues, r.i \in Slot(r.q), NEW k \in 1..2,
         Chain(m, r.q, r.i, k) # <<>>,
         NEW m2, m2 = Taken(m, r, k),
         NEW l, l = Head(Chain(m, r.q, r.i, k))
  PROVE  /\ Sound(m2, mode, last, list, {}, X, Pending(m, l))
         /\ Same(m, m2) /\ SameVectors(m, m2) /\ SameState(m, m2)
         /\ Shortened(m, m2, r, k)
<1> DEFINE a == m.station[r.q][r.i]
           b == [a EXCEPT !.odep_list[k] = Tail(a.odep_list[k])]
<1>u. PICK U : U = Pending(m, l)
  OBVIOUS
<1>v. /\ RSLINK_VALID(m, l) => U = {<<l.q, l.i, l.x>>}
      /\ ~RSLINK_VALID(m, l) => U = {}
  BY <1>u DEF Pending
<1>1. CoreOK(m)
  BY DEF Sound
<1>2. /\ CoreOK(m2) /\ SameRing(m, m2) /\ SameVectors(m, m2)
      /\ SameLists(m, m2) /\ Put(m, m2, r.q, r.i, b)
  BY <1>1, TakenIs DEF Chain
<1>3. a \in Station
  BY <1>1, StationType
<1>4. /\ SameStatic(a, b) /\ b.queued = a.queued /\ b.issued = a.issued
      /\ b.completed = a.completed /\ b.idep_ready = a.idep_ready
      /\ \A d \in 1..2 : b.odep_list[d] = IF d = k THEN Tail(a.odep_list[d]) ELSE a.odep_list[d]
  BY <1>3 DEF SameStatic, Station
<1> HIDE DEF b
<1>5. Same(m, m2)
  BY <1>2, <1>4, PutSame
<1>6. \A q \in Queues : \A i \in Slot(q) :
        /\ m2.station[q][i].queued = m.station[q][i].queued
        /\ m2.station[q][i].issued = m.station[q][i].issued
        /\ m2.station[q][i].completed = m.station[q][i].completed
        /\ m2.station[q][i].idep_ready = m.station[q][i].idep_ready
  BY <1>2, <1>4 DEF Put
<1>7. ASSUME NEW q \in Queues, NEW i \in Slot(q), NEW d \in 1..2
      PROVE  Chain(m2, q, i, d) = IF q = r.q /\ i = r.i /\ d = k THEN Tail(Chain(m, q, i, d))
                                                                 ELSE Chain(m, q, i, d)
  <2>1. m2.station[q][i] = IF q = r.q /\ i = r.i THEN b ELSE m.station[q][i]
    BY <1>2 DEF Put
  <2> QED BY <1>4, <2>1 DEF Chain
<1>8. ChainsOK(m2, X, U)
  <2>1. ChainsOK(m, X, {})
    BY DEF Sound
  <2>2. \A q \in Queues : \A i \in Slot(q) : \A d \in 1..2 :
           Chain(m2, q, i, d) = IF q = r.q /\ i = r.i /\ d = k THEN Tail(Chain(m, q, i, d))
                                                               ELSE Chain(m, q, i, d)
    BY <1>7
  <2> HIDE DEF a
  <2> QED BY <1>1, <1>2, <1>5, <1>6, <1>v, <2>1, <2>2, TakeChains, SMTT(30)
<1>9. Ring(m2) /\ Kinds(m2) /\ Ordered(m2, last) /\ Paired(m2)
  BY <1>1, <1>2, <1>5, SameShape DEF Sound
<1>10. Boundary(m2, mode)
  BY <1>1, <1>2, <1>5, <1>6, SameBoundary DEF Sound
<1>11. CreatorsOK(m2, X)
  BY <1>1, <1>2, <1>5, <1>6, SameAlike, SameCreators DEF Sound
<1>12. FlagsOK(m2, {})
  BY <1>5, <1>6, SameAlike, SameFlags DEF Sound
<1>13. EventsOK(m2)
  BY <1>1, <1>2, <1>5, <1>6, SameAlike, SameEvents DEF Sound, SameLists
<1>14. LoadsOK(m2)
  <2>1. "LSQ" \in Queues
    BY DEF Queues
  <2> QED BY <1>5, <1>6, <2>1, SameAlike, SameLoads DEF Sound
<1>15. ReadyOK(m2, list)
  BY <1>1, <1>2, <1>5, <1>6, SameAlike, SameReady DEF Sound, SameLists
<1>16. Sound(m2, mode, last, list, {}, X, U)
  BY <1>2, <1>8, <1>9, <1>10, <1>11, <1>12, <1>13, <1>14, <1>15 DEF Sound
<1>17. SameState(m, m2)
  BY <1>6 DEF SameState
<1>18. Shortened(m, m2, r, k)
  BY <1>6, <1>7 DEF Shortened
<1> QED BY <1>2, <1>5, <1>16, <1>17, <1>18, <1>u

\* The chains are the same.
LEMMA SameInFlight ==
  ASSUME NEW m, NEW m2, Same(m, m2), NEW X, ChainsInFlight(m, X),
         \A q \in Queues : \A i \in Slot(q) :
           /\ m2.station[q][i].completed = m.station[q][i].completed
           /\ m2.station[q][i].odep_list = m.station[q][i].odep_list
  PROVE  ChainsInFlight(m2, X)
<1>1. \A q, i : In(m2, q, i) <=> In(m, q, i)
  BY SameIn DEF Same
<1>2. \A q \in Queues : \A i \in Slot(q) : m2.station[q][i].onames = m.station[q][i].onames
  BY DEF Same, SameStatic
<1>3. \A q \in Queues : \A i \in Slot(q) : \A d \in 1..2 : Chain(m2, q, i, d) = Chain(m, q, i, d)
  BY DEF Chain
<1> QED BY <1>1, <1>2, <1>3 DEF ChainsInFlight

\* With the same chains every input is still linked once.
LEMMA SameOnce ==
  ASSUME NEW m, NEW m2, LinkedOnce(m),
         \A q \in Queues : \A i \in Slot(q) : \A d \in 1..2 :
           Chain(m2, q, i, d) = Chain(m, q, i, d)
  PROVE  LinkedOnce(m2)
BY DEF LinkedOnce

SameChainsIn(m, m2) ==
  \A q \in Queues : \A i \in Slot(q) : \A d \in 1..2 :
    Chain(m2, q, i, d) = Chain(m, q, i, d)

\* An operand that was not linked any more is ready.
LEMMA WakeSound ==
  ASSUME NEW m, NEW mode, NEW last, NEW list \in Seq(Links), NEW X,
         NEW l, l.q \in Queues, l.i \in Slot(l.q), NEW x \in 1..3,
         Sound(m, mode, last, list, {}, X, {<<l.q, l.i, x>>}),
         In(m, l.q, l.i), ~m.station[l.q][l.i].idep_ready[x],
         NEW m2, m2 = Woken(m, l, x)
  PROVE  /\ Sound(m2, mode, last, list, {<<l.q, l.i>>}, X, {})
         /\ Same(m, m2) /\ SameVectors(m, m2) /\ SameState(m, m2)
         /\ ~m2.station[l.q][l.i].queued /\ ~m2.station[l.q][l.i].issued
         /\ SameChainsIn(m, m2)
<1> DEFINE a == m.station[l.q][l.i]
           b == [a EXCEPT !.idep_ready[x] = TRUE]
<1>1. CoreOK(m)
  BY DEF Sound
<1>2. /\ CoreOK(m2) /\ SameRing(m, m2) /\ SameVectors(m, m2)
      /\ SameLists(m, m2) /\ Put(m, m2, l.q, l.i, b)
  BY <1>1, WokenIs
<1>3. a \in Station
  BY <1>1, StationType
<1>4. /\ SameStatic(a, b) /\ b.queued = a.queued /\ b.issued = a.issued
      /\ b.completed = a.completed /\ b.odep_list = a.odep_list
      /\ \A o \in 1..3 : b.idep_ready[o] = IF o = x THEN TRUE ELSE a.idep_ready[o]
  BY <1>3 DEF SameStatic, Station
<1>a. ~OPERANDS_READY(a)
  BY DEF OPERANDS_READY, MAX_IDEPS
<1>b. ~a.queued /\ ~a.issued /\ ~a.completed
  BY <1>a DEF Sound, FlagsOK
<1> HIDE DEF b
<1>5. Same(m, m2)
  BY <1>2, <1>4, PutSame
<1>6. \A q \in Queues : \A i \in Slot(q) :
        /\ m2.station[q][i].queued = m.station[q][i].queued
        /\ m2.station[q][i].issued = m.station[q][i].issued
        /\ m2.station[q][i].completed = m.station[q][i].completed
        /\ m2.station[q][i].odep_list = m.station[q][i].odep_list
  BY <1>2, <1>4 DEF Put
<1>7. ASSUME NEW q \in Queues, NEW i \in Slot(q), NEW o \in 1..3
      PROVE  m2.station[q][i].idep_ready[o] = IF q = l.q /\ i = l.i /\ o = x THEN TRUE
                                              ELSE m.station[q][i].idep_ready[o]
  <2>1. m2.station[q][i] = IF q = l.q /\ i = l.i THEN b ELSE m.station[q][i]
    BY <1>2 DEF Put
  <2> QED BY <1>4, <2>1
<1>c. \A q \in Queues : \A i \in Slot(q) : \A d \in 1..2 : Chain(m2, q, i, d) = Chain(m, q, i, d)
  BY <1>6 DEF Chain
<1>8. \A q, i : In(m2, q, i) <=> In(m, q, i)
  BY <1>2, SameIn
<1>9. Ring(m2) /\ Kinds(m2) /\ Ordered(m2, last) /\ Paired(m2)
  BY <1>1, <1>2, <1>5, SameShape DEF Sound
<1>10. Boundary(m2, mode)
  BY <1>1, <1>2, <1>5, <1>6, SameBoundary DEF Sound
<1>11. CreatorsOK(m2, X)
  BY <1>1, <1>2, <1>5, <1>6, SameAlike, SameCreators DEF Sound
<1>12. EventsOK(m2)
  BY <1>1, <1>2, <1>5, <1>6, SameAlike, SameEvents DEF Sound, SameLists
<1>13. ReadyOK(m2, list)
  BY <1>1, <1>2, <1>5, <1>6, SameAlike, SameReady DEF Sound, SameLists
<1>14. LoadsOK(m2)
  <2>1. "LSQ" \in Queues
    BY DEF Queues
  <2>2. \A i \in Slot("LSQ") : \A o \in 1..3 :
          m.station["LSQ"][i].idep_ready[o] => m2.station["LSQ"][i].idep_ready[o]
    <3>1. ASSUME NEW i \in Slot("LSQ"), NEW o \in 1..3, m.station["LSQ"][i].idep_ready[o]
          PROVE  m2.station["LSQ"][i].idep_ready[o]
      <4>1. m2.station["LSQ"][i].idep_ready[o] = IF "LSQ" = l.q /\ i = l.i /\ o = x THEN TRUE
                                              ELSE m.station["LSQ"][i].idep_ready[o]
        BY <1>7, <2>1
      <4> QED BY <3>1, <4>1
    <3> QED BY <3>1
  <2>3. LoadsOK(m)
    BY DEF Sound
  <2> QED BY <1>5, <1>6, <2>1, <2>2, <2>3, SameAlike, SameLoads
<1>15. FlagsOK(m2, {<<l.q, l.i>>})
  <2>1. FlagsOK(m, {})
    BY DEF Sound
  <2> SUFFICES ASSUME NEW q \in Queues, NEW i \in Slot(q), In(m2, q, i)
               PROVE  LET rs == m2.station[q][i] IN
                      /\ rs.queued => OPERANDS_READY(rs) /\ ~rs.issued
                      /\ rs.issued => OPERANDS_READY(rs)
                      /\ rs.completed => rs.issued
                      /\ OPERANDS_READY(rs) /\ ~rs.queued /\ ~rs.issued =>
                           rs.op = "load" \/ <<q, i>> \in {<<l.q, l.i>>}
    BY DEF FlagsOK
  <2>2. CASE q = l.q /\ i = l.i
    <3>1. ~m2.station[q][i].queued /\ ~m2.station[q][i].issued /\ ~m2.station[q][i].completed
      <4>1. /\ m2.station[q][i].queued = a.queued /\ m2.station[q][i].issued = a.issued
            /\ m2.station[q][i].completed = a.completed
        BY <1>6, <2>2, Zenon
      <4> HIDE DEF a
      <4> QED BY <1>b, <4>1
    <3> QED BY <2>2, <3>1
  <2>3. CASE ~(q = l.q /\ i = l.i)
    <3>1. m2.station[q][i] = m.station[q][i]
      BY <1>2, <2>3 DEF Put
    <3>2. In(m, q, i)
      BY <1>8
    <3>3. LET rs == m.station[q][i] IN
          /\ rs.queued => OPERANDS_READY(rs) /\ ~rs.issued
          /\ rs.issued => OPERANDS_READY(rs)
          /\ rs.completed => rs.issued
          /\ OPERANDS_READY(rs) /\ ~rs.queued /\ ~rs.issued =>
               rs.op = "load" \/ <<q, i>> \in {}
      BY <2>1, <3>2 DEF FlagsOK
    <3> QED BY <3>1, <3>3
  <2> QED BY <2>2, <2>3
<1>16. ChainsOK(m2, X, {})
  <2>1. /\ ChainsInFlight(m, X) /\ ChainLinks(m, {<<l.q, l.i, x>>}) /\ LinkedOnce(m)
        /\ AllLinked(m, {<<l.q, l.i, x>>})
    BY ChainsParts DEF Sound
  <2>2. \A q \in Queues : \A i \in Slot(q) :
          /\ m2.station[q][i].seq = m.station[q][i].seq
          /\ m2.station[q][i].onames = m.station[q][i].onames
    BY <1>5 DEF Same, SameStatic
  <2>3. ChainsInFlight(m2, X)
    BY <1>2, <1>5, <1>6, <1>c, <2>1, SameInFlight
  <2>4. ASSUME NEW q \in Queues, NEW i \in Slot(q), NEW d \in 1..2,
               NEW h \in 1..Len(Chain(m, q, i, d))
        PROVE  LET e == Chain(m, q, i, d)[h] IN
               /\ LinkOK(m2, e) /\ e.x \in 1..3
               /\ RSLINK_VALID(m2, e) =>
                    ~RS(m2, e).idep_ready[e.x] /\ m2.station[q][i].seq < RS(m2, e).seq
    <3> DEFINE e == Chain(m, q, i, d)[h]
    <3>1. e \in Links
      BY <1>1, ChainType
    <3>2. /\ LinkOK(m, e) /\ e.x \in 1..3
          /\ RSLINK_VALID(m, e) =>
                    /\ ~RS(m, e).idep_ready[e.x] /\ <<e.q, e.i, e.x>> \notin {<<l.q, l.i, x>>}
                    /\ m.station[q][i].seq < RS(m, e).seq
      BY <2>1 DEF ChainLinks
    <3> HIDE DEF e
    <3>3. LinkOK(m2, e) /\ (RSLINK_VALID(m2, e) <=> RSLINK_VALID(m, e))
      BY <1>5, <3>1, <3>2, SameAlike, SameLink
    <3>4. e.q \in Queues /\ e.i \in Slot(e.q)
      BY <3>1 DEF Links
    <3>5. RSLINK_VALID(m, e) => ~RS(m2, e).idep_ready[e.x]
      <4> SUFFICES ASSUME RSLINK_VALID(m, e) PROVE ~m2.station[e.q][e.i].idep_ready[e.x]
        BY DEF RS
      <4>1. ~(e.q = l.q /\ e.i = l.i /\ e.x = x) /\ ~m.station[e.q][e.i].idep_ready[e.x]
        BY <3>2 DEF RS
      <4>2. m2.station[e.q][e.i].idep_ready[e.x] = m.station[e.q][e.i].idep_ready[e.x]
        <5>1. e.x \in 1..3
          BY <3>2
        <5> QED BY <1>7, <3>4, <4>1, <5>1
      <4> QED BY <4>1, <4>2
    <3>6. RS(m2, e).seq = RS(m, e).seq
      BY <2>2, <3>4 DEF RS
    <3>7. /\ LinkOK(m2, e) /\ e.x \in 1..3
          /\ RSLINK_VALID(m2, e) =>
               ~RS(m2, e).idep_ready[e.x] /\ m2.station[q][i].seq < RS(m2, e).seq
      BY <2>2, <3>2, <3>3, <3>5, <3>6
    <3> QED BY <3>7 DEF e
  <2>5. ChainLinks(m2, {})
    BY <1>c, <2>4 DEF ChainLinks
  <2>6. LinkedOnce(m2)
    BY <1>c, <2>1, SameOnce
  <2>7. ASSUME NEW q \in Queues, NEW i \in Slot(q), NEW o \in 1..3, Linked(m, q, i, o)
        PROVE  Linked(m2, q, i, o)
    BY <1>1, <1>5, <1>c, <2>7, ChainType, SameAlike, SameLink DEF Linked
  <2>8. AllLinked(m2, {})
    <3> SUFFICES ASSUME NEW q \in Queues, NEW i \in Slot(q), NEW o \in 1..3,
                        In(m2, q, i), ~m2.station[q][i].idep_ready[o]
                 PROVE  Linked(m2, q, i, o)
      BY DEF AllLinked
    <3>1. ~m.station[q][i].idep_ready[o] /\ ~(q = l.q /\ i = l.i /\ o = x)
      BY <1>7
    <3>2. Linked(m, q, i, o)
      BY <1>8, <2>1, <3>1 DEF AllLinked
    <3> QED BY <2>7, <3>2
  <2> QED BY <2>3, <2>5, <2>6, <2>8, ChainsParts
<1>17. Sound(m2, mode, last, list, {<<l.q, l.i>>}, X, {})
  BY <1>2, <1>9, <1>10, <1>11, <1>12, <1>13, <1>14, <1>15, <1>16 DEF Sound
<1>18. SameState(m, m2)
  BY <1>6 DEF SameState
<1>19. ~m2.station[l.q][l.i].queued /\ ~m2.station[l.q][l.i].issued
  <2>1. m2.station[l.q][l.i].queued = a.queued /\ m2.station[l.q][l.i].issued = a.issued
    BY <1>6, Zenon
  <2> HIDE DEF a
  <2> QED BY <1>b, <2>1
<1>20. SameChainsIn(m, m2)
  BY <1>c DEF SameChainsIn
<1> QED BY <1>2, <1>5, <1>17, <1>18, <1>19, <1>20

\* One link has been taken off the chain.
Shorter(m, m2, r, k) == Chain(m2, r.q, r.i, k) = Tail(Chain(m, r.q, r.i, k))

\* One iteration of the wakeup loop.
LEMMA WakeupSound ==
  ASSUME NEW m, NEW mode, NEW last, NEW list \in Seq(Links), NEW X,
         Sound(m, mode, last, list, {}, X, {}),
         NEW r, r.q \in Queues, r.i \in Slot(r.q), NEW k \in 1..2,
         Chain(m, r.q, r.i, k) # <<>>,
         NEW m2, m2 = Wakeup(m, r, k)
  PROVE  /\ Sound(m2, mode, last, list, {}, X, {})
         /\ Same(m, m2) /\ SameVectors(m, m2) /\ SameState(m, m2)
         /\ Shorter(m, m2, r, k)
<1> DEFINE l == Head(Chain(m, r.q, r.i, k))
           m1 == Taken(m, r, k)
           w == Woken(m1, l, l.x)
           U == IF RSLINK_VALID(m, l) THEN {<<l.q, l.i, l.x>>} ELSE {}
           rs == w.station[l.q][l.i]
<1>1. CoreOK(m)
  BY DEF Sound
<1>2. l \in Links /\ l.q \in Queues /\ l.i \in Slot(l.q)
      /\ l = Chain(m, r.q, r.i, k)[1] /\ 1 \in 1..Len(Chain(m, r.q, r.i, k))
  <2>1. Chain(m, r.q, r.i, k) \in Seq(Links)
    BY <1>1, ChainType
  <2>2. \A s \in Seq(Links) : s # <<>> =>
          Head(s) \in Links /\ Head(s) = s[1] /\ 1 \in 1..Len(s)
    BY TailElements
  <2>3. l \in Links /\ l = Chain(m, r.q, r.i, k)[1] /\ 1 \in 1..Len(Chain(m, r.q, r.i, k))
    BY <2>1, <2>2
  <2> QED BY <2>3 DEF Links
<1>3. m2 = IF ~RSLINK_VALID(m, l) THEN m1
           ELSE IF OPERANDS_READY(rs) /\ (~rs.in_LSQ \/ rs.op = "store")
           THEN readyq_enqueue(w, l) ELSE w
  BY DEF Wakeup, Chain, RS, Taken, Woken
<1>4. /\ Sound(m1, mode, last, list, {}, X, U)
      /\ Same(m, m1) /\ SameVectors(m, m1) /\ SameState(m, m1)
      /\ Shortened(m, m1, r, k)
  <2>1. U = Pending(m, l) /\ l = Head(Chain(m, r.q, r.i, k)) /\ m1 = Taken(m, r, k)
    BY DEF Pending
  <2> HIDE DEF U, m1, l
  <2> QED BY <2>1, TakeSound
<1>5. Chain(m1, r.q, r.i, k) = Tail(Chain(m, r.q, r.i, k))
  BY <1>4 DEF Shortened
<1>6. /\ l.x \in 1..3
      /\ RSLINK_VALID(m, l) => In(m, l.q, l.i) /\ ~m.station[l.q][l.i].idep_ready[l.x]
  <2>1. ChainLinks(m, {})
    BY ChainsParts DEF Sound
  <2>2. LinkOK(m, l) /\ l.x \in 1..3 /\ (RSLINK_VALID(m, l) => ~RS(m, l).idep_ready[l.x])
    BY <1>2, <2>1 DEF ChainLinks
  <2> QED BY <2>2 DEF LinkOK, RSLINK_VALID, RS
<1>7. CASE ~RSLINK_VALID(m, l)
  BY <1>3, <1>4, <1>5, <1>7 DEF Shorter
<1>8. CASE RSLINK_VALID(m, l)
  <2>1. U = {<<l.q, l.i, l.x>>}
    BY <1>8
  <2>2. In(m1, l.q, l.i) /\ ~m1.station[l.q][l.i].idep_ready[l.x]
    BY <1>2, <1>4, <1>6, <1>8, SameIn DEF Same, Shortened
  <2>a. w = Woken(m1, l, l.x) /\ Sound(m1, mode, last, list, {}, X, {<<l.q, l.i, l.x>>})
    BY <1>4, <2>1
  <2> HIDE DEF U, m1, l, w
  <2>3. /\ Sound(w, mode, last, list, {<<l.q, l.i>>}, X, {})
        /\ Same(m1, w) /\ SameVectors(m1, w) /\ SameState(m1, w)
        /\ ~w.station[l.q][l.i].queued /\ ~w.station[l.q][l.i].issued
        /\ SameChainsIn(m1, w)
    BY <1>2, <1>6, <2>2, <2>a, WakeSound
  <2>4. In(w, l.q, l.i)
    BY <2>2, <2>3, SameIn DEF Same
  <2>5. Same(m, w) /\ SameVectors(m, w) /\ SameState(m, w)
        /\ Chain(w, r.q, r.i, k) = Tail(Chain(m, r.q, r.i, k))
    <3>1. Same(m, w)
      BY <1>4, <2>3, SameTrans
    <3>2. SameVectors(m, w) /\ SameState(m, w)
      BY <1>4, <2>3 DEF SameVectors, SameState
    <3> QED BY <1>5, <2>3, <3>1, <3>2 DEF SameChainsIn
  <2>6. rs.in_LSQ <=> l.q = "LSQ"
    BY <1>2, <2>3, <2>4 DEF Sound, Kinds, Kind
  <2>7. l.q = "LSQ" <=> rs.op \in {"load", "store"}
    BY <1>2, <2>3, <2>4 DEF Sound, Kinds, Kind
  <2>8. CASE OPERANDS_READY(rs) /\ (~rs.in_LSQ \/ rs.op = "store")
    <3>1. m2 = readyq_enqueue(w, l)
      BY <1>3, <1>8, <2>8
    <3>2. rs.op # "load"
      BY <2>6, <2>7, <2>8
    <3>3. /\ Sound(m2, mode, last, list, {<<l.q, l.i>>} \ {<<l.q, l.i>>}, X, {})
          /\ Same(w, m2) /\ SameVectors(w, m2)
          /\ Enqueued(w, m2, l)
      <4>1. /\ Sound(w, mode, last, list, {<<l.q, l.i>>}, X, {})
            /\ l.q \in Queues /\ l.i \in Slot(l.q) /\ In(w, l.q, l.i)
            /\ OPERANDS_READY(w.station[l.q][l.i])
            /\ ~w.station[l.q][l.i].queued /\ ~w.station[l.q][l.i].issued
            /\ w.station[l.q][l.i].op # "load" \/ LoadsOK(m2)
        BY <1>2, <2>3, <2>4, <2>8, <3>2
      <4> QED BY ONLY <3>1, <4>1, EnqueueSound, list \in Seq(Links), ZenonT(40)
    <3>4. {<<l.q, l.i>>} \ {<<l.q, l.i>>} = {}
      OBVIOUS
    <3>5. Same(m, m2)
      BY <2>5, <3>3, SameTrans
    <3>6. SameVectors(m, m2) /\ SameState(m, m2)
      BY <2>5, <3>3 DEF SameVectors, SameState, Enqueued
    <3>7. Chain(m2, r.q, r.i, k) = Chain(w, r.q, r.i, k)
      BY <3>3 DEF Chain, Enqueued
    <3>8. Shorter(m, m2, r, k)
      BY <2>5, <3>7 DEF Shorter
    <3> QED BY <3>3, <3>4, <3>5, <3>6, <3>8
  <2>9. CASE ~(OPERANDS_READY(rs) /\ (~rs.in_LSQ \/ rs.op = "store"))
    <3>1. m2 = w
      BY <1>3, <1>8, <2>9
    <3>2. OPERANDS_READY(rs) => rs.op = "load"
      BY <2>6, <2>7, <2>9
    <3>3. FlagsOK(w, {<<l.q, l.i>>})
      BY <2>3 DEF Sound
    <3>4. FlagsOK(w, {})
      BY <3>2, <3>3 DEF FlagsOK
    <3>5. Sound(w, mode, last, list, {}, X, {})
      BY <2>3, <3>4 DEF Sound
    <3> QED BY <2>5, <3>1, <3>5 DEF Shorter
  <2> QED BY <2>8, <2>9
<1> QED BY <1>7, <1>8

-----------------------------------------------------------------------------
(*****************************************************************************)
(* Broadcast.                                                                *)
(*****************************************************************************)
\* NA is no register.
LEMMA NoName == NA \notin Names /\ DTMP \in Names /\ Regs \subseteq Names
BY SizesAssumption DEF Names, NA, DTMP

\* Outputs may be left in X although they have been broadcast.
LEMMA CreatorsMore ==
  ASSUME NEW m, NEW X, NEW Y, X \subseteq Y, CreatorsOK(m, X)
  PROVE  CreatorsOK(m, Y)
<1>1. ASSUME NEW v, NEW name, NEW all, Precise(m, v, name, all, X)
      PROVE  Precise(m, v, name, all, Y)
  BY <1>1 DEF Precise
<1> QED BY <1>1 DEF CreatorsOK

\* An output without a chain that is no creator has been broadcast.
LEMMA ChainsLess ==
  ASSUME NEW m, NEW X, NEW U, ChainsOK(m, X, U), NEW q \in Queues, NEW i \in Slot(q),
         NEW d \in 1..2, Chain(m, q, i, d) = <<>>
  PROVE  ChainsOK(m, X \ {<<q, i, d>>}, U)
<1>1. ChainsInFlight(m, X) /\ ChainLinks(m, U) /\ LinkedOnce(m) /\ AllLinked(m, U)
  BY ChainsParts
<1>2. ChainsInFlight(m, X \ {<<q, i, d>>})
  BY <1>1 DEF ChainsInFlight
<1> QED BY <1>1, <1>2, ChainsParts

\* The same stations in the same queues.
LEMMA SameButSound ==
  ASSUME NEW m, NEW mode, NEW last, NEW list \in Seq(Links), NEW N, NEW X, NEW Y, NEW U,
         Sound(m, mode, last, list, N, X, U), NEW m2, CoreOK(m2), SameBut(m, m2),
         CreatorsOK(m2, X)
  PROVE  Sound(m2, mode, last, list, N, X, U) /\ Same(m, m2) /\ SameState(m, m2)
<1>1. Same(m, m2)
  BY DEF Same, SameBut, SameStatic
<1>2. \A q \in Queues : \A i \in Slot(q) : m2.station[q][i] = m.station[q][i]
  BY DEF SameBut
<1>3. CoreOK(m)
  BY DEF Sound
<1>4. Ring(m2) /\ Kinds(m2) /\ Ordered(m2, last) /\ Paired(m2)
  BY <1>1, <1>3, SameShape DEF Sound
<1>5. Boundary(m2, mode)
  BY <1>1, <1>2, <1>3, SameBoundary DEF Sound
<1>6. FlagsOK(m2, N)
  BY <1>1, <1>2, SameAlike, SameFlags DEF Sound
<1>7. EventsOK(m2)
  BY <1>1, <1>2, <1>3, SameAlike, SameEvents DEF Sound, SameBut, SameLists
<1>8. LoadsOK(m2)
  <2>1. "LSQ" \in Queues
    BY DEF Queues
  <2> QED BY <1>1, <1>2, <2>1, SameAlike, SameLoads DEF Sound
<1>9. ReadyOK(m2, list)
  BY <1>1, <1>2, <1>3, SameAlike, SameReady DEF Sound, SameBut, SameLists
<1>10. ChainsOK(m2, X, U)
  BY <1>1, <1>2, <1>3, SameAlike, SameChains DEF Sound
<1>11. SameState(m, m2)
  BY <1>2 DEF SameState
<1> QED BY <1>1, <1>4, <1>5, <1>6, <1>7, <1>8, <1>9, <1>10, <1>11 DEF Sound

\* The wakeup loop, iteration by iteration.
Loop(F, m, r, k, h) ==
  F = [j \in 0..h |-> IF j = 0 THEN Done(m, r, k) ELSE Wakeup(F[j - 1], r, k)]

\* The loop of ruu_writeback over a chain is a function of the iteration.
LEMMA LoopExists ==
  ASSUME NEW m, NEW r, NEW k, NEW h \in Nat
  PROVE  \E F : Loop(F, m, r, k, h)
<1> DEFINE T == {j \in Nat : ~ \E F : Loop(F, m, r, k, j)}
<1> SUFFICES ASSUME T # {} PROVE FALSE
  OBVIOUS
<1>1. PICK g \in T : \A j \in T : g <= j
  <2>1. T \subseteq Nat
    OBVIOUS
  <2> HIDE DEF T
  <2> QED BY <2>1, LeastNumber
<1>2. g # 0
  <2> SUFFICES \E F : Loop(F, m, r, k, 0)
    BY <1>1
  <2>1. Loop([j \in 0..0 |-> Done(m, r, k)], m, r, k, 0)
    BY DEF Loop
  <2> QED BY <2>1
<1>3. g \in Nat /\ g - 1 \in Nat /\ g - 1 \notin T
  BY <1>1, <1>2
<1>4. PICK G : Loop(G, m, r, k, g - 1)
  BY <1>3
<1> DEFINE H == [j \in 0..g |-> IF j = g THEN Wakeup(G[g - 1], r, k) ELSE G[j]]
<1>5. ASSUME NEW j \in 0..g
      PROVE  H[j] = IF j = 0 THEN Done(m, r, k) ELSE Wakeup(H[j - 1], r, k)
  <2>1. CASE j = 0
    BY <1>2, <1>3, <1>4, <2>1 DEF Loop
  <2>2. CASE j # 0 /\ j # g
    <3>1. j \in 0..(g - 1) /\ j - 1 \in 0..(g - 1) /\ j - 1 # g /\ j - 1 \in 0..g
      BY <1>3, <2>2
    <3>2. G[j] = Wakeup(G[j - 1], r, k)
      BY <1>4, <2>2, <3>1 DEF Loop
    <3>3. H[j] = G[j] /\ H[j - 1] = G[j - 1]
      BY <2>2, <3>1
    <3> QED BY <2>2, <3>2, <3>3
  <2>3. CASE j = g
    BY <1>2, <1>3, <2>3
  <2> QED BY <2>1, <2>2, <2>3
<1>6. Loop(H, m, r, k, g)
  BY <1>5 DEF Loop
<1> QED BY <1>1, <1>6

\* Broadcast is that loop run to its end.
LEMMA BroadcastIs ==
  ASSUME NEW m, NEW r, NEW k, Len(RS(m, r).odep_list[k]) \in Nat,
         RS(m, r).onames[k] # NA
  PROVE  \E F : /\ Loop(F, m, r, k, Len(RS(m, r).odep_list[k]))
                /\ Broadcast(m, r, k) = F[Len(RS(m, r).odep_list[k])]
<1> DEFINE F == CHOOSE f : Loop(f, m, r, k, Len(RS(m, r).odep_list[k]))
<1>1. Broadcast(m, r, k) = F[Len(RS(m, r).odep_list[k])]
  BY DEF Broadcast, Loop, Done
<1>2. Loop(F, m, r, k, Len(RS(m, r).odep_list[k]))
  <2>1. \E f : Loop(f, m, r, k, Len(RS(m, r).odep_list[k]))
    <3> HIDE DEF F
    <3> DEFINE h == Len(RS(m, r).odep_list[k])
    <3>1. h \in Nat
      OBVIOUS
    <3> HIDE DEF h
    <3>2. \E f : Loop(f, m, r, k, h)
      BY <3>1, LoopExists
    <3> QED BY <3>2 DEF h
  <2> QED BY <2>1, Zenon
<1> HIDE DEF F
<1> QED BY <1>1, <1>2

\* What the wakeup loop keeps.
Waking(m, f, mode, last, list, X, Y, r, k, h) ==
  /\ Sound(f, mode, last, list, {}, X, {}) /\ CreatorsOK(f, Y)
  /\ Same(m, f) /\ SameState(m, f) /\ f.use_spec_cv = m.use_spec_cv
  /\ Len(Chain(f, r.q, r.i, k)) = h

\* Each iteration keeps every part and shortens the chain by one.
LEMMA WakingStep ==
  ASSUME NEW m, NEW f, NEW mode, NEW last, NEW list \in Seq(Links), NEW X, NEW Y,
         NEW r, r.q \in Queues, r.i \in Slot(r.q), NEW k \in 1..2, NEW h \in Nat, h > 0,
         Waking(m, f, mode, last, list, X, Y, r, k, h),
         NEW g, g = Wakeup(f, r, k)
  PROVE  Waking(m, g, mode, last, list, X, Y, r, k, h - 1)
<1>1. /\ Sound(f, mode, last, list, {}, X, {}) /\ CreatorsOK(f, Y)
      /\ Same(m, f) /\ SameState(m, f) /\ f.use_spec_cv = m.use_spec_cv
      /\ Len(Chain(f, r.q, r.i, k)) = h
  BY DEF Waking
<1>2. Chain(f, r.q, r.i, k) # <<>> /\ Chain(f, r.q, r.i, k) \in Seq(Links)
  <2>1. CoreOK(f)
    BY <1>1 DEF Sound
  <2>2. Chain(f, r.q, r.i, k) \in Seq(Links)
    BY <2>1, ChainType
  <2> QED BY <1>1, <2>2
<1>3. /\ Sound(g, mode, last, list, {}, X, {})
      /\ Same(f, g) /\ SameVectors(f, g) /\ SameState(f, g)
      /\ Shorter(f, g, r, k)
  <2>1. /\ Sound(f, mode, last, list, {}, X, {}) /\ list \in Seq(Links)
        /\ r.q \in Queues /\ r.i \in Slot(r.q) /\ k \in 1..2
        /\ Chain(f, r.q, r.i, k) # <<>> /\ g = Wakeup(f, r, k)
    BY <1>1, <1>2
  <2> QED BY ONLY <2>1, WakeupSound
<1>4. Same(m, g)
  BY <1>1, <1>3, SameTrans
<1>5. SameState(m, g) /\ g.use_spec_cv = m.use_spec_cv
  BY <1>1, <1>3 DEF SameState, SameVectors
<1>6. CreatorsOK(g, Y)
  <2>1. CoreOK(f)
    BY <1>1 DEF Sound
  <2>2. \A q \in Queues : \A i \in Slot(q) :
          g.station[q][i].completed = f.station[q][i].completed
    BY <1>3 DEF SameState
  <2> QED BY <1>1, <1>3, <2>1, <2>2, SameAlike, SameCreators
<1>7. Len(Chain(g, r.q, r.i, k)) = h - 1
  BY <1>1, <1>2, <1>3 DEF Shorter
<1> QED BY <1>3, <1>4, <1>5, <1>6, <1>7 DEF Waking

\* The outputs still to be broadcast, after output k of r.
Less(X, r, k) == X \ {<<r.q, r.i, k>>}

SameUse(m, m2) == m2.use_spec_cv = m.use_spec_cv

\* An output of an operation that has completed is broadcast.
LEMMA BroadcastSound ==
  ASSUME NEW m, NEW mode, NEW last, NEW list \in Seq(Links), NEW X,
         Sound(m, mode, last, list, {}, X, {}),
         NEW r, r.q \in Queues, r.i \in Slot(r.q), NEW k \in 1..2,
         m.station[r.q][r.i].completed,
         NEW m2, m2 = Broadcast(m, r, k)
  PROVE  /\ Sound(m2, mode, last, list, {}, Less(X, r, k), {})
         /\ Same(m, m2) /\ SameState(m, m2) /\ SameUse(m, m2)
<1>0. PICK Y : Y = Less(X, r, k)
  OBVIOUS
<1>1. Y = X \ {<<r.q, r.i, k>>}
  BY <1>0 DEF Less
<1>2. CoreOK(m) /\ Ordered(m, last) /\ Paired(m) /\ CreatorsOK(m, X) /\ ChainsOK(m, X, {})
  BY DEF Sound
<1>3. m.station[r.q][r.i] \in Station /\ RS(m, r) = m.station[r.q][r.i]
  BY <1>2, StationType DEF RS
<1>4. ASSUME NEW f, Sound(f, mode, last, list, {}, X, {}), CreatorsOK(f, Y),
             Chain(f, r.q, r.i, k) = <<>>
      PROVE  Sound(f, mode, last, list, {}, Y, {})
  <2>1. ChainsOK(f, X, {})
    BY <1>4 DEF Sound
  <2>2. ChainsOK(f, Y, {})
    BY <1>1, <1>4, <2>1, ChainsLess
  <2> QED BY <1>4, <2>2 DEF Sound
<1>5. CASE m.station[r.q][r.i].onames[k] = NA
  <2>1. m2 = m
    BY <1>3, <1>5 DEF Broadcast
  <2>2. Chain(m, r.q, r.i, k) = <<>>
    BY <1>2, <1>5 DEF ChainsOK
  <2>3. ASSUME NEW v \in Creators \cup {NONE}, NEW name \in Names, NEW all,
               Precise(m, v, name, all, X)
        PROVE  Precise(m, v, name, all, Y)
    <3>1. v # NONE => ~(v.q = r.q /\ v.i = r.i /\ v.odep = k)
      BY <1>5, <2>3, NoName DEF Precise, Writes
    <3> QED BY <1>1, <2>3, <3>1, PreciseLess
  <2>4. CreatorsOK(m, Y)
    BY <1>2, <2>3, VectorType DEF CreatorsOK
  <2>5. Same(m, m) /\ SameState(m, m)
    BY SameItself DEF SameState
  <2>6. SameUse(m, m)
    BY DEF SameUse
  <2> QED BY <1>0, <1>4, <2>1, <2>2, <2>4, <2>5, <2>6
<1>6. CASE m.station[r.q][r.i].onames[k] # NA
  <2>1. m.station[r.q][r.i].onames[k] \in Names
    BY <1>3, <1>6, StationFields
  <2>2. Chain(m, r.q, r.i, k) \in Seq(Links)
    BY <1>2, ChainType
  <2>3. PICK h \in Nat : h = Len(Chain(m, r.q, r.i, k))
    BY <2>2
  <2>4. PICK F : Loop(F, m, r, k, h) /\ m2 = F[h]
    <3>1. Len(RS(m, r).odep_list[k]) = h
      BY <1>3, <2>3 DEF Chain
    <3> QED BY <1>3, <1>6, <3>1, BroadcastIs
  <2>5. /\ F[0] = Done(m, r, k)
        /\ \A j \in 0..h : j # 0 => F[j] = Wakeup(F[j - 1], r, k)
    BY <2>4 DEF Loop
  <2>6. DoneEffect(m, F[0], r, k) /\ CreatorsOK(F[0], Y)
    BY <1>1, <1>2, <2>1, <2>5, DoneIs, DoneCreators
  <2>7. CoreOK(F[0]) /\ SameBut(m, F[0])
    BY <2>6 DEF DoneEffect
  <2>8. CreatorsOK(F[0], X)
    BY <1>1, <2>6, CreatorsMore
  <2>9. Sound(F[0], mode, last, list, {}, X, {}) /\ Same(m, F[0]) /\ SameState(m, F[0])
    BY <2>7, <2>8, SameButSound
  <2>10. F[0].use_spec_cv = m.use_spec_cv /\ Chain(F[0], r.q, r.i, k) = Chain(m, r.q, r.i, k)
    BY <2>7 DEF SameBut, Chain
  <2>11. Waking(m, F[0], mode, last, list, X, Y, r, k, h)
    BY <2>3, <2>6, <2>9, <2>10 DEF Waking
  <2> DEFINE Good(j) == Waking(m, F[j], mode, last, list, X, Y, r, k, h - j)
             T == {j \in 0..h : ~Good(j)}
  <2>12. T = {}
    <3> SUFFICES ASSUME T # {} PROVE FALSE
      OBVIOUS
    <3>1. PICK g \in T : \A j \in T : g <= j
      <4>1. T \subseteq Nat
        OBVIOUS
      <4> HIDE DEF T
      <4> QED BY <4>1, LeastNumber
    <3>2. g \in 0..h /\ ~Good(g)
      OBVIOUS
    <3>3. g # 0
      <4>1. h - 0 = h
        OBVIOUS
      <4> QED BY <2>11, <3>2, <4>1
    <3>4. g - 1 \in 0..h /\ g - 1 \notin T
      <4> HIDE DEF T
      <4>1. g \in Nat /\ g - 1 < g
        BY <3>2
      <4> QED BY <3>1, <3>2, <3>3, <4>1
    <3>5. Good(g - 1)
      BY <3>4
    <3>6. PICK e : e = h - (g - 1)
      OBVIOUS
    <3>7. e \in Nat /\ e > 0 /\ e - 1 = h - g
      BY <3>2, <3>3, <3>6
    <3>8. Waking(m, F[g - 1], mode, last, list, X, Y, r, k, e)
      BY <3>5, <3>6
    <3>9. F[g] = Wakeup(F[g - 1], r, k)
      BY <2>5, <3>2, <3>3
    <3> HIDE DEF T, Good
    <3>10. Waking(m, F[g], mode, last, list, X, Y, r, k, e - 1)
      BY <3>7, <3>8, <3>9, WakingStep
    <3> QED BY <3>2, <3>7, <3>10 DEF Good
  <2>13. Waking(m, m2, mode, last, list, X, Y, r, k, 0)
    <3>1. Good(h)
      BY <2>12
    <3>2. h - h = 0
      OBVIOUS
    <3> QED BY <2>4, <3>1, <3>2
  <2>14. /\ Sound(m2, mode, last, list, {}, X, {}) /\ CreatorsOK(m2, Y)
         /\ Same(m, m2) /\ SameState(m, m2) /\ SameUse(m, m2)
         /\ Len(Chain(m2, r.q, r.i, k)) = 0
    BY <2>13 DEF Waking, SameUse
  <2>15. Chain(m2, r.q, r.i, k) = <<>>
    <3>1. CoreOK(m2)
      BY <2>14 DEF Sound
    <3>2. Chain(m2, r.q, r.i, k) \in Seq(Links)
      BY <3>1, ChainType
    <3> QED BY <2>14, <3>2
  <2> QED BY <1>0, <1>4, <2>14, <2>15
<1> QED BY <1>5, <1>6

=============================================================================
