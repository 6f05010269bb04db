--------------------------- MODULE PipelineProofs ---------------------------
(*****************************************************************************)
(* The out-of-order core keeps its invariant, action by action, and what     *)
(* follows from that: it never panics, speculation has one boundary, the     *)
(* create vectors are precise, no wakeup is lost, and loads wait for stores. *)
(*****************************************************************************)
EXTENDS PipelineWindow

-----------------------------------------------------------------------------
(*****************************************************************************)
(* A new operation and the parts of the invariant.                           *)
(*****************************************************************************)
\* A new operation of the right kind keeps the kinds.
LEMMA GrowKinds ==
  ASSUME NEW m, CoreOK(m), Ring(m), NEW r, Free(m, r), NEW m2, Grows(m, m2, r), Kinds(m),
         Kind(r.q, m2.station[r.q][r.i])
  PROVE  Kinds(m2)
<1>1. ASSUME NEW q \in Queues, NEW i \in Slot(q), In(m2, q, i)
      PROVE  Kind(q, m2.station[q][i])
  <2>1. CASE Elsewhere(r, q, i)
    <3>1. In(m, q, i)
      BY <1>1, <2>1, GrowIn DEF Grows
    <3>2. Kind(q, m.station[q][i])
      BY <3>1 DEF Kinds
    <3>3. SameStatic(m.station[q][i], m2.station[q][i])
      BY <2>1 DEF Grows
    <3> QED BY ONLY <3>2, <3>3 DEF Kind, SameStatic
  <2>2. CASE ~Elsewhere(r, q, i)
    BY <2>2 DEF Elsewhere
  <2> QED BY <2>1, <2>2
<1> QED BY ONLY <1>1 DEF Kinds

QueueOlder(m, q, seq) ==
  \A i \in Slot(q) : In(m, q, i) => LastSeq(m.station[q][i]) < seq

\* A new operation with a larger number keeps the order.
LEMMA GrowOrdered ==
  ASSUME NEW m, CoreOK(m), Ring(m), NEW r, Free(m, r), NEW m2, CoreOK(m2), Grows(m, m2, r),
         NEW last \in Nat, Ordered(m, last), NEW last2 \in Nat, last <= last2,
         LastSeq(m2.station[r.q][r.i]) <= last2,
         QueueOlder(m, r.q, m2.station[r.q][r.i].seq)
  PROVE  Ordered(m2, last2)
<1>0. r.q \in Queues /\ r.i \in Slot(r.q) /\ Distance(m, r.q, r.i) = m.num[r.q]
  BY FreeSlot
<1>1. ASSUME NEW q \in Queues, NEW i \in Slot(q), In(m2, q, i), Elsewhere(r, q, i)
      PROVE  /\ In(m, q, i) /\ LastSeq(m2.station[q][i]) = LastSeq(m.station[q][i])
             /\ m2.station[q][i].seq = m.station[q][i].seq
             /\ LastSeq(m.station[q][i]) \in Nat
  <2>1. In(m, q, i)
    BY <1>1, GrowIn DEF Grows
  <2>2. SameStatic(m.station[q][i], m2.station[q][i])
    BY <1>1 DEF Grows
  <2>3. m.station[q][i].seq \in Nat
    BY StationType, StationFields
  <2> QED BY ONLY <2>1, <2>2, <2>3 DEF SameStatic, LastSeq
<1>2. ASSUME NEW q \in Queues, NEW i \in Slot(q), In(m2, q, i)
      PROVE  LastSeq(m2.station[q][i]) <= last2
  <2>1. CASE Elsewhere(r, q, i)
    <3>1. /\ In(m, q, i) /\ LastSeq(m2.station[q][i]) = LastSeq(m.station[q][i])
          /\ LastSeq(m.station[q][i]) \in Nat
      BY <1>1, <1>2, <2>1
    <3>2. LastSeq(m.station[q][i]) <= last
      BY <3>1 DEF Ordered
    <3> QED BY ONLY <3>1, <3>2, last \in Nat, last2 \in Nat, last <= last2
  <2>2. CASE ~Elsewhere(r, q, i)
    BY <2>2 DEF Elsewhere
  <2> QED BY <2>1, <2>2
<1>3. ASSUME NEW q \in Queues, NEW i \in Slot(q), NEW j \in Slot(q), In(m2, q, i), In(m2, q, j),
             Distance(m2, q, i) < Distance(m2, q, j)
      PROVE  LastSeq(m2.station[q][i]) < m2.station[q][j].seq
  <2>1. /\ Distance(m2, q, i) = Distance(m, q, i) /\ Distance(m2, q, j) = Distance(m, q, j)
        /\ In(m2, q, i) <=> In(m, q, i) \/ ~Elsewhere(r, q, i)
        /\ In(m2, q, j) <=> In(m, q, j) \/ ~Elsewhere(r, q, j)
    BY GrowIn DEF Grows
  <2>2. Elsewhere(r, q, i)
    <3>1. SUFFICES ASSUME q = r.q, i = r.i PROVE FALSE
      BY DEF Elsewhere
    <3>2. Distance(m, q, i) = m.num[q]
      BY <1>0, <3>1
    <3>3. Distance(m, q, j) \in Nat /\ m.num[q] \in Nat
      BY DistanceIs, Pointers
    <3>4. ~In(m, q, j)
      BY <1>3, <2>1, <3>2, <3>3 DEF In
    <3>5. j = i
      BY <1>3, <2>1, <3>1, <3>4 DEF Elsewhere
    <3> QED BY ONLY <1>3, <3>2, <3>3, <3>5, <2>1
  <2>3. /\ In(m, q, i) /\ LastSeq(m2.station[q][i]) = LastSeq(m.station[q][i])
    BY <1>1, <1>3, <2>2
  <2>4. CASE Elsewhere(r, q, j)
    <3>1. In(m, q, j) /\ m2.station[q][j].seq = m.station[q][j].seq
      BY <1>1, <1>3, <2>4
    <3>2. LastSeq(m.station[q][i]) < m.station[q][j].seq
      BY <1>3, <2>1, <2>3, <3>1 DEF Ordered
    <3> QED BY ONLY <2>3, <3>1, <3>2
  <2>5. CASE ~Elsewhere(r, q, j)
    <3>1. q = r.q /\ j = r.i
      BY <2>5 DEF Elsewhere
    <3>2. LastSeq(m.station[q][i]) < m2.station[r.q][r.i].seq
      BY <2>3, <3>1 DEF QueueOlder
    <3> QED BY ONLY <2>3, <3>1, <3>2
  <2> QED BY <2>4, <2>5
<1> QED BY ONLY <1>2, <1>3 DEF Ordered

\* A new operation on the current path keeps the boundary of speculation.
LEMMA GrowBoundary ==
  ASSUME NEW m, CoreOK(m), Ring(m), NEW r, Free(m, r), NEW m2, CoreOK(m2), Grows(m, m2, r),
         spec_mode \in BOOLEAN, Boundary(m, spec_mode), NEW op, NEW addr, NEW pc, NEW seq,
         Fresh(m2.station[r.q][r.i], r.q, op, addr, pc, seq), AllOlder(m, seq)
  PROVE  Boundary(m2, spec_mode)
<1>0. /\ r.q \in Queues /\ r.i \in Slot(r.q) /\ ~In(m, r.q, r.i)
      /\ ~m2.station[r.q][r.i].recover_inst
      /\ m2.station[r.q][r.i].spec_mode <=> spec_mode
      /\ m2.station[r.q][r.i].seq = seq
  BY FreeSlot DEF Fresh
<1>1. ASSUME NEW q \in Queues, NEW i \in Slot(q), In(m2, q, i), Elsewhere(r, q, i)
      PROVE  /\ In(m, q, i) /\ m2.station[q][i].seq = m.station[q][i].seq
             /\ m2.station[q][i].spec_mode = m.station[q][i].spec_mode
             /\ m2.station[q][i].recover_inst = m.station[q][i].recover_inst
             /\ m2.station[q][i].completed = m.station[q][i].completed
  <2>1. In(m, q, i)
    BY <1>1, GrowIn DEF Grows
  <2>2. SameStatic(m.station[q][i], m2.station[q][i])
        /\ m2.station[q][i].completed = m.station[q][i].completed
    BY <1>1 DEF Grows
  <2> QED BY ONLY <2>1, <2>2 DEF SameStatic
<1>2. CASE spec_mode
  <2>1. PICK c \in Slot("RUU") : Culprit(m, c)
    BY <1>2 DEF Boundary
  <2>2. PICK Q \in Queues : Q = "RUU"
    BY DEF Queues
  <2>3. In(m, Q, c) /\ m.station[Q][c].recover_inst /\ ~m.station[Q][c].completed
    BY <2>1, <2>2 DEF Culprit
  <2>4. Elsewhere(r, Q, c)
    BY ONLY <1>0, <2>3 DEF Elsewhere
  <2>5. In(m2, Q, c)
    BY <2>2, <2>3, GrowIn DEF Grows
  <2>6. /\ m2.station[Q][c].seq = m.station[Q][c].seq
        /\ m2.station[Q][c].recover_inst = m.station[Q][c].recover_inst
        /\ m2.station[Q][c].completed = m.station[Q][c].completed
    BY <1>1, <2>2, <2>4, <2>5
  <2>7. m.station[Q][c].seq < seq
    BY <2>2, <2>3 DEF AllOlder
  <2>8. ASSUME NEW q \in Queues, NEW i \in Slot(q), In(m2, q, i)
        PROVE  LET rs == m2.station[q][i] IN
               /\ rs.spec_mode <=> m2.station["RUU"][c].seq < rs.seq
               /\ rs.recover_inst /\ ~rs.completed => q = "RUU" /\ i = c
    <3>1. CASE Elsewhere(r, q, i)
      <4>1. /\ In(m, q, i) /\ m2.station[q][i].seq = m.station[q][i].seq
            /\ m2.station[q][i].spec_mode = m.station[q][i].spec_mode
            /\ m2.station[q][i].recover_inst = m.station[q][i].recover_inst
            /\ m2.station[q][i].completed = m.station[q][i].completed
        BY <1>1, <2>8, <3>1
      <4>2. /\ m.station[q][i].spec_mode <=> m.station["RUU"][c].seq < m.station[q][i].seq
            /\ m.station[q][i].recover_inst /\ ~m.station[q][i].completed => q = "RUU" /\ i = c
        BY <2>1, <4>1 DEF Culprit
      <4> QED BY ONLY <2>2, <2>6, <4>1, <4>2
    <3>2. CASE ~Elsewhere(r, q, i)
      <4>1. q = r.q /\ i = r.i
        BY <3>2 DEF Elsewhere
      <4> QED BY ONLY <1>0, <1>2, <2>2, <2>6, <2>7, <4>1
    <3> QED BY <3>1, <3>2
  <2>9. Culprit(m2, c)
    BY ONLY <2>2, <2>3, <2>5, <2>6, <2>8 DEF Culprit
  <2> QED BY <1>2, <2>9 DEF Boundary
<1>3. CASE ~spec_mode
  <2>1. ASSUME NEW q \in Queues, NEW i \in Slot(q), In(m2, q, i)
        PROVE  ~m2.station[q][i].spec_mode
               /\ (m2.station[q][i].recover_inst => m2.station[q][i].completed)
    <3>1. CASE Elsewhere(r, q, i)
      <4>1. /\ In(m, q, i)
            /\ m2.station[q][i].spec_mode = m.station[q][i].spec_mode
            /\ m2.station[q][i].recover_inst = m.station[q][i].recover_inst
            /\ m2.station[q][i].completed = m.station[q][i].completed
        BY <1>1, <2>1, <3>1
      <4>2. ~m.station[q][i].spec_mode
            /\ (m.station[q][i].recover_inst => m.station[q][i].completed)
        BY <1>3, <4>1 DEF Boundary
      <4> QED BY ONLY <4>1, <4>2
    <3>2. CASE ~Elsewhere(r, q, i)
      <4>1. q = r.q /\ i = r.i
        BY <3>2 DEF Elsewhere
      <4> QED BY ONLY <1>0, <1>3, <4>1
    <3> QED BY <3>1, <3>2
  <2> QED BY ONLY <1>3, <2>1 DEF Boundary
<1> QED BY <1>2, <1>3

With(N, r) == N \cup {<<r.q, r.i>>}

\* A new operation may be about to be scheduled.
LEMMA GrowFlags ==
  ASSUME NEW m, CoreOK(m), Ring(m), NEW r, Free(m, r), NEW m2, Grows(m, m2, r),
         NEW N, FlagsOK(m, N), NEW op, NEW addr, NEW pc, NEW seq,
         Fresh(m2.station[r.q][r.i], r.q, op, addr, pc, seq)
  PROVE  FlagsOK(m2, With(N, r))
<1>0. /\ ~m2.station[r.q][r.i].queued /\ ~m2.station[r.q][r.i].issued
      /\ ~m2.station[r.q][r.i].completed
  BY DEF Fresh
<1>1. ASSUME NEW q \in Queues, NEW i \in Slot(q), In(m2, q, i)
      PROVE  LET rs == m2.station[q][i] IN
             /\ rs.queued => OPERANDS_READY(rs) /\ ~rs.issued
             /\ rs.issued => OPERANDS_READY(rs)
             /\ rs.completed => rs.issued
             /\ OPERANDS_READY(rs) /\ ~rs.queued /\ ~rs.issued =>
                  rs.op = "load" \/ <<q, i>> \in With(N, r)
  <2>1. CASE Elsewhere(r, q, i)
    <3>1. In(m, q, i)
      BY <1>1, <2>1, GrowIn DEF Grows
    <3>2. LET rs == m.station[q][i] IN
          /\ rs.queued => OPERANDS_READY(rs) /\ ~rs.issued
          /\ rs.issued => OPERANDS_READY(rs)
          /\ rs.completed => rs.issued
          /\ OPERANDS_READY(rs) /\ ~rs.queued /\ ~rs.issued =>
               rs.op = "load" \/ <<q, i>> \in N
      BY <3>1 DEF FlagsOK
    <3>3. /\ SameStatic(m.station[q][i], m2.station[q][i])
          /\ m2.station[q][i].queued = m.station[q][i].queued
          /\ m2.station[q][i].issued = m.station[q][i].issued
          /\ m2.station[q][i].completed = m.station[q][i].completed
          /\ m2.station[q][i].idep_ready = m.station[q][i].idep_ready
      BY <2>1 DEF Grows
    <3>4. OPERANDS_READY(m2.station[q][i]) <=> OPERANDS_READY(m.station[q][i])
      BY <3>3 DEF OPERANDS_READY
    <3>5. <<q, i>> \in N => <<q, i>> \in With(N, r)
      BY DEF With
    <3> QED BY ONLY <3>2, <3>3, <3>4, <3>5 DEF SameStatic
  <2>2. CASE ~Elsewhere(r, q, i)
    <3>1. q = r.q /\ i = r.i
      BY <2>2 DEF Elsewhere
    <3>2. <<q, i>> \in With(N, r)
      BY ONLY <3>1 DEF With
    <3> QED BY ONLY <1>0, <3>1, <3>2
  <2> QED BY <2>1, <2>2
<1> QED BY ONLY <1>1 DEF FlagsOK

\* The lists keep naming what they named.
LEMMA GrowListOK ==
  ASSUME NEW m, CoreOK(m), Ring(m), NEW r, Free(m, r), NEW m2, Grows(m, m2, r),
         NEW s \in Seq(Links), ListOK(m, s)
  PROVE  ListOK(m2, s)
<1>1. ASSUME NEW k \in 1..Len(s)
      PROVE  LinkOK(m2, s[k]) /\ (RSLINK_VALID(m2, s[k]) => RS(m2, s[k]).queued)
  <2>1. PICK l \in Links : l = s[k]
    OBVIOUS
  <2>2. LinkOK(m, l) /\ (RSLINK_VALID(m, l) => RS(m, l).queued)
    BY <2>1 DEF ListOK
  <2>3. /\ LinkOK(m2, l) /\ (RSLINK_VALID(m2, l) <=> RSLINK_VALID(m, l))
        /\ RSLINK_VALID(m, l) => Elsewhere(r, l.q, l.i)
        /\ l.q \in Queues /\ l.i \in Slot(l.q)
    BY <2>2, GrowLink
  <2>4. Elsewhere(r, l.q, l.i) => m2.station[l.q][l.i].queued = m.station[l.q][l.i].queued
    BY <2>3 DEF Grows
  <2>5. LinkOK(m2, l) /\ (RSLINK_VALID(m2, l) => RS(m2, l).queued)
    BY ONLY <2>2, <2>3, <2>4 DEF RS
  <2> QED BY ONLY <2>1, <2>5
<1>2. NoTwoTargets(s)
  BY DEF ListOK
<1> QED BY ONLY <1>1, <1>2 DEF ListOK

\* The ready list does not name the new operation yet.
LEMMA GrowReady ==
  ASSUME NEW m, CoreOK(m), Ring(m), NEW r, Free(m, r), NEW m2, Grows(m, m2, r),
         NEW list \in Seq(Links), ReadyOK(m, list), ~m2.station[r.q][r.i].queued
  PROVE  ReadyOK(m2, list)
<1>1. /\ ListOK(m, m.ready_queue) /\ ListOK(m, list)
      /\ Apart(m.ready_queue, list)
      /\ \A q \in Queues : \A i \in Slot(q) :
           In(m, q, i) /\ m.station[q][i].queued =>
             Listed(m, m.ready_queue, q, i) \/ Listed(m, list, q, i)
  BY ReadyParts
<1>2. m2.ready_queue = m.ready_queue /\ m.ready_queue \in Seq(Links)
  BY DEF Grows, SameLists, CoreOK
<1>3. ListOK(m2, m2.ready_queue) /\ ListOK(m2, list)
  BY <1>1, <1>2, GrowListOK
<1>4. Apart(m2.ready_queue, list)
  BY <1>1, <1>2
<1>5. ASSUME NEW q \in Queues, NEW i \in Slot(q), In(m2, q, i), m2.station[q][i].queued
      PROVE  Listed(m2, m2.ready_queue, q, i) \/ Listed(m2, list, q, i)
  <2>1. Elsewhere(r, q, i)
    BY <1>5 DEF Elsewhere
  <2>2. In(m, q, i) /\ m.station[q][i].queued
    <3>1. In(m, q, i)
      BY <1>5, <2>1, GrowIn DEF Grows
    <3> QED BY <1>5, <2>1, <3>1 DEF Grows
  <2>3. \A l : Targets(m2, l, q, i) <=> Targets(m, l, q, i)
    BY <2>1, GrowTargets
  <2>4. Listed(m, m.ready_queue, q, i) \/ Listed(m, list, q, i)
    BY <1>1, <2>2
  <2> QED BY ONLY <1>2, <2>3, <2>4 DEF Listed
<1> QED BY <1>3, <1>4, <1>5, ReadyParts

\* Neither does the event queue.
LEMMA GrowEvents ==
  ASSUME NEW m, CoreOK(m), Ring(m), NEW r, Free(m, r), NEW m2, Grows(m, m2, r),
         EventsOK(m), ~m2.station[r.q][r.i].issued
  PROVE  EventsOK(m2)
<1>1. m2.event_queue = m.event_queue /\ m.event_queue \in Seq(Links)
  BY DEF Grows, SameLists, CoreOK
<1>2. PICK s \in Seq(Links) : s = m.event_queue /\ m2.event_queue = s
  BY <1>1
<1>3. ASSUME NEW k \in 1..Len(s)
      PROVE  LinkOK(m2, s[k]) /\
             (RSLINK_VALID(m2, s[k]) => RS(m2, s[k]).issued /\ ~RS(m2, s[k]).completed)
  <2>1. PICK l \in Links : l = s[k]
    OBVIOUS
  <2>2. LinkOK(m, l) /\ (RSLINK_VALID(m, l) => RS(m, l).issued /\ ~RS(m, l).completed)
    BY <1>2, <2>1 DEF EventsOK
  <2>3. /\ LinkOK(m2, l) /\ (RSLINK_VALID(m2, l) <=> RSLINK_VALID(m, l))
        /\ RSLINK_VALID(m, l) => Elsewhere(r, l.q, l.i)
        /\ l.q \in Queues /\ l.i \in Slot(l.q)
    BY <2>2, GrowLink
  <2>4. Elsewhere(r, l.q, l.i) => /\ m2.station[l.q][l.i].issued = m.station[l.q][l.i].issued
                                  /\ m2.station[l.q][l.i].completed = m.station[l.q][l.i].completed
    BY <2>3 DEF Grows
  <2>5. LinkOK(m2, l) /\ (RSLINK_VALID(m2, l) => RS(m2, l).issued /\ ~RS(m2, l).completed)
    BY ONLY <2>2, <2>3, <2>4 DEF RS
  <2> QED BY ONLY <2>1, <2>5
<1>4. NoTwoTargets(s)
  BY <1>2 DEF EventsOK
<1>5. ASSUME NEW q \in Queues, NEW i \in Slot(q), In(m2, q, i), m2.station[q][i].issued,
             ~m2.station[q][i].completed
      PROVE  \E k \in 1..Len(s) : Targets(m2, s[k], q, i)
  <2>1. Elsewhere(r, q, i)
    BY <1>5 DEF Elsewhere
  <2>2. In(m, q, i)
    BY <1>5, <2>1, GrowIn DEF Grows
  <2>3. m.station[q][i].issued /\ ~m.station[q][i].completed
    BY <1>5, <2>1 DEF Grows
  <2>4. \A l : Targets(m2, l, q, i) <=> Targets(m, l, q, i)
    BY <2>1, GrowTargets
  <2>5. \E k \in 1..Len(s) : Targets(m, s[k], q, i)
    BY <1>2, <2>2, <2>3 DEF EventsOK
  <2> QED BY ONLY <2>4, <2>5
<1> QED BY ONLY <1>2, <1>3, <1>4, <1>5 DEF EventsOK

\* The new operation has not been released.
LEMMA GrowLoads ==
  ASSUME NEW m, CoreOK(m), Ring(m), NEW r, Free(m, r), NEW m2, Grows(m, m2, r), LoadsOK(m),
         ~m2.station[r.q][r.i].queued, ~m2.station[r.q][r.i].issued
  PROVE  LoadsOK(m2)
<1>1. PICK Q \in Queues : Q = "LSQ"
  BY DEF Queues
<1>0. r.q \in Queues /\ r.i \in Slot(r.q) /\ Distance(m, r.q, r.i) = m.num[r.q]
  BY FreeSlot
<1>2. ASSUME NEW i \in Slot(Q), Elsewhere(r, Q, i)
      PROVE  /\ SameStatic(m.station[Q][i], m2.station[Q][i])
             /\ m2.station[Q][i].queued = m.station[Q][i].queued
             /\ m2.station[Q][i].issued = m.station[Q][i].issued
             /\ m2.station[Q][i].idep_ready = m.station[Q][i].idep_ready
  BY <1>2 DEF Grows
<1>3. \A i \in Slot(Q) : /\ Distance(m2, Q, i) = Distance(m, Q, i)
                         /\ In(m2, Q, i) <=> In(m, Q, i) \/ ~Elsewhere(r, Q, i)
                         /\ Distance(m, Q, i) \in Nat
  BY GrowIn, DistanceIs DEF Grows
<1>4. ASSUME NEW i \in Slot(Q), NEW p \in Slot(Q), In(m, Q, p),
             Distance(m, Q, i) < Distance(m, Q, p)
      PROVE  Elsewhere(r, Q, i) /\ In(m, Q, i)
  <2>1. Distance(m, Q, i) \in Nat /\ Distance(m, Q, p) \in Nat /\ m.num[Q] \in Nat
    BY <1>3, Pointers
  <2>2. Distance(m, Q, i) < m.num[Q]
    BY ONLY <1>4, <2>1 DEF In
  <2>3. Q = r.q /\ i = r.i => Distance(m, Q, i) = m.num[Q]
    BY ONLY <1>0
  <2> QED BY ONLY <2>1, <2>2, <2>3 DEF In, Elsewhere
<1>5. ASSUME NEW s \in Slot(Q), NEW p \in Slot(Q), In(m2, Q, s), In(m2, Q, p),
             Distance(m2, Q, s) < Distance(m2, Q, p),
             m2.station[Q][s].op = "store", m2.station[Q][p].op = "load",
             m2.station[Q][p].queued \/ m2.station[Q][p].issued
      PROVE  /\ STORE_ADDR_READY(m2.station[Q][s])
             /\ \/ m2.station[Q][s].addr # m2.station[Q][p].addr
                \/ OPERANDS_READY(m2.station[Q][s])
                \/ \E t \in Slot(Q) :
                     /\ Distance(m2, Q, s) < Distance(m2, Q, t)
                     /\ Distance(m2, Q, t) < Distance(m2, Q, p)
                     /\ m2.station[Q][t].op = "store"
                     /\ m2.station[Q][t].addr = m2.station[Q][p].addr
  <2>1. Elsewhere(r, Q, p)
    BY <1>5 DEF Elsewhere
  <2>2. In(m, Q, p)
    BY <1>3, <1>5, <2>1
  <2>3. Distance(m, Q, s) < Distance(m, Q, p)
    BY <1>3, <1>5
  <2>4. Elsewhere(r, Q, s) /\ In(m, Q, s)
    BY <1>4, <2>2, <2>3
  <2>5. /\ SameStatic(m.station[Q][p], m2.station[Q][p])
        /\ m2.station[Q][p].queued = m.station[Q][p].queued
        /\ m2.station[Q][p].issued = m.station[Q][p].issued
        /\ SameStatic(m.station[Q][s], m2.station[Q][s])
        /\ m2.station[Q][s].idep_ready = m.station[Q][s].idep_ready
    BY <1>2, <2>1, <2>4
  <2>6. /\ m.station[Q][s].op = "store" /\ m.station[Q][p].op = "load"
        /\ m.station[Q][p].queued \/ m.station[Q][p].issued
        /\ m2.station[Q][s].addr = m.station[Q][s].addr
        /\ m2.station[Q][p].addr = m.station[Q][p].addr
    BY ONLY <1>5, <2>5 DEF SameStatic
  <2>7. /\ STORE_ADDR_READY(m2.station[Q][s]) <=> STORE_ADDR_READY(m.station[Q][s])
        /\ OPERANDS_READY(m2.station[Q][s]) <=> OPERANDS_READY(m.station[Q][s])
    BY ONLY <2>5 DEF STORE_ADDR_READY, OPERANDS_READY
  <2>8. /\ STORE_ADDR_READY(m.station[Q][s])
        /\ \/ m.station[Q][s].addr # m.station[Q][p].addr
           \/ OPERANDS_READY(m.station[Q][s])
           \/ \E t \in Slot(Q) :
                /\ Distance(m, Q, s) < Distance(m, Q, t)
                /\ Distance(m, Q, t) < Distance(m, Q, p)
                /\ m.station[Q][t].op = "store"
                /\ m.station[Q][t].addr = m.station[Q][p].addr
    BY ONLY <1>1, <2>2, <2>3, <2>4, <2>6, LoadsOK(m), s \in Slot(Q), p \in Slot(Q) DEF LoadsOK
  <2>9. ASSUME NEW t \in Slot(Q), Distance(m, Q, s) < Distance(m, Q, t),
               Distance(m, Q, t) < Distance(m, Q, p), m.station[Q][t].op = "store",
               m.station[Q][t].addr = m.station[Q][p].addr
        PROVE  /\ Distance(m2, Q, s) < Distance(m2, Q, t)
               /\ Distance(m2, Q, t) < Distance(m2, Q, p)
               /\ m2.station[Q][t].op = "store"
               /\ m2.station[Q][t].addr = m2.station[Q][p].addr
    <3>1. Elsewhere(r, Q, t)
      BY <1>4, <2>2, <2>9
    <3>2. SameStatic(m.station[Q][t], m2.station[Q][t])
      BY <1>2, <3>1
    <3> QED BY ONLY <1>3, <2>6, <2>9, <3>2, s \in Slot(Q), p \in Slot(Q), t \in Slot(Q)
            DEF SameStatic
  <2>10. (\E t \in Slot(Q) :
                /\ Distance(m, Q, s) < Distance(m, Q, t)
                /\ Distance(m, Q, t) < Distance(m, Q, p)
                /\ m.station[Q][t].op = "store"
                /\ m.station[Q][t].addr = m.station[Q][p].addr) =>
          \E t \in Slot(Q) :
                     /\ Distance(m2, Q, s) < Distance(m2, Q, t)
                     /\ Distance(m2, Q, t) < Distance(m2, Q, p)
                     /\ m2.station[Q][t].op = "store"
                     /\ m2.station[Q][t].addr = m2.station[Q][p].addr
    BY ONLY <2>9
  <2> QED BY ONLY <2>6, <2>7, <2>8, <2>10
<1> QED BY ONLY <1>1, <1>5 DEF LoadsOK

-----------------------------------------------------------------------------
\* The create vectors when an operation is added.

\* Slot i of queue q writes the register, on the path that counts.
Writer(m, q, i, d, name, all) ==
  Writes(m, q, i, d, name) /\ (all \/ ~m.station[q][i].spec_mode)

\* Precision, with the writers named.
LEMMA PreciseIs ==
  ASSUME NEW m, NEW v, NEW name, NEW all, NEW X
  PROVE  Precise(m, v, name, all, X) <=>
           /\ v # NONE =>
                /\ Writer(m, v.q, v.i, v.odep, name, all)
                /\ m.station[v.q][v.i].completed => <<v.q, v.i, v.odep>> \in X
                /\ \A q \in Queues : \A i \in Slot(q) : \A d \in 1..2 :
                     Writer(m, q, i, d, name, all) =>
                       m.station[q][i].seq <= m.station[v.q][v.i].seq
           /\ v = NONE =>
                \A q \in Queues : \A i \in Slot(q) : \A d \in 1..2 :
                  Writer(m, q, i, d, name, all) =>
                    \/ m.station[q][i].completed
                    \/ \E p \in Queues : \E j \in Slot(p) : \E e \in 1..2 :
                         Writer(m, p, j, e, name, all) /\ m.station[q][i].seq < m.station[p][j].seq
BY DEF Precise, Writer

\* The new operation does not write the register, or on the other path.
LEMMA GrowPrecise ==
  ASSUME NEW m, CoreOK(m), Ring(m), NEW r, Free(m, r), NEW m2, Grows(m, m2, r),
         NEW v \in Creators \cup {NONE}, NEW name \in Names, NEW all,
         Precise(m, v, name, all, {}),
         \A d \in 1..2 : m2.station[r.q][r.i].onames[d] = name =>
                           ~all /\ m2.station[r.q][r.i].spec_mode
  PROVE  Precise(m2, v, name, all, {})
<1>0. r.q \in Queues /\ r.i \in Slot(r.q) /\ ~In(m, r.q, r.i)
  BY FreeSlot
<1>1. ASSUME NEW q \in Queues, NEW i \in Slot(q), NEW d \in 1..2
      PROVE  /\ Writer(m2, q, i, d, name, all) <=> Writer(m, q, i, d, name, all)
             /\ Writer(m, q, i, d, name, all) =>
                  /\ m2.station[q][i].seq = m.station[q][i].seq
                  /\ m2.station[q][i].completed = m.station[q][i].completed
  <2>1. In(m2, q, i) <=> In(m, q, i) \/ ~Elsewhere(r, q, i)
    BY GrowIn DEF Grows
  <2>2. CASE Elsewhere(r, q, i)
    <3>1. /\ SameStatic(m.station[q][i], m2.station[q][i])
          /\ m2.station[q][i].completed = m.station[q][i].completed
      BY <2>2 DEF Grows
    <3> QED BY ONLY <2>1, <2>2, <3>1 DEF Writer, Writes, SameStatic
  <2>3. CASE ~Elsewhere(r, q, i)
    <3>1. q = r.q /\ i = r.i
      BY <2>3 DEF Elsewhere
    <3>2. ~Writer(m, q, i, d, name, all)
      BY ONLY <1>0, <3>1 DEF Writer, Writes
    <3>3. ~Writer(m2, q, i, d, name, all)
      BY <3>1 DEF Writer, Writes
    <3> QED BY ONLY <3>2, <3>3
  <2> QED BY <2>2, <2>3
<1>2. CASE v = NONE
  <2>1. ASSUME NEW q \in Queues, NEW i \in Slot(q), NEW d \in 1..2,
               Writer(m2, q, i, d, name, all)
        PROVE  \/ m2.station[q][i].completed
               \/ \E p \in Queues : \E j \in Slot(p) : \E e \in 1..2 :
                    Writer(m2, p, j, e, name, all) /\ m2.station[q][i].seq < m2.station[p][j].seq
    <3>1. /\ Writer(m, q, i, d, name, all)
          /\ m2.station[q][i].seq = m.station[q][i].seq
          /\ m2.station[q][i].completed = m.station[q][i].completed
      BY <1>1, <2>1
    <3>2. \/ m.station[q][i].completed
          \/ \E p \in Queues : \E j \in Slot(p) : \E e \in 1..2 :
               Writer(m, p, j, e, name, all) /\ m.station[q][i].seq < m.station[p][j].seq
      BY <1>2, <3>1, PreciseIs
    <3>3. ASSUME NEW p \in Queues, NEW j \in Slot(p), NEW e \in 1..2,
                 Writer(m, p, j, e, name, all), m.station[q][i].seq < m.station[p][j].seq
          PROVE  Writer(m2, p, j, e, name, all) /\ m2.station[q][i].seq < m2.station[p][j].seq
      BY <1>1, <3>1, <3>3
    <3> QED BY ONLY <3>1, <3>2, <3>3
  <2> QED BY <1>2, <2>1, PreciseIs
<1>3. CASE v # NONE
  <2>1. v.q \in Queues /\ v.i \in Slot(v.q) /\ v.odep \in 1..2
    BY <1>3, CreatorType
  <2>2. /\ Writer(m, v.q, v.i, v.odep, name, all)
        /\ m.station[v.q][v.i].completed => <<v.q, v.i, v.odep>> \in {}
        /\ \A q \in Queues : \A i \in Slot(q) : \A d \in 1..2 :
             Writer(m, q, i, d, name, all) => m.station[q][i].seq <= m.station[v.q][v.i].seq
    BY <1>3, PreciseIs
  <2>3. /\ Writer(m2, v.q, v.i, v.odep, name, all)
        /\ m2.station[v.q][v.i].seq = m.station[v.q][v.i].seq
        /\ m2.station[v.q][v.i].completed = m.station[v.q][v.i].completed
    BY <1>1, <2>1, <2>2
  <2>4. ASSUME NEW q \in Queues, NEW i \in Slot(q), NEW d \in 1..2,
               Writer(m2, q, i, d, name, all)
        PROVE  m2.station[q][i].seq <= m2.station[v.q][v.i].seq
    <3>1. /\ Writer(m, q, i, d, name, all)
          /\ m2.station[q][i].seq = m.station[q][i].seq
      BY <1>1, <2>4
    <3> QED BY ONLY <2>2, <2>3, <3>1, q \in Queues, i \in Slot(q), d \in 1..2
  <2> QED BY ONLY <1>3, <2>2, <2>3, <2>4, PreciseIs
<1> QED BY <1>2, <1>3

\* The new operation is the youngest writer.
LEMMA NewPrecise ==
  ASSUME NEW m, CoreOK(m), Ring(m), NEW r, Free(m, r), NEW m2, CoreOK(m2), Grows(m, m2, r),
         NEW k \in 1..2, NEW name \in Names, NEW all,
         AllOlder(m, m2.station[r.q][r.i].seq), ~m2.station[r.q][r.i].completed,
         m2.station[r.q][r.i].onames[k] = name, all \/ ~m2.station[r.q][r.i].spec_mode
  PROVE  Precise(m2, Creator(r, k), name, all, {})
<1>0. r.q \in Queues /\ r.i \in Slot(r.q)
  BY FreeSlot
<1>1. PICK v : v = Creator(r, k)
  OBVIOUS
<1>2. v # NONE /\ v.q = r.q /\ v.i = r.i /\ v.odep = k
  <2>1. v \in Creators
    BY <1>0, <1>1, CreatorIn
  <2>2. v # NONE
    BY <2>1, CreatorType
  <2> QED BY <1>1, <2>2 DEF Creator
<1>3. In(m2, r.q, r.i)
  BY <1>0, GrowIn DEF Grows, Elsewhere
<1>4. Writer(m2, v.q, v.i, v.odep, name, all)
  BY <1>2, <1>3 DEF Writer, Writes
<1>5. ASSUME NEW q \in Queues, NEW i \in Slot(q), NEW d \in 1..2,
             Writer(m2, q, i, d, name, all)
      PROVE  m2.station[q][i].seq <= m2.station[v.q][v.i].seq
  <2>1. m2.station[q][i].seq \in Nat /\ m2.station[r.q][r.i].seq \in Nat
    BY <1>0, StationType, StationFields
  <2>2. CASE Elsewhere(r, q, i)
    <3>1. In(m, q, i)
      BY <1>5, <2>2, GrowIn DEF Grows, Writer, Writes
    <3>2. m.station[q][i].seq < m2.station[r.q][r.i].seq
      BY <3>1 DEF AllOlder
    <3>3. m2.station[q][i].seq = m.station[q][i].seq
      BY <2>2 DEF Grows, SameStatic
    <3> QED BY ONLY <1>2, <2>1, <3>2, <3>3
  <2>3. CASE ~Elsewhere(r, q, i)
    BY ONLY <1>2, <2>1, <2>3 DEF Elsewhere
  <2> QED BY <2>2, <2>3
<1>6. ~m2.station[v.q][v.i].completed
  BY <1>2
<1>7. Precise(m2, v, name, all, {})
  BY ONLY <1>2, <1>4, <1>5, <1>6, PreciseIs
<1> QED BY <1>1, <1>7

\* The create vectors name the new operation for its outputs, and are precise.
LEMMA GrowCreators ==
  ASSUME NEW m, CoreOK(m), Ring(m), NEW r, Free(m, r), NEW m2, CoreOK(m2), Grows(m, m2, r),
         spec_mode \in BOOLEAN, ~spec_mode => m.use_spec_cv = {}, CreatorsOK(m, {}),
         NEW out, OnamesAre(m2.station[r.q][r.i], out), Vectors(m, m2, r, out),
         NEW op, NEW addr, NEW pc, NEW seq,
         Fresh(m2.station[r.q][r.i], r.q, op, addr, pc, seq), AllOlder(m, seq)
  PROVE  CreatorsOK(m2, {})
<1>0. /\ r.q \in Queues /\ r.i \in Slot(r.q) /\ ~In(m, r.q, r.i)
      /\ ~m2.station[r.q][r.i].completed
      /\ m2.station[r.q][r.i].spec_mode <=> spec_mode
      /\ m2.station[r.q][r.i].seq = seq
  BY FreeSlot DEF Fresh
<1>1. SUFFICES ASSUME NEW name \in Names
               PROVE  /\ Precise(m2, m2.create_vector[name], name, FALSE, {})
                      /\ Precise(m2, CREATE_VECTOR(m2, name), name, TRUE, {})
                      /\ name \in m2.use_spec_cv /\ m2.spec_create_vector[name] # NONE =>
                           RS(m2, m2.spec_create_vector[name]).spec_mode
  BY DEF CreatorsOK
<1>2. /\ Precise(m, m.create_vector[name], name, FALSE, {})
      /\ Precise(m, CREATE_VECTOR(m, name), name, TRUE, {})
      /\ name \in m.use_spec_cv /\ m.spec_create_vector[name] # NONE =>
           RS(m, m.spec_create_vector[name]).spec_mode
  BY DEF CreatorsOK
<1>3. /\ m.create_vector[name] \in Creators \cup {NONE}
      /\ m.spec_create_vector[name] \in Creators \cup {NONE}
      /\ CREATE_VECTOR(m, name) \in Creators \cup {NONE}
  BY VectorType
<1>4. /\ m2.create_vector[name] = IF Made(out, name) /\ ~spec_mode THEN NewCreator(r, out, name)
                                                                  ELSE m.create_vector[name]
      /\ m2.spec_create_vector[name] = IF Made(out, name) /\ spec_mode THEN NewCreator(r, out, name)
                                                                  ELSE m.spec_create_vector[name]
      /\ name \in m2.use_spec_cv <=> name \in m.use_spec_cv \/ (Made(out, name) /\ spec_mode)
  BY DEF Vectors
<1>5. PICK k \in 1..2 : k = IF out[2] = name THEN 2 ELSE 1
  OBVIOUS
<1>6. NewCreator(r, out, name) = Creator(r, k)
  BY <1>5 DEF NewCreator
<1>7. Made(out, name) => m2.station[r.q][r.i].onames[k] = name
  BY <1>5 DEF Made, OnamesAre
<1>8. ~Made(out, name) => \A d \in 1..2 : m2.station[r.q][r.i].onames[d] # name
  BY DEF Made, OnamesAre
<1>9. AllOlder(m, m2.station[r.q][r.i].seq)
  BY <1>0
<1>10. ASSUME NEW all, Made(out, name), all \/ ~spec_mode
       PROVE  Precise(m2, Creator(r, k), name, all, {})
  BY <1>0, <1>7, <1>9, <1>10, NewPrecise
<1>11. ASSUME NEW all, NEW v \in Creators \cup {NONE}, Precise(m, v, name, all, {}),
              Made(out, name) => ~all /\ spec_mode
       PROVE  Precise(m2, v, name, all, {})
  <2>1. \A d \in 1..2 : m2.station[r.q][r.i].onames[d] = name =>
                           ~all /\ m2.station[r.q][r.i].spec_mode
    BY ONLY <1>0, <1>8, <1>11
  <2> QED BY <1>11, <2>1, GrowPrecise
<1>12. Precise(m2, m2.create_vector[name], name, FALSE, {})
  <2>1. CASE Made(out, name) /\ ~spec_mode
    <3>1. m2.create_vector[name] = Creator(r, k)
      BY ONLY <1>4, <1>6, <2>1
    <3>2. Precise(m2, Creator(r, k), name, FALSE, {})
      BY <1>10, <2>1
    <3> QED BY ONLY <3>1, <3>2
  <2>2. CASE ~(Made(out, name) /\ ~spec_mode)
    <3>1. m2.create_vector[name] = m.create_vector[name]
      BY ONLY <1>4, <2>2
    <3>2. Precise(m2, m.create_vector[name], name, FALSE, {})
      BY <1>2, <1>3, <1>11, <2>2
    <3> QED BY ONLY <3>1, <3>2
  <2> QED BY <2>1, <2>2
<1>13. Precise(m2, CREATE_VECTOR(m2, name), name, TRUE, {})
  <2>1. CASE Made(out, name)
    <3>1. CREATE_VECTOR(m2, name) = Creator(r, k)
      <4>1. CASE spec_mode
        BY ONLY <1>4, <1>6, <2>1, <4>1 DEF CREATE_VECTOR
      <4>2. CASE ~spec_mode
        <5>1. name \notin m2.use_spec_cv
          BY <1>4, <4>2
        <5> QED BY ONLY <1>4, <1>6, <2>1, <4>2, <5>1 DEF CREATE_VECTOR
      <4> QED BY <4>1, <4>2
    <3>2. Precise(m2, Creator(r, k), name, TRUE, {})
      BY <1>10, <2>1
    <3> QED BY ONLY <3>1, <3>2
  <2>2. CASE ~Made(out, name)
    <3>1. CREATE_VECTOR(m2, name) = CREATE_VECTOR(m, name)
      BY ONLY <1>4, <2>2 DEF CREATE_VECTOR
    <3>2. Precise(m2, CREATE_VECTOR(m, name), name, TRUE, {})
      BY <1>2, <1>3, <1>11, <2>2
    <3> QED BY ONLY <3>1, <3>2
  <2> QED BY <2>1, <2>2
<1>14. ASSUME name \in m2.use_spec_cv, m2.spec_create_vector[name] # NONE
       PROVE  RS(m2, m2.spec_create_vector[name]).spec_mode
  <2>1. CASE Made(out, name) /\ spec_mode
    <3>1. m2.spec_create_vector[name] = Creator(r, k)
      BY ONLY <1>4, <1>6, <2>1
    <3> QED BY ONLY <1>0, <2>1, <3>1 DEF RS, Creator
  <2>2. CASE ~(Made(out, name) /\ spec_mode)
    <3>1. PICK v : v = m.spec_create_vector[name]
      OBVIOUS
    <3>2. m2.spec_create_vector[name] = v /\ name \in m.use_spec_cv /\ v # NONE
      BY ONLY <1>4, <1>14, <2>2, <3>1
    <3>3. v = CREATE_VECTOR(m, name)
      BY <3>1, <3>2 DEF CREATE_VECTOR
    <3>4. v.q \in Queues /\ v.i \in Slot(v.q)
      BY <1>3, <3>1, <3>2, CreatorType
    <3>5. In(m, v.q, v.i)
      BY <1>2, <3>2, <3>3, PreciseIs DEF Writer, Writes
    <3>6. Elsewhere(r, v.q, v.i)
      BY ONLY <1>0, <3>5 DEF Elsewhere
    <3>7. m2.station[v.q][v.i].spec_mode = m.station[v.q][v.i].spec_mode
      BY <3>4, <3>6 DEF Grows, SameStatic
    <3> QED BY ONLY <1>2, <3>1, <3>2, <3>7 DEF RS
  <2> QED BY <2>1, <2>2
<1> QED BY ONLY <1>12, <1>13, <1>14

\* Sound, but for the pairs of the two queues.
Base(m, mode, last, list, N) ==
  /\ CoreOK(m) /\ Ring(m) /\ Kinds(m) /\ Ordered(m, last)
  /\ Boundary(m, mode) /\ FlagsOK(m, N) /\ ReadyOK(m, list) /\ EventsOK(m)
  /\ ChainsOK(m, {}, {}) /\ CreatorsOK(m, {}) /\ LoadsOK(m)

\* The invariant without the pairs, while half of a memory instruction is
\* dispatched.
LEMMA SoundBase ==
  ASSUME NEW m, NEW mode, NEW last, NEW list, NEW N
  PROVE  Sound(m, mode, last, list, N, {}, {}) <=> Base(m, mode, last, list, N) /\ Paired(m)
BY DEF Sound, Base

\* The operations each queue takes, and their outputs.
Outs(q, op, out) ==
  /\ out[1] \in Names \cup {NA} /\ out[2] \in Names \cup {NA}
  /\ q = "LSQ" <=> op \in {"load", "store"}
  /\ op = "agen" => out[1] = DTMP /\ out[2] = NA
  /\ op # "agen" => out[1] # DTMP /\ out[2] # DTMP
  /\ op = "store" => out[1] = NA /\ out[2] = NA
  /\ out[1] = out[2] => out[1] = NA

\* A new operation with the outputs of its instruction has the right kind.
LEMMA NewKind ==
  ASSUME NEW b \in Station, NEW q \in Queues, NEW op, NEW out, Outs(q, op, out),
         NEW addr, NEW pc, NEW seq, Fresh(b, q, op, addr, pc, seq), OnamesAre(b, out)
  PROVE  Kind(q, b)
<1>1. b.onames \in [1..2 -> Names \cup {NA}]
  BY StationFields
<1>2. b.onames = <<b.onames[1], b.onames[2]>>
  BY ONLY <1>1
<1>3. op = "agen" => b.onames = <<DTMP, NA>>
  BY ONLY <1>2, Outs(q, op, out), OnamesAre(b, out) DEF Outs, OnamesAre
<1> QED BY ONLY <1>3, Outs(q, op, out), OnamesAre(b, out), Fresh(b, q, op, addr, pc, seq)
           DEF Outs, OnamesAre, Fresh, Kind

LastOf(op, seq) == IF op = "agen" THEN seq + 1 ELSE seq

\* The speculative create vector is in use only while mis-speculating.
UseOK(m) == ~spec_mode => m.use_spec_cv = {}

Inputs(in) == \A k \in 1..3 : in[k] \in Names \cup {NA}

\* Operation op can have number seq after the operations up to last, and last2
\* is the last number then.
Numbered(last, op, seq, last2) ==
  /\ last \in Nat /\ seq \in Nat /\ last2 \in Nat
  /\ last <= last2 /\ LastOf(op, seq) <= last2

\* An operation is added.
LEMMA GrowBase ==
  ASSUME NEW m, NEW last \in Nat, NEW list \in Seq(Links), NEW N,
         Base(m, spec_mode, last, list, N),
         NEW r, Free(m, r), NEW op \in Ops, NEW addr \in Nat, NEW f,
         f.PC \in Nat, NEW npc \in Nat, NEW seq \in Nat, spec_mode \in BOOLEAN,
         UseOK(m),
         AllOlder(m, seq), QueueOlder(m, r.q, seq),
         NEW last2, Numbered(last, op, seq, last2),
         NEW in, Inputs(in),
         NEW out, Outs(r.q, op, out),
         NEW m2, m2 = Allocate(m, r, op, addr, f, npc, seq, in, out)
  PROVE  /\ Base(m2, spec_mode, last2, list, With(N, r)) /\ Grows(m, m2, r)
         /\ Fresh(m2.station[r.q][r.i], r.q, op, addr, f.PC, seq)
         /\ ~spec_mode => SameUse(m, m2)
<1>1. /\ CoreOK(m) /\ Ring(m) /\ Kinds(m) /\ Ordered(m, last)
      /\ Boundary(m, spec_mode) /\ FlagsOK(m, N) /\ ReadyOK(m, list) /\ EventsOK(m)
      /\ ChainsOK(m, {}, {}) /\ CreatorsOK(m, {}) /\ LoadsOK(m)
  BY DEF Base
<1>0. (~spec_mode => m.use_spec_cv = {}) /\ \A k \in 1..3 : in[k] \in Names \cup {NA}
  BY DEF UseOK, Inputs
<1>2. /\ out[1] \in Names \cup {NA} /\ out[2] \in Names \cup {NA}
      /\ out[1] = out[2] => out[1] = NA
  BY DEF Outs
<1>3. /\ CoreOK(m2) /\ Ring(m2) /\ Grows(m, m2, r) /\ ChainsOK(m2, {}, {})
      /\ Fresh(m2.station[r.q][r.i], r.q, op, addr, f.PC, seq)
      /\ OnamesAre(m2.station[r.q][r.i], out) /\ Vectors(m, m2, r, out)
  BY <1>0, <1>1, <1>2, AllocateIs
<1>4. r.q \in Queues /\ r.i \in Slot(r.q)
  BY <1>1, FreeSlot
<1>5. m2.station[r.q][r.i] \in Station
  BY <1>3, <1>4, StationType
<1>6. Kind(r.q, m2.station[r.q][r.i])
  BY <1>3, <1>4, <1>5, NewKind
<1>7. Kinds(m2)
  BY <1>1, <1>3, <1>6, GrowKinds
<1>8. /\ m2.station[r.q][r.i].seq = seq /\ ~m2.station[r.q][r.i].queued
      /\ ~m2.station[r.q][r.i].issued /\ (m2.station[r.q][r.i].ea_comp <=> op = "agen")
  BY <1>3 DEF Fresh
<1>9. LastSeq(m2.station[r.q][r.i]) <= last2 /\ last2 \in Nat /\ last <= last2
  BY ONLY <1>8, Numbered(last, op, seq, last2) DEF LastOf, LastSeq, Numbered
<1>10. Ordered(m2, last2)
  BY <1>1, <1>3, <1>8, <1>9, GrowOrdered
<1>11. Boundary(m2, spec_mode)
  BY <1>1, <1>3, GrowBoundary
<1>12. FlagsOK(m2, With(N, r))
  BY <1>1, <1>3, GrowFlags
<1>13. ReadyOK(m2, list)
  BY <1>1, <1>3, <1>8, GrowReady
<1>14. EventsOK(m2)
  BY <1>1, <1>3, <1>8, GrowEvents
<1>15. LoadsOK(m2)
  BY <1>1, <1>3, <1>8, GrowLoads
<1>16. CreatorsOK(m2, {})
  BY <1>0, <1>1, <1>3, GrowCreators
<1>17. ~spec_mode => SameUse(m, m2)
  BY ONLY <1>3 DEF Vectors
<1>18. Base(m2, spec_mode, last2, list, With(N, r))
  BY ONLY <1>3, <1>7, <1>10, <1>11, <1>12, <1>13, <1>14, <1>15, <1>16 DEF Base
<1> QED BY <1>3, <1>17, <1>18

\* A pair does not change when another operation is added.
LEMMA GrowPair ==
  ASSUME NEW m, NEW r, NEW m2, Grows(m, m2, r), NEW i \in Slot("RUU"), NEW j \in Slot("LSQ"),
         Elsewhere(r, "RUU", i), Elsewhere(r, "LSQ", j)
  PROVE  Pair(m2, i, j) <=> Pair(m, i, j)
<1>1. "RUU" \in Queues /\ "LSQ" \in Queues
  BY DEF Queues
<1>2. /\ SameStatic(m.station["RUU"][i], m2.station["RUU"][i])
      /\ SameStatic(m.station["LSQ"][j], m2.station["LSQ"][j])
  BY <1>1 DEF Grows
<1> QED BY ONLY <1>2 DEF SameStatic, Pair

\* An operation that is not an address computation is in no pair.
LEMMA PairedOp ==
  ASSUME NEW m, CoreOK(m), Ring(m), NEW r, Free(m, r), r.q = "RUU", NEW m2, Grows(m, m2, r),
         Paired(m), ~m2.station[r.q][r.i].ea_comp
  PROVE  Paired(m2)
<1>0. r.i \in Slot("RUU") /\ ~In(m, "RUU", r.i)
  BY FreeSlot
<1>a. "RUU" \in Queues /\ "LSQ" \in Queues /\ "RUU" # "LSQ"
  BY DEF Queues
<1>1. \A i \in Slot("RUU") : In(m2, "RUU", i) <=> In(m, "RUU", i) \/ ~Elsewhere(r, "RUU", i)
  BY <1>a, GrowIn DEF Grows
<1>2. \A j \in Slot("LSQ") : (In(m2, "LSQ", j) <=> In(m, "LSQ", j)) /\ Elsewhere(r, "LSQ", j)
  <2>1. \A j \in Slot("LSQ") : Elsewhere(r, "LSQ", j)
    BY <1>a DEF Elsewhere
  <2> QED BY <1>a, <2>1, GrowIn DEF Grows
<1>3. \A i \in Slot("RUU"), j \in Slot("LSQ") :
        Elsewhere(r, "RUU", i) => (Pair(m2, i, j) <=> Pair(m, i, j))
  BY <1>2, GrowPair
<1>4. ASSUME NEW j \in Slot("LSQ"), In(m2, "LSQ", j)
      PROVE  \E i \in Slot("RUU") : In(m2, "RUU", i) /\ Pair(m2, i, j)
  <2>1. PICK i \in Slot("RUU") : In(m, "RUU", i) /\ Pair(m, i, j)
    BY <1>2, <1>4 DEF Paired
  <2>2. Elsewhere(r, "RUU", i)
    BY ONLY <1>0, <2>1 DEF Elsewhere
  <2> QED BY ONLY <1>1, <1>3, <2>1, <2>2, i \in Slot("RUU"), j \in Slot("LSQ")
<1>5. ASSUME NEW i \in Slot("RUU"), In(m2, "RUU", i), m2.station["RUU"][i].ea_comp
      PROVE  \E j \in Slot("LSQ") : In(m2, "LSQ", j) /\ Pair(m2, i, j)
  <2>1. Elsewhere(r, "RUU", i)
    BY <1>5 DEF Elsewhere
  <2>2. In(m, "RUU", i) /\ m.station["RUU"][i].ea_comp
    <3>1. SameStatic(m.station["RUU"][i], m2.station["RUU"][i])
      BY <1>a, <2>1 DEF Grows
    <3> QED BY ONLY <1>1, <1>5, <2>1, <3>1 DEF SameStatic
  <2>3. PICK j \in Slot("LSQ") : In(m, "LSQ", j) /\ Pair(m, i, j)
    BY <2>2 DEF Paired
  <2> QED BY ONLY <1>2, <1>3, <2>1, <2>3, i \in Slot("RUU"), j \in Slot("LSQ")
<1> QED BY ONLY <1>4, <1>5 DEF Paired

\* An address computation and its memory access are a new pair.
LEMMA PairedMem ==
  ASSUME NEW m, CoreOK(m), Ring(m), NEW r, Free(m, r), r.q = "RUU", NEW m1, CoreOK(m1), Ring(m1),
         Grows(m, m1, r), NEW l, Free(m1, l), l.q = "LSQ", NEW m2, Grows(m1, m2, l),
         Paired(m), Pair(m2, r.i, l.i)
  PROVE  Paired(m2)
<1>0. r.i \in Slot("RUU") /\ ~In(m, "RUU", r.i) /\ l.i \in Slot("LSQ") /\ ~In(m1, "LSQ", l.i)
  BY FreeSlot
<1>a. "RUU" \in Queues /\ "LSQ" \in Queues /\ "RUU" # "LSQ"
  BY DEF Queues
<1>1. \A i \in Slot("RUU") : In(m2, "RUU", i) <=> In(m, "RUU", i) \/ i = r.i
  <2>1. \A i \in Slot("RUU") : In(m1, "RUU", i) <=> In(m, "RUU", i) \/ ~Elsewhere(r, "RUU", i)
    BY <1>a, GrowIn DEF Grows
  <2>2. \A i \in Slot("RUU") : In(m2, "RUU", i) <=> In(m1, "RUU", i) \/ ~Elsewhere(l, "RUU", i)
    BY <1>a, GrowIn DEF Grows
  <2> QED BY ONLY <1>a, <2>1, <2>2, r.q = "RUU", l.q = "LSQ" DEF Elsewhere
<1>2. \A j \in Slot("LSQ") : In(m2, "LSQ", j) <=> In(m, "LSQ", j) \/ j = l.i
  <2>1. \A j \in Slot("LSQ") : In(m1, "LSQ", j) <=> In(m, "LSQ", j) \/ ~Elsewhere(r, "LSQ", j)
    BY <1>a, GrowIn DEF Grows
  <2>2. \A j \in Slot("LSQ") : In(m2, "LSQ", j) <=> In(m1, "LSQ", j) \/ ~Elsewhere(l, "LSQ", j)
    BY <1>a, GrowIn DEF Grows
  <2> QED BY ONLY <1>a, <2>1, <2>2, r.q = "RUU", l.q = "LSQ" DEF Elsewhere
<1>3. ASSUME NEW i \in Slot("RUU"), NEW j \in Slot("LSQ"), i # r.i, j # l.i
      PROVE  Pair(m2, i, j) <=> Pair(m, i, j)
  <2>1. /\ Elsewhere(r, "RUU", i) /\ Elsewhere(r, "LSQ", j)
        /\ Elsewhere(l, "RUU", i) /\ Elsewhere(l, "LSQ", j)
    BY ONLY <1>3, <1>a, r.q = "RUU", l.q = "LSQ" DEF Elsewhere
  <2>2. Pair(m1, i, j) <=> Pair(m, i, j)
    BY <2>1, GrowPair
  <2>3. Pair(m2, i, j) <=> Pair(m1, i, j)
    BY <2>1, GrowPair
  <2> QED BY ONLY <2>2, <2>3
<1>b. ~In(m, "LSQ", l.i)
  <2>1. In(m, "LSQ", l.i) => In(m1, "LSQ", l.i)
    BY <1>0, <1>a, GrowIn DEF Grows
  <2> QED BY <1>0, <2>1
<1>4. ASSUME NEW j \in Slot("LSQ"), In(m2, "LSQ", j)
      PROVE  \E i \in Slot("RUU") : In(m2, "RUU", i) /\ Pair(m2, i, j)
  <2>1. CASE j = l.i
    BY ONLY <1>0, <1>1, <2>1, Pair(m2, r.i, l.i)
  <2>2. CASE j # l.i
    <3>1. In(m, "LSQ", j)
      BY <1>2, <1>4, <2>2
    <3>2. PICK i \in Slot("RUU") : In(m, "RUU", i) /\ Pair(m, i, j)
      BY <3>1 DEF Paired
    <3>3. i # r.i
      BY ONLY <1>0, <3>2
    <3>4. Pair(m2, i, j)
      BY <1>3, <2>2, <3>2, <3>3
    <3> QED BY ONLY <1>1, <3>2, <3>4, i \in Slot("RUU")
  <2> QED BY <2>1, <2>2
<1>5. ASSUME NEW i \in Slot("RUU"), In(m2, "RUU", i), m2.station["RUU"][i].ea_comp
      PROVE  \E j \in Slot("LSQ") : In(m2, "LSQ", j) /\ Pair(m2, i, j)
  <2>1. CASE i = r.i
    BY ONLY <1>0, <1>2, <2>1, Pair(m2, r.i, l.i)
  <2>2. CASE i # r.i
    <3>1. In(m, "RUU", i)
      BY <1>1, <1>5, <2>2
    <3>2. m.station["RUU"][i].ea_comp
      <4>1. Elsewhere(r, "RUU", i) /\ Elsewhere(l, "RUU", i)
        BY ONLY <1>a, <2>2, l.q = "LSQ" DEF Elsewhere
      <4>2. SameStatic(m.station["RUU"][i], m1.station["RUU"][i])
        BY <1>a, <4>1 DEF Grows
      <4>3. SameStatic(m1.station["RUU"][i], m2.station["RUU"][i])
        BY <1>a, <4>1 DEF Grows
      <4> QED BY ONLY <1>5, <4>2, <4>3 DEF SameStatic
    <3>3. PICK j \in Slot("LSQ") : In(m, "LSQ", j) /\ Pair(m, i, j)
      BY <3>1, <3>2 DEF Paired
    <3>4. j # l.i
      BY ONLY <1>b, <3>3
    <3>5. Pair(m2, i, j)
      BY <1>3, <2>2, <3>3, <3>4
    <3> QED BY ONLY <1>2, <3>3, <3>5, j \in Slot("LSQ")
  <2> QED BY <2>1, <2>2
<1> QED BY ONLY <1>4, <1>5 DEF Paired

-----------------------------------------------------------------------------
(*****************************************************************************)
(* Dispatch.                                                                 *)
(*****************************************************************************)
Without(N, r) == N \ {<<r.q, r.i>>}

\* m2 is m, in which r may have been scheduled.
Scheduled(m, m2, r) ==
  /\ Same(m, m2) /\ SameVectors(m, m2)
  /\ \A q \in Queues : \A i \in Slot(q) :
       /\ m2.station[q][i].completed = m.station[q][i].completed
       /\ m2.station[q][i].issued = m.station[q][i].issued
       /\ Elsewhere(r, q, i) => m2.station[q][i].queued = m.station[q][i].queued

\* A new operation, which is not a load, is scheduled at once if it has its operands.
LEMMA EnqueueIfReadySound ==
  ASSUME NEW m, NEW mode, NEW last, NEW list \in Seq(Links), NEW N,
         Sound(m, mode, last, list, N, {}, {}),
         NEW r, r.q \in Queues, r.i \in Slot(r.q), In(m, r.q, r.i),
         ~m.station[r.q][r.i].queued, ~m.station[r.q][r.i].issued,
         m.station[r.q][r.i].op # "load",
         NEW m2, m2 = EnqueueIfReady(m, r)
  PROVE  Sound(m2, mode, last, list, Without(N, r), {}, {}) /\ Scheduled(m, m2, r)
<1>1. CASE OPERANDS_READY(m.station[r.q][r.i])
  <2>1. m2 = readyq_enqueue(m, r)
    BY <1>1 DEF EnqueueIfReady, RS
  <2>2. /\ Sound(m2, mode, last, list, N \ {<<r.q, r.i>>}, {}, {})
        /\ Same(m, m2) /\ SameVectors(m, m2) /\ Enqueued(m, m2, r)
    BY <1>1, <2>1, EnqueueSound
  <2>3. Scheduled(m, m2, r)
    <3>1. ASSUME NEW q \in Queues, NEW i \in Slot(q)
          PROVE  /\ m2.station[q][i].completed = m.station[q][i].completed
                 /\ m2.station[q][i].issued = m.station[q][i].issued
      BY ONLY <2>2, q \in Queues, i \in Slot(q) DEF Enqueued
    <3>2. ASSUME NEW q \in Queues, NEW i \in Slot(q), Elsewhere(r, q, i)
          PROVE  m2.station[q][i].queued = m.station[q][i].queued
      <4>1. m2.station[q][i].queued <=> m.station[q][i].queued
        BY ONLY <2>2, <3>2, q \in Queues, i \in Slot(q) DEF Enqueued, Elsewhere
      <4>2. m2.station[q][i] \in Station /\ m.station[q][i] \in Station
        <5>1. CoreOK(m) /\ CoreOK(m2)
          BY ONLY <2>2, Sound(m, mode, last, list, N, {}, {}) DEF Sound
        <5> QED BY <5>1, StationType
      <4>3. m2.station[q][i].queued \in BOOLEAN /\ m.station[q][i].queued \in BOOLEAN
        BY <4>2, StationFields
      <4> QED BY ONLY <4>1, <4>3, Zenon
    <3> QED BY ONLY <2>2, <3>1, <3>2 DEF Scheduled
  <2> QED BY ONLY <2>2, <2>3 DEF Without
<1>2. CASE ~OPERANDS_READY(m.station[r.q][r.i])
  <2>1. m2 = m
    BY <1>2 DEF EnqueueIfReady, RS
  <2>2. FlagsOK(m, Without(N, r))
    <3>1. FlagsOK(m, N)
      BY DEF Sound
    <3> QED BY ONLY <1>2, <3>1 DEF FlagsOK, Without
  <2>3. Sound(m, mode, last, list, Without(N, r), {}, {})
    BY ONLY <2>2, Sound(m, mode, last, list, N, {}, {}) DEF Sound
  <2>4. Scheduled(m, m, r)
    BY ONLY TRUE DEF Scheduled, Same, SameRing, SameStatic, SameVectors
  <2> QED BY ONLY <2>1, <2>3, <2>4
<1> QED BY <1>1, <1>2

\* A load is scheduled later.
LEMMA LoadWaits ==
  ASSUME NEW m, NEW mode, NEW last, NEW list, NEW N,
         Sound(m, mode, last, list, N, {}, {}),
         NEW r, m.station[r.q][r.i].op = "load"
  PROVE  Sound(m, mode, last, list, Without(N, r), {}, {})
<1>1. FlagsOK(m, Without(N, r))
  <2>1. FlagsOK(m, N)
    BY DEF Sound
  <2> QED BY ONLY <2>1, m.station[r.q][r.i].op = "load" DEF FlagsOK, Without
<1> QED BY ONLY <1>1, Sound(m, mode, last, list, N, {}, {}) DEF Sound

\* A slot stays free while an operation is added to the other queue.
LEMMA GrowFree ==
  ASSUME NEW m, CoreOK(m), Ring(m), NEW r, NEW m2, CoreOK(m2), Ring(m2), Taking(m, m2, r),
         NEW l, Free(m, l), l.q # r.q
  PROVE  Free(m2, l)
<1>1. l.q \in Queues /\ l.i = m.tail[l.q] /\ m.num[l.q] < Size[l.q]
  BY DEF Free
<1>2. m2.head = m.head /\ m2.num[l.q] = m.num[l.q]
  BY ONLY <1>1, Taking(m, m2, r), l.q # r.q DEF Taking
<1>3. m2.tail[l.q] = (m2.head[l.q] + m2.num[l.q]) % Size[l.q]
  BY ONLY <1>1, Ring(m2) DEF Ring
<1>4. m.tail[l.q] = (m.head[l.q] + m.num[l.q]) % Size[l.q]
  BY ONLY <1>1, Ring(m) DEF Ring
<1> QED BY ONLY <1>1, <1>2, <1>3, <1>4 DEF Free

\* The operations in flight are older than the next one.
LEMMA OrderedOlder ==
  ASSUME NEW m, CoreOK(m), NEW last \in Nat, Ordered(m, last)
  PROVE  AllOlder(m, last + 1) /\ \A q \in Queues : QueueOlder(m, q, last + 1)
<1>1. ASSUME NEW q \in Queues, NEW i \in Slot(q), In(m, q, i)
      PROVE  m.station[q][i].seq < last + 1 /\ LastSeq(m.station[q][i]) < last + 1
  <2>1. m.station[q][i].seq \in Nat
    BY StationType, StationFields
  <2>2. LastSeq(m.station[q][i]) <= last
    BY <1>1 DEF Ordered
  <2>3. LastSeq(m.station[q][i]) = m.station[q][i].seq \/ LastSeq(m.station[q][i]) = m.station[q][i].seq + 1
    BY ONLY TRUE DEF LastSeq
  <2> QED BY ONLY <2>1, <2>2, <2>3, last \in Nat
<1>2. AllOlder(m, last + 1)
  BY ONLY <1>1 DEF AllOlder
<1>3. ASSUME NEW q \in Queues PROVE QueueOlder(m, q, last + 1)
  BY ONLY <1>1, q \in Queues DEF QueueOlder
<1> QED BY ONLY <1>2, <1>3

\* The second half of a memory instruction is younger than everything in its
\* queue.
LEMMA GrowOlder ==
  ASSUME NEW m, CoreOK(m), Ring(m), NEW r, Free(m, r), NEW m2, CoreOK(m2), Grows(m, m2, r),
         NEW seq \in Nat, AllOlder(m, seq), m2.station[r.q][r.i].seq = seq,
         NEW q \in Queues, q # r.q, QueueOlder(m, q, seq)
  PROVE  AllOlder(m2, seq + 1) /\ QueueOlder(m2, q, seq + 1)
<1>1. ASSUME NEW p \in Queues, NEW i \in Slot(p), In(m2, p, i)
      PROVE  m2.station[p][i].seq < seq + 1
  <2>1. m2.station[p][i].seq \in Nat /\ m.station[p][i].seq \in Nat
    BY StationType, StationFields
  <2>2. In(m2, p, i) <=> In(m, p, i) \/ ~Elsewhere(r, p, i)
    BY GrowIn DEF Grows
  <2>3. CASE Elsewhere(r, p, i)
    <3>1. m2.station[p][i].seq = m.station[p][i].seq
      BY ONLY <2>3, Grows(m, m2, r), p \in Queues, i \in Slot(p) DEF Grows, SameStatic
    <3>2. m.station[p][i].seq < seq
      BY ONLY <1>1, <2>2, <2>3, AllOlder(m, seq), p \in Queues, i \in Slot(p) DEF AllOlder
    <3> QED BY ONLY <2>1, <3>1, <3>2, seq \in Nat
  <2>4. CASE ~Elsewhere(r, p, i)
    <3>1. p = r.q /\ i = r.i
      BY ONLY <2>4 DEF Elsewhere
    <3> QED BY ONLY <3>1, m2.station[r.q][r.i].seq = seq, seq \in Nat
  <2> QED BY ONLY <2>3, <2>4
<1>2. ASSUME NEW i \in Slot(q), In(m2, q, i)
      PROVE  LastSeq(m2.station[q][i]) < seq + 1
  <2>1. Elsewhere(r, q, i)
    BY ONLY q # r.q DEF Elsewhere
  <2>2. In(m, q, i)
    BY <1>2, <2>1, GrowIn DEF Grows
  <2>3. LastSeq(m.station[q][i]) < seq
    BY ONLY <2>2, QueueOlder(m, q, seq), i \in Slot(q) DEF QueueOlder
  <2>4. SameStatic(m.station[q][i], m2.station[q][i])
    BY ONLY <2>1, Grows(m, m2, r), q \in Queues, i \in Slot(q) DEF Grows
  <2>5. LastSeq(m2.station[q][i]) = LastSeq(m.station[q][i])
    BY ONLY <2>4 DEF SameStatic, LastSeq
  <2>6. m.station[q][i].seq \in Nat
    BY StationType, StationFields
  <2>7. LastSeq(m.station[q][i]) = m.station[q][i].seq \/ LastSeq(m.station[q][i]) = m.station[q][i].seq + 1
    BY ONLY TRUE DEF LastSeq
  <2> QED BY ONLY <2>3, <2>5, <2>6, <2>7, seq \in Nat
<1> QED BY ONLY <1>1, <1>2 DEF AllOlder, QueueOlder

\* What an instruction of the program is.
Decoded(i) ==
  /\ i.op \in Ops /\ i.op # "agen" /\ i.addr \in Nat /\ i.target \in Nat
  /\ Inputs(i.in)
  /\ Outs(IF IsMem(i.op) THEN "LSQ" ELSE "RUU", i.op, i.out)

\* What the instruction tables promise of an instruction, of the no-op outside
\* the text too.
LEMMA InstIs ==
  ASSUME text \in Programs, NEW pc
  PROVE  Decoded(InstAt(pc))
<1> DEFINE i == InstAt(pc)
<1>1. /\ i.op \in {"nop", "alu", "mult", "load", "store", "branch", "jump", "jr", "trap"}
      /\ i.addr \in Nat /\ i.target \in Nat
      /\ i.out[1] \in Regs \cup {NA} /\ i.out[2] \in Regs \cup {NA}
      /\ \A k \in 1..3 : i.in[k] \in Regs \cup {NA}
      /\ i.op = "store" => i.out[1] = NA /\ i.out[2] = NA
      /\ i.out[1] = i.out[2] => i.out[1] = NA
  <2>1. CASE pc \in DOMAIN text
    <3>1. text \in Seq(Instructions)
      BY ProgramsAssumption
    <3>2. pc \in 1..Len(text) /\ text[pc] \in Instructions
      BY ONLY <2>1, <3>1
    <3>3. i = text[pc]
      BY ONLY <2>1 DEF InstAt
    <3>4. /\ text[pc].op = "store" => text[pc].out = <<NA, NA>>
          /\ text[pc].out[1] = text[pc].out[2] => text[pc].out[1] = NA
      BY <3>2, ProgramsAssumption
    <3>5. i \in Instructions
      BY ONLY <3>2, <3>3
    <3>6. /\ i.op \in {"nop", "alu", "mult", "load", "store", "branch", "jump", "jr", "trap"}
          /\ i.out \in [1..2 -> Regs \cup {NA}] /\ i.in \in [1..3 -> Regs \cup {NA}]
          /\ i.addr \in Nat /\ i.target \in Nat
      <4> HIDE DEF i
      <4> QED BY ONLY <3>5 DEF Instructions, MAX_ODEPS, MAX_IDEPS
    <3> HIDE DEF i
    <3>7. /\ i.op = "store" => i.out[1] = NA /\ i.out[2] = NA
          /\ i.out[1] = i.out[2] => i.out[1] = NA
      BY ONLY <3>3, <3>4
    <3> QED BY ONLY <3>6, <3>7
  <2>2. CASE pc \notin DOMAIN text
    <3>1. i = [op |-> "nop", out |-> <<NA, NA>>, in |-> <<NA, NA, NA>>, addr |-> 0, target |-> 0]
      BY ONLY <2>2 DEF InstAt, NOP
    <3> HIDE DEF i
    <3> QED BY ONLY <3>1
  <2> QED BY <2>1, <2>2
<1>2. DTMP \notin Regs /\ NA \notin Regs
  BY SizesAssumption
<1>3. DTMP # NA
  BY ONLY TRUE DEF DTMP, NA
<1> HIDE DEF i
<1>4. i.op \in Ops /\ i.op # "agen"
  BY ONLY <1>1 DEF Ops
<1>5. \A k \in 1..3 : i.in[k] \in Names \cup {NA}
  BY ONLY <1>1 DEF Names
<1>6. /\ i.out[1] \in Names \cup {NA} /\ i.out[2] \in Names \cup {NA}
      /\ i.out[1] # DTMP /\ i.out[2] # DTMP
  BY ONLY <1>1, <1>2, <1>3 DEF Names
<1>7. Outs(IF IsMem(i.op) THEN "LSQ" ELSE "RUU", i.op, i.out)
  BY ONLY <1>1, <1>4, <1>6 DEF Outs, IsMem
<1> QED BY ONLY <1>1, <1>4, <1>5, <1>7 DEF Decoded, Inputs, i

\* The operation in slot r of m2 is new and has not been scheduled.
Entering(m2, r, op, addr, pc, seq) ==
  In(m2, r.q, r.i) /\ Fresh(m2.station[r.q][r.i], r.q, op, addr, pc, seq)

\* What MarkSound needs of an operation just dispatched.
Latest(m, i, last) ==
  /\ i \in Slot("RUU") /\ In(m, "RUU", i) /\ m.station["RUU"][i].seq = last
  /\ ~m.station["RUU"][i].completed /\ ~m.station["RUU"][i].ea_comp

\* Dispatching an instruction that is no load or store keeps every part.
LEMMA DispatchOpSound ==
  ASSUME Sound(core, spec_mode, inst_seq, nodes, {}, {}, {}), nodes \in Seq(Links),
         inst_seq \in Nat, spec_mode \in BOOLEAN, UseOK(core),
         core.num["RUU"] < Size["RUU"],
         NEW f, f.PC \in Nat, NEW npc \in Nat, NEW i, Decoded(i), ~IsMem(i.op),
         NEW m2, m2 = DispatchOp(core, f, npc, i)
  PROVE  /\ Sound(m2, spec_mode, inst_seq + 1, nodes, {}, {}, {})
         /\ Latest(m2, core.tail["RUU"], inst_seq + 1)
         /\ ~spec_mode => SameUse(core, m2)
<1>1. PICK r : r = Ref("RUU", core.tail["RUU"])
  OBVIOUS
<1>2. r.q = "RUU" /\ r.i = core.tail["RUU"]
  BY ONLY <1>1 DEF Ref
<1>3. Free(core, r)
  BY ONLY <1>2, core.num["RUU"] < Size["RUU"] DEF Free, Queues
<1>4. PICK m : m = Allocate(core, r, i.op, 0, f, npc, inst_seq + 1, i.in, i.out)
  OBVIOUS
<1>5. m2 = EnqueueIfReady(m, r)
  BY ONLY <1>1, <1>4, m2 = DispatchOp(core, f, npc, i) DEF DispatchOp
<1>6. CoreOK(core) /\ Ring(core) /\ Ordered(core, inst_seq) /\ Paired(core)
  BY DEF Sound
<1>7. AllOlder(core, inst_seq + 1) /\ QueueOlder(core, r.q, inst_seq + 1)
  BY <1>2, <1>6, OrderedOlder DEF Queues
<1>8. /\ i.op \in Ops /\ i.op # "agen" /\ Inputs(i.in)
      /\ Outs(r.q, i.op, i.out)
  BY ONLY <1>2, Decoded(i), ~IsMem(i.op) DEF Decoded
<1>9. Base(core, spec_mode, inst_seq, nodes, {})
  BY SoundBase
<1>10. LastOf(i.op, inst_seq + 1) <= inst_seq + 1 /\ inst_seq + 1 \in Nat /\ inst_seq <= inst_seq + 1
  BY ONLY <1>8, inst_seq \in Nat DEF LastOf
<1>11. /\ Base(m, spec_mode, inst_seq + 1, nodes, With({}, r)) /\ Grows(core, m, r)
       /\ Fresh(m.station[r.q][r.i], r.q, i.op, 0, f.PC, inst_seq + 1)
       /\ ~spec_mode => SameUse(core, m)
  <2>1. PICK op, in, out, seq, addr : op = i.op /\ in = i.in /\ out = i.out /\ seq = inst_seq + 1 /\ addr = 0
    OBVIOUS
  <2>2. /\ op \in Ops /\ addr \in Nat /\ seq \in Nat /\ Numbered(inst_seq, op, seq, seq)
        /\ Inputs(in)
        /\ Outs(r.q, op, out) /\ AllOlder(core, seq) /\ QueueOlder(core, r.q, seq)
        /\ m = Allocate(core, r, op, addr, f, npc, seq, in, out)
    BY ONLY <1>4, <1>7, <1>8, <1>10, <2>1, inst_seq \in Nat DEF Numbered
  <2>3. /\ Base(m, spec_mode, seq, nodes, With({}, r)) /\ Grows(core, m, r)
        /\ Fresh(m.station[r.q][r.i], r.q, op, addr, f.PC, seq)
        /\ ~spec_mode => SameUse(core, m)
    BY ONLY <1>3, <1>9, <2>2, GrowBase, nodes \in Seq(Links), inst_seq \in Nat, f.PC \in Nat,
            npc \in Nat, spec_mode \in BOOLEAN, UseOK(core), SMTT(30)
  <2> QED BY ONLY <2>1, <2>3
<1>12. ~m.station[r.q][r.i].ea_comp /\ ~m.station[r.q][r.i].queued /\ ~m.station[r.q][r.i].issued
       /\ m.station[r.q][r.i].op # "load" /\ ~m.station[r.q][r.i].completed
       /\ m.station[r.q][r.i].seq = inst_seq + 1
  <2>1. i.op # "load"
    BY ONLY ~IsMem(i.op) DEF IsMem
  <2> QED BY ONLY <1>8, <1>11, <2>1 DEF Fresh
<1>13. Paired(m)
  BY <1>2, <1>3, <1>6, <1>11, <1>12, PairedOp
<1>14. Sound(m, spec_mode, inst_seq + 1, nodes, With({}, r), {}, {})
  BY <1>11, <1>13, SoundBase
<1>15. r.q \in Queues /\ r.i \in Slot(r.q)
  BY <1>3, <1>6, FreeSlot
<1>16. In(m, r.q, r.i)
  BY <1>3, <1>6, <1>11, <1>15, GrowIn DEF Grows, Elsewhere
<1>17. Sound(m2, spec_mode, inst_seq + 1, nodes, Without(With({}, r), r), {}, {}) /\ Scheduled(m, m2, r)
  BY <1>5, <1>12, <1>14, <1>15, <1>16, EnqueueIfReadySound
<1>18. Without(With({}, r), r) = {}
  BY ONLY TRUE DEF With, Without
<1>19. Latest(m2, core.tail["RUU"], inst_seq + 1)
  <2>1. In(m2, r.q, r.i)
    BY <1>16, <1>17, SameIn DEF Scheduled, Same
  <2>2. /\ SameStatic(m.station[r.q][r.i], m2.station[r.q][r.i])
        /\ m2.station[r.q][r.i].completed = m.station[r.q][r.i].completed
    BY ONLY <1>15, <1>17 DEF Scheduled, Same
  <2> QED BY ONLY <1>2, <1>12, <1>15, <2>1, <2>2 DEF SameStatic, Latest
<1>20. ~spec_mode => SameUse(core, m2)
  BY ONLY <1>11, <1>17 DEF Scheduled, SameVectors, SameUse
<1> QED BY ONLY <1>17, <1>18, <1>19, <1>20

\* A load or store is put into both queues.
LEMMA AllocateMem ==
  ASSUME Sound(core, spec_mode, inst_seq, nodes, {}, {}, {}), nodes \in Seq(Links),
         inst_seq \in Nat, spec_mode \in BOOLEAN, UseOK(core),
         NEW r, Free(core, r), r.q = "RUU", NEW l, Free(core, l), l.q = "LSQ",
         NEW f, f.PC \in Nat, NEW npc \in Nat, NEW i, Decoded(i), IsMem(i.op),
         NEW in1, Inputs(in1), NEW in2, Inputs(in2), NEW out1, out1 = <<DTMP, NA>>,
         NEW m1, m1 = Allocate(core, r, "agen", 0, f, npc, inst_seq + 1, in1, out1),
         NEW m2, m2 = Allocate(m1, l, i.op, i.addr, f, npc, inst_seq + 2, in2, i.out)
  PROVE  /\ Sound(m2, spec_mode, inst_seq + 2, nodes, With(With({}, r), l), {}, {})
         /\ Entering(m2, r, "agen", 0, f.PC, inst_seq + 1)
         /\ Entering(m2, l, i.op, i.addr, f.PC, inst_seq + 2)
         /\ ~spec_mode => SameUse(core, m2)
<1>1. CoreOK(core) /\ Ring(core) /\ Ordered(core, inst_seq) /\ Paired(core)
  BY DEF Sound
<1>2. AllOlder(core, inst_seq + 1) /\ QueueOlder(core, r.q, inst_seq + 1)
      /\ QueueOlder(core, l.q, inst_seq + 1)
  BY <1>1, OrderedOlder DEF Queues
<1>3. Base(core, spec_mode, inst_seq, nodes, {})
  BY SoundBase
<1>4. /\ Base(m1, spec_mode, inst_seq + 2, nodes, With({}, r)) /\ Grows(core, m1, r)
      /\ Fresh(m1.station[r.q][r.i], r.q, "agen", 0, f.PC, inst_seq + 1)
      /\ ~spec_mode => SameUse(core, m1)
  <2>1. PICK op, seq, addr, last : op = "agen" /\ seq = inst_seq + 1 /\ addr = 0 /\ last = inst_seq + 2
    OBVIOUS
  <2>2. /\ op \in Ops /\ addr \in Nat /\ seq \in Nat /\ Numbered(inst_seq, op, seq, last)
        /\ AllOlder(core, seq) /\ QueueOlder(core, r.q, seq)
        /\ m1 = Allocate(core, r, op, addr, f, npc, seq, in1, out1)
    BY ONLY <1>2, <2>1, inst_seq \in Nat,
            m1 = Allocate(core, r, "agen", 0, f, npc, inst_seq + 1, in1, out1)
       DEF Numbered, LastOf, Ops
  <2>3. Outs(r.q, op, out1)
    <3>1. out1[1] = DTMP /\ out1[2] = NA
      BY ONLY out1 = <<DTMP, NA>>
    <3>2. DTMP # NA /\ DTMP \in Names
      BY ONLY TRUE DEF DTMP, NA, Names
    <3> QED BY ONLY <2>1, <3>1, <3>2, r.q = "RUU" DEF Outs
  <2>4. /\ Base(m1, spec_mode, last, nodes, With({}, r)) /\ Grows(core, m1, r)
        /\ Fresh(m1.station[r.q][r.i], r.q, op, addr, f.PC, seq)
        /\ ~spec_mode => SameUse(core, m1)
    BY ONLY <1>3, <2>2, <2>3, GrowBase, nodes \in Seq(Links), inst_seq \in Nat, f.PC \in Nat,
            npc \in Nat, spec_mode \in BOOLEAN, UseOK(core), Free(core, r), Inputs(in1)
  <2> QED BY ONLY <2>1, <2>4
<1>5. CoreOK(m1) /\ Ring(m1)
  BY ONLY <1>4 DEF Base
<1>6. Free(m1, l)
  BY <1>1, <1>4, <1>5, GrowFree DEF Grows
<1>7. l.q \in Queues /\ l.i \in Slot(l.q) /\ r.q \in Queues /\ r.i \in Slot(r.q)
  BY <1>1, FreeSlot
<1>8. AllOlder(m1, inst_seq + 2) /\ QueueOlder(m1, l.q, inst_seq + 2)
  <2>1. PICK seq \in Nat : seq = inst_seq + 1
    OBVIOUS
  <2>2. m1.station[r.q][r.i].seq = seq
    BY ONLY <1>4, <2>1 DEF Fresh
  <2>3. AllOlder(m1, seq + 1) /\ QueueOlder(m1, l.q, seq + 1)
    BY <1>1, <1>2, <1>4, <1>5, <1>7, <2>1, <2>2, GrowOlder
  <2>4. seq + 1 = inst_seq + 2
    BY ONLY <2>1, inst_seq \in Nat
  <2> QED BY ONLY <2>3, <2>4
<1>9. UseOK(m1)
  BY ONLY <1>4, UseOK(core) DEF UseOK, SameUse
<1>10. /\ Base(m2, spec_mode, inst_seq + 2, nodes, With(With({}, r), l)) /\ Grows(m1, m2, l)
       /\ Fresh(m2.station[l.q][l.i], l.q, i.op, i.addr, f.PC, inst_seq + 2)
       /\ ~spec_mode => SameUse(m1, m2)
  <2>1. PICK op, seq, addr, out, N : /\ op = i.op /\ seq = inst_seq + 2 /\ addr = i.addr /\ out = i.out
                                     /\ N = With({}, r)
    OBVIOUS
  <2>2. /\ op \in Ops /\ addr \in Nat /\ op # "agen" /\ Outs(l.q, op, out)
    BY ONLY <2>1, Decoded(i), IsMem(i.op), l.q = "LSQ" DEF Decoded
  <2>3. /\ seq \in Nat /\ Numbered(seq, op, seq, seq)
        /\ AllOlder(m1, seq) /\ QueueOlder(m1, l.q, seq)
        /\ m2 = Allocate(m1, l, op, addr, f, npc, seq, in2, out)
        /\ Base(m1, spec_mode, seq, nodes, N)
    BY ONLY <1>4, <1>8, <2>1, <2>2, inst_seq \in Nat,
            m2 = Allocate(m1, l, i.op, i.addr, f, npc, inst_seq + 2, in2, i.out)
       DEF Numbered, LastOf
  <2>4. /\ Base(m2, spec_mode, seq, nodes, With(N, l)) /\ Grows(m1, m2, l)
        /\ Fresh(m2.station[l.q][l.i], l.q, op, addr, f.PC, seq)
        /\ ~spec_mode => SameUse(m1, m2)
    BY ONLY <1>6, <1>9, <2>2, <2>3, GrowBase, nodes \in Seq(Links), inst_seq \in Nat, f.PC \in Nat,
            npc \in Nat, spec_mode \in BOOLEAN, Inputs(in2)
  <2> QED BY ONLY <2>1, <2>4
<1>11. SameStatic(m1.station[r.q][r.i], m2.station[r.q][r.i])
       /\ m2.station[r.q][r.i].queued = m1.station[r.q][r.i].queued
       /\ m2.station[r.q][r.i].issued = m1.station[r.q][r.i].issued
       /\ m2.station[r.q][r.i].completed = m1.station[r.q][r.i].completed
  <2>1. Elsewhere(l, r.q, r.i)
    BY ONLY r.q = "RUU", l.q = "LSQ" DEF Elsewhere
  <2> QED BY ONLY <1>7, <1>10, <2>1 DEF Grows
<1>12. Fresh(m2.station[r.q][r.i], r.q, "agen", 0, f.PC, inst_seq + 1)
  BY ONLY <1>4, <1>11 DEF Fresh, SameStatic
<1>13. Pair(m2, r.i, l.i)
  <2>1. /\ m2.station["RUU"][r.i].ea_comp /\ m2.station["RUU"][r.i].PC = f.PC
        /\ m2.station["RUU"][r.i].seq = inst_seq + 1
    BY ONLY <1>12, r.q = "RUU" DEF Fresh
  <2>2. /\ m2.station["LSQ"][l.i].PC = f.PC /\ m2.station["LSQ"][l.i].seq = inst_seq + 2
    BY ONLY <1>10, l.q = "LSQ" DEF Fresh
  <2> QED BY ONLY <2>1, <2>2, inst_seq \in Nat DEF Pair
<1>14. Paired(m2)
  BY <1>1, <1>4, <1>5, <1>6, <1>10, <1>13, PairedMem
<1>15. Sound(m2, spec_mode, inst_seq + 2, nodes, With(With({}, r), l), {}, {})
  BY <1>10, <1>14, SoundBase
<1>16. In(m1, r.q, r.i)
  BY <1>1, <1>4, <1>7, GrowIn DEF Grows, Elsewhere
<1>17. In(m2, r.q, r.i) /\ In(m2, l.q, l.i)
  <2>1. Taking(m1, m2, l)
    BY ONLY <1>10 DEF Grows
  <2>2. ~Elsewhere(l, l.q, l.i)
    BY ONLY TRUE DEF Elsewhere
  <2> QED BY ONLY <1>5, <1>6, <1>7, <1>16, <2>1, <2>2, GrowIn
<1>18. ~spec_mode => SameUse(core, m2)
  BY ONLY <1>4, <1>10 DEF SameUse
<1> QED BY ONLY <1>10, <1>12, <1>15, <1>17, <1>18 DEF Entering

\* Dispatching a load or store keeps every part.
LEMMA DispatchMemSound ==
  ASSUME Sound(core, spec_mode, inst_seq, nodes, {}, {}, {}), nodes \in Seq(Links),
         inst_seq \in Nat, spec_mode \in BOOLEAN, UseOK(core),
         core.num["RUU"] < Size["RUU"], core.num["LSQ"] < Size["LSQ"],
         NEW f, f.PC \in Nat, NEW npc \in Nat, NEW i, Decoded(i), IsMem(i.op),
         NEW m, m = DispatchMem(core, f, npc, i)
  PROVE  /\ Sound(m, spec_mode, inst_seq + 2, nodes, {}, {}, {})
         /\ ~spec_mode => SameUse(core, m)
<1>1. PICK r, l : r = Ref("RUU", core.tail["RUU"]) /\ l = Ref("LSQ", core.tail["LSQ"])
  OBVIOUS
<1>2. r.q = "RUU" /\ r.i = core.tail["RUU"] /\ l.q = "LSQ" /\ l.i = core.tail["LSQ"]
  BY ONLY <1>1 DEF Ref
<1>3. Free(core, r) /\ Free(core, l)
  BY ONLY <1>2, core.num["RUU"] < Size["RUU"], core.num["LSQ"] < Size["LSQ"] DEF Free, Queues
<1>4. PICK in1, in2, out1 : /\ in1 = <<NA, i.in[2], i.in[3]>> /\ in2 = <<i.in[1], DTMP, NA>>
                            /\ out1 = <<DTMP, NA>>
  OBVIOUS
<1>5. PICK m1 : m1 = Allocate(core, r, "agen", 0, f, npc, inst_seq + 1, in1, out1)
  OBVIOUS
<1>6. PICK m2 : m2 = Allocate(m1, l, i.op, i.addr, f, npc, inst_seq + 2, in2, i.out)
  OBVIOUS
<1>7. PICK m3 : m3 = EnqueueIfReady(m2, r)
  OBVIOUS
<1>8. m = IF i.op = "store" THEN EnqueueIfReady(m3, l) ELSE m3
  BY ONLY <1>1, <1>4, <1>5, <1>6, <1>7, m = DispatchMem(core, f, npc, i) DEF DispatchMem
<1>9. Inputs(in1) /\ Inputs(in2)
  <2>1. i.in[1] \in Names \cup {NA} /\ i.in[2] \in Names \cup {NA} /\ i.in[3] \in Names \cup {NA}
    BY ONLY Decoded(i) DEF Decoded, Inputs
  <2>2. DTMP \in Names
    BY DEF Names
  <2>3. in1[1] = NA /\ in1[2] = i.in[2] /\ in1[3] = i.in[3] /\ in2[1] = i.in[1] /\ in2[2] = DTMP /\ in2[3] = NA
    BY ONLY <1>4
  <2> QED BY ONLY <2>1, <2>2, <2>3 DEF Inputs
<1>10. /\ Sound(m2, spec_mode, inst_seq + 2, nodes, With(With({}, r), l), {}, {})
       /\ Entering(m2, r, "agen", 0, f.PC, inst_seq + 1)
       /\ Entering(m2, l, i.op, i.addr, f.PC, inst_seq + 2)
       /\ ~spec_mode => SameUse(core, m2)
  BY ONLY <1>2, <1>3, <1>4, <1>5, <1>6, <1>9, AllocateMem,
          Sound(core, spec_mode, inst_seq, nodes, {}, {}, {}), nodes \in Seq(Links),
          inst_seq \in Nat, spec_mode \in BOOLEAN, UseOK(core), f.PC \in Nat, npc \in Nat,
          Decoded(i), IsMem(i.op)
<1>11. /\ l.q \in Queues /\ l.i \in Slot(l.q) /\ r.q \in Queues /\ r.i \in Slot(r.q)
  <2>1. CoreOK(core) /\ Ring(core)
    BY DEF Sound
  <2> QED BY <1>3, <2>1, FreeSlot
<1>12. PICK N, last : N = With(With({}, r), l) /\ last = inst_seq + 2
  OBVIOUS
<1>13. /\ Sound(m2, spec_mode, last, nodes, N, {}, {})
       /\ In(m2, r.q, r.i) /\ ~m2.station[r.q][r.i].queued /\ ~m2.station[r.q][r.i].issued
       /\ m2.station[r.q][r.i].op # "load"
  BY ONLY <1>10, <1>12 DEF Entering, Fresh
<1>14. Sound(m3, spec_mode, last, nodes, Without(N, r), {}, {}) /\ Scheduled(m2, m3, r)
  BY ONLY <1>7, <1>11, <1>13, nodes \in Seq(Links), EnqueueIfReadySound
<1>15. Elsewhere(r, l.q, l.i)
  BY ONLY <1>2 DEF Elsewhere
<1>16. /\ In(m3, l.q, l.i) /\ ~m3.station[l.q][l.i].queued /\ ~m3.station[l.q][l.i].issued
       /\ m3.station[l.q][l.i].op = i.op
  <2>1. SameStatic(m2.station[l.q][l.i], m3.station[l.q][l.i])
        /\ m3.station[l.q][l.i].queued = m2.station[l.q][l.i].queued
        /\ m3.station[l.q][l.i].issued = m2.station[l.q][l.i].issued
    BY ONLY <1>11, <1>14, <1>15 DEF Scheduled, Same
  <2>2. In(m2, l.q, l.i) /\ ~m2.station[l.q][l.i].queued /\ ~m2.station[l.q][l.i].issued
        /\ m2.station[l.q][l.i].op = i.op
    BY ONLY <1>10 DEF Entering, Fresh
  <2>3. In(m3, l.q, l.i)
    BY <1>14, <2>2, SameIn DEF Scheduled, Same
  <2> QED BY ONLY <2>1, <2>2, <2>3 DEF SameStatic
<1>17. Without(Without(N, r), l) = {}
  BY ONLY <1>12 DEF With, Without
<1>18. CASE i.op = "store"
  <2>1. m = EnqueueIfReady(m3, l) /\ m3.station[l.q][l.i].op # "load"
    BY ONLY <1>8, <1>16, <1>18
  <2>2. PICK N2 : N2 = Without(N, r)
    OBVIOUS
  <2>3. Sound(m3, spec_mode, last, nodes, N2, {}, {})
    BY ONLY <1>14, <2>2
  <2>4. Sound(m, spec_mode, last, nodes, Without(N2, l), {}, {}) /\ Scheduled(m3, m, l)
    BY ONLY <1>11, <1>16, <2>1, <2>3, nodes \in Seq(Links), EnqueueIfReadySound
  <2>5. Sound(m, spec_mode, inst_seq + 2, nodes, {}, {}, {})
    BY ONLY <1>12, <1>17, <2>2, <2>4
  <2>6. ~spec_mode => SameUse(core, m)
    BY ONLY <1>10, <1>14, <2>4 DEF Scheduled, SameVectors, SameUse
  <2> QED BY ONLY <2>5, <2>6
<1>19. CASE i.op # "store"
  <2>1. m = m3 /\ m3.station[l.q][l.i].op = "load"
    BY ONLY <1>8, <1>16, <1>19, IsMem(i.op) DEF IsMem
  <2>2. PICK N2 : N2 = Without(N, r)
    OBVIOUS
  <2>3. Sound(m3, spec_mode, last, nodes, N2, {}, {})
    BY ONLY <1>14, <2>2
  <2>4. Sound(m3, spec_mode, last, nodes, Without(N2, l), {}, {})
    BY ONLY <2>1, <2>3, LoadWaits
  <2>5. Sound(m, spec_mode, inst_seq + 2, nodes, {}, {}, {})
    BY ONLY <1>12, <1>17, <2>1, <2>2, <2>4
  <2>6. ~spec_mode => SameUse(core, m)
    BY ONLY <1>10, <1>14, <2>1 DEF Scheduled, SameVectors, SameUse
  <2> QED BY ONLY <2>5, <2>6
<1> QED BY ONLY <1>18, <1>19

-----------------------------------------------------------------------------
(*****************************************************************************)
(* The mark of a misprediction.                                              *)
(*****************************************************************************)
\* Marking an operation changes nothing else.
MarkedAt(m, m2, i) ==
  \A q \in Queues : \A j \in Slot(q) :
    LET a == m.station[q][j]
        b == m2.station[q][j]
    IN  /\ SameFixed(a, b) /\ b.in_LSQ = a.in_LSQ
        /\ b.recover_inst <=> (a.recover_inst \/ (q = "RUU" /\ j = i))
        /\ b.queued = a.queued /\ b.issued = a.issued /\ b.completed = a.completed
        /\ b.idep_ready = a.idep_ready /\ b.odep_list = a.odep_list

\* What marking the mispredicted branch does.
LEMMA MarkAlike ==
  ASSUME NEW m, CoreOK(m), NEW i \in Slot("RUU"), NEW m2, m2 = Marked(m, Ref("RUU", i))
  PROVE  /\ CoreOK(m2) /\ SameRing(m, m2) /\ SameVectors(m, m2) /\ SameLists(m, m2)
         /\ MarkedAt(m, m2, i)
<1>1. PICK r : r = Ref("RUU", i)
  OBVIOUS
<1>2. r.q = "RUU" /\ r.i = i /\ "RUU" \in Queues
  BY ONLY <1>1 DEF Ref, Queues
<1>3. PICK a, b : a = m.station[r.q][r.i] /\ b = [m.station[r.q][r.i] EXCEPT !.recover_inst = TRUE]
  OBVIOUS
<1>4. /\ CoreOK(m2) /\ SameRing(m, m2) /\ SameVectors(m, m2) /\ SameLists(m, m2)
      /\ Put(m, m2, r.q, r.i, b)
  BY <1>1, <1>2, <1>3, MarkIs
<1>5. a \in Station
  BY <1>2, <1>3, StationType
<1>6. b = [a EXCEPT !.recover_inst = TRUE]
  BY ONLY <1>3
<1>7. /\ SameFixed(a, b) /\ b.in_LSQ = a.in_LSQ /\ b.recover_inst = TRUE
      /\ b.queued = a.queued /\ b.issued = a.issued /\ b.completed = a.completed
      /\ b.idep_ready = a.idep_ready /\ b.odep_list = a.odep_list
  BY ONLY <1>5, <1>6 DEF Station, SameFixed
<1>8. ASSUME NEW q \in Queues, NEW j \in Slot(q)
      PROVE  LET c == m.station[q][j]
                 d == m2.station[q][j]
             IN  /\ SameFixed(c, d) /\ d.in_LSQ = c.in_LSQ
                 /\ d.recover_inst <=> (c.recover_inst \/ (q = "RUU" /\ j = i))
                 /\ d.queued = c.queued /\ d.issued = c.issued /\ d.completed = c.completed
                 /\ d.idep_ready = c.idep_ready /\ d.odep_list = c.odep_list
  <2>1. CASE q = "RUU" /\ j = i
    <3>1. m2.station[q][j] = b /\ m.station[q][j] = a
      BY ONLY <1>2, <1>3, <1>4, <2>1, q \in Queues, j \in Slot(q) DEF Put
    <3> QED BY ONLY <1>7, <2>1, <3>1
  <2>2. CASE ~(q = "RUU" /\ j = i)
    <3>1. m2.station[q][j] = m.station[q][j]
      BY ONLY <1>2, <1>4, <2>2, q \in Queues, j \in Slot(q) DEF Put
    <3> QED BY ONLY <2>2, <3>1 DEF SameFixed
  <2> QED BY ONLY <2>1, <2>2
<1> QED BY ONLY <1>4, <1>8 DEF MarkedAt

\* Mis-speculation starts: the operation just dispatched is marked.
LEMMA MarkSound ==
  ASSUME NEW m, NEW last \in Nat, NEW list \in Seq(Links), Sound(m, FALSE, last, list, {}, {}, {}),
         NEW i, Latest(m, i, last), NEW m2, m2 = Marked(m, Ref("RUU", i))
  PROVE  Sound(m2, TRUE, last, list, {}, {}, {})
<1>0. /\ CoreOK(m) /\ Ring(m) /\ Kinds(m) /\ Ordered(m, last) /\ Paired(m)
      /\ Boundary(m, FALSE) /\ FlagsOK(m, {}) /\ ReadyOK(m, list) /\ EventsOK(m)
      /\ ChainsOK(m, {}, {}) /\ CreatorsOK(m, {}) /\ LoadsOK(m)
  BY DEF Sound
<1>1. /\ i \in Slot("RUU") /\ In(m, "RUU", i) /\ m.station["RUU"][i].seq = last
      /\ ~m.station["RUU"][i].completed /\ ~m.station["RUU"][i].ea_comp
  BY DEF Latest
<1>2. /\ CoreOK(m2) /\ SameRing(m, m2) /\ SameVectors(m, m2) /\ SameLists(m, m2)
      /\ MarkedAt(m, m2, i)
  BY <1>0, <1>1, MarkAlike
<1>3. Alike(m, m2)
  BY ONLY <1>2 DEF MarkedAt, Alike
<1>4. Ring(m2) /\ Ordered(m2, last) /\ Paired(m2)
  BY <1>0, <1>2, <1>3, AlikeShape
<1>5. \A q, j : In(m2, q, j) <=> In(m, q, j)
  BY <1>2, SameIn
<1>a. "RUU" \in Queues /\ "LSQ" \in Queues
  BY DEF Queues
<1>6. Kinds(m2)
  <2>1. ASSUME NEW q \in Queues, NEW j \in Slot(q), In(m2, q, j)
        PROVE  Kind(q, m2.station[q][j])
    <3>1. PICK a, b : a = m.station[q][j] /\ b = m2.station[q][j]
      OBVIOUS
    <3>2. Kind(q, a)
      BY ONLY <1>0, <1>5, <2>1, <3>1, q \in Queues, j \in Slot(q) DEF Kinds
    <3>3. /\ b.op = a.op /\ b.ea_comp = a.ea_comp /\ b.in_LSQ = a.in_LSQ /\ b.onames = a.onames
          /\ b.recover_inst <=> (a.recover_inst \/ (q = "RUU" /\ j = i))
      BY ONLY <1>2, <3>1, q \in Queues, j \in Slot(q) DEF MarkedAt, SameFixed
    <3>4. q = "RUU" /\ j = i => ~a.ea_comp
      BY ONLY <1>1, <3>1
    <3>5. b.recover_inst => q = "RUU" /\ ~b.ea_comp
      BY ONLY <3>2, <3>3, <3>4 DEF Kind
    <3> QED BY ONLY <3>1, <3>2, <3>3, <3>5 DEF Kind
  <2> QED BY ONLY <2>1 DEF Kinds
<1>7. Culprit(m2, i)
  <2>1. In(m2, "RUU", i)
    BY <1>1, <1>5
  <2>2. /\ m2.station["RUU"][i].recover_inst /\ ~m2.station["RUU"][i].completed
        /\ m2.station["RUU"][i].seq = last
    BY ONLY <1>1, <1>2, <1>a DEF MarkedAt, SameFixed
  <2>3. ASSUME NEW q \in Queues, NEW j \in Slot(q), In(m2, q, j)
        PROVE  /\ ~m2.station[q][j].spec_mode
               /\ m2.station[q][j].recover_inst /\ ~m2.station[q][j].completed => q = "RUU" /\ j = i
    <3>1. In(m, q, j)
      BY <1>5, <2>3
    <3>2. ~m.station[q][j].spec_mode /\ (m.station[q][j].recover_inst => m.station[q][j].completed)
      BY ONLY <1>0, <3>1, q \in Queues, j \in Slot(q) DEF Boundary
    <3> QED BY ONLY <1>2, <3>2, q \in Queues, j \in Slot(q) DEF MarkedAt, SameFixed
  <2>4. ASSUME NEW q \in Queues, NEW j \in Slot(q), In(m2, q, j)
        PROVE  ~(last < m2.station[q][j].seq)
    <3>1. m2.station[q][j].seq \in Nat
      BY <1>2, StationType, StationFields
    <3>2. LastSeq(m2.station[q][j]) <= last
      BY ONLY <1>4, <2>4, q \in Queues, j \in Slot(q) DEF Ordered
    <3>3. LastSeq(m2.station[q][j]) = m2.station[q][j].seq \/ LastSeq(m2.station[q][j]) = m2.station[q][j].seq + 1
      BY ONLY TRUE DEF LastSeq
    <3> QED BY ONLY <3>1, <3>2, <3>3, last \in Nat
  <2> QED BY ONLY <2>1, <2>2, <2>3, <2>4 DEF Culprit
<1>8. Boundary(m2, TRUE)
  BY ONLY <1>1, <1>7 DEF Boundary
<1>9. /\ m2.ready_queue = m.ready_queue /\ m2.event_queue = m.event_queue
  BY ONLY <1>2 DEF SameLists
<1>10. \A q \in Queues : \A j \in Slot(q) :
         /\ m2.station[q][j].queued = m.station[q][j].queued
         /\ m2.station[q][j].issued = m.station[q][j].issued
         /\ m2.station[q][j].completed = m.station[q][j].completed
         /\ m2.station[q][j].idep_ready = m.station[q][j].idep_ready
         /\ m2.station[q][j].odep_list = m.station[q][j].odep_list
  BY ONLY <1>2 DEF MarkedAt
<1>11. FlagsOK(m2, {})
  BY <1>0, <1>3, <1>10, SameFlags
<1>12. ReadyOK(m2, list)
  BY <1>0, <1>3, <1>9, <1>10, SameReady
<1>13. EventsOK(m2)
  BY <1>0, <1>3, <1>9, <1>10, SameEvents
<1>14. ChainsOK(m2, {}, {})
  BY <1>0, <1>3, <1>10, SameChains
<1>15. CreatorsOK(m2, {})
  BY <1>0, <1>2, <1>3, <1>10, SameCreators
<1>16. LoadsOK(m2)
  BY <1>0, <1>3, <1>10, <1>a, SameLoads
<1> QED BY ONLY <1>2, <1>4, <1>6, <1>8, <1>11, <1>12, <1>13, <1>14, <1>15, <1>16 DEF Sound

-----------------------------------------------------------------------------
(*****************************************************************************)
(* The functional units.                                                     *)
(*****************************************************************************)
\* The latencies of the units that are configured.
UnitKinds == {fu_config[k].x : k \in 1..Len(fu_config)}

\* The pool, descriptor by descriptor.
PoolLoop(F, h) ==
  F = [k \in 0..h |->
         IF k = 0 THEN <<>>
         ELSE F[k - 1] \o [j \in 1..fu_config[k].quantity |-> fu_config[k].x]]

\* The pool of res_create_pool is a function of the descriptors read so far.
LEMMA PoolExists ==
  ASSUME NEW h \in Nat
  PROVE  \E F : PoolLoop(F, h)
<1> DEFINE T == {j \in Nat : ~ \E F : PoolLoop(F, j)}
           More(k) == [j \in 1..fu_config[k].quantity |-> fu_config[k].x]
<1> SUFFICES ASSUME T # {} PROVE FALSE
  OBVIOUS
<1>1. PICK g \in T : \A j \in T : g <= j
  <2>1. T \subseteq Nat
    OBVIOUS
  <2> HIDE DEF T
  <2> QED BY <2>1, LeastNumber
<1>a. g \in Nat /\ ~ \E F : PoolLoop(F, g)
  BY <1>1
<1>2. g # 0
  <2>1. PoolLoop([k \in 0..0 |-> <<>>], 0)
    BY DEF PoolLoop
  <2> QED BY <1>a, <2>1
<1>3. g - 1 \in Nat /\ g - 1 \notin T
  <2> HIDE DEF T
  <2> QED BY <1>1, <1>a, <1>2
<1>4. PICK G : PoolLoop(G, g - 1)
  BY <1>3
<1> DEFINE H == [j \in 0..g |-> IF j = g THEN G[g - 1] \o More(g) ELSE G[j]]
<1> HIDE DEF T, More
<1>b. \A k \in 0..(g - 1) : G[k] = IF k = 0 THEN <<>> ELSE G[k - 1] \o More(k)
  BY <1>4 DEF PoolLoop, More
<1>5. ASSUME NEW j \in 0..g
      PROVE  H[j] = IF j = 0 THEN <<>> ELSE H[j - 1] \o More(j)
  <2>1. CASE j = 0
    BY <1>2, <1>3, <1>b, <2>1
  <2>2. CASE j # 0 /\ j # g
    <3>1. j \in 0..(g - 1) /\ j - 1 \in 0..(g - 1) /\ j - 1 # g /\ j - 1 \in 0..g
      BY <1>3, <1>a, <2>2
    <3>2. G[j] = G[j - 1] \o More(j)
      BY <1>b, <2>2, <3>1
    <3>3. H[j] = G[j] /\ H[j - 1] = G[j - 1]
      BY <2>2, <3>1
    <3> QED BY <2>2, <3>2, <3>3
  <2>3. CASE j = g
    <3>1. g - 1 \in 0..g /\ g \in 0..g /\ g - 1 # g
      BY ONLY <1>2, <1>3, <1>a
    <3>2. H[g] = G[g - 1] \o More(g) /\ H[g - 1] = G[g - 1]
      BY <3>1
    <3> QED BY ONLY <1>2, <2>3, <3>2
  <2> QED BY <2>1, <2>2, <2>3
<1>6. PoolLoop(H, g)
  BY <1>5 DEF PoolLoop, More
<1> QED BY <1>a, <1>6

\* The pool is that function at the last descriptor.
LEMMA PoolIs == \E F : PoolLoop(F, Len(fu_config)) /\ fu_pool = F[Len(fu_config)]
<1> DEFINE h == Len(fu_config)
           F == CHOOSE f : PoolLoop(f, h)
<1>1. h \in Nat
  BY FuConfigAssumption
<1>2. fu_pool = F[h]
  BY DEF fu_pool, res_create_pool, PoolLoop
<1> HIDE DEF h
<1>3. PoolLoop(F, h)
  <2>1. \E f : PoolLoop(f, h)
    BY <1>1, PoolExists
  <2> QED BY <2>1, Zenon
<1> HIDE DEF F
<1> QED BY <1>2, <1>3 DEF h

\* Every unit of the pool has a table of one of the descriptors.
LEMMA PoolTyped == fu_pool \in Seq(UnitKinds)
<1>1. PICK h \in Nat : h = Len(fu_config)
  BY FuConfigAssumption
<1>2. PICK F : PoolLoop(F, h) /\ fu_pool = F[h]
  BY <1>1, PoolIs
<1> DEFINE More(k) == [j \in 1..fu_config[k].quantity |-> fu_config[k].x]
<1>3. ASSUME NEW k \in 1..h PROVE More(k) \in Seq(UnitKinds)
  <2>1. fu_config[k].quantity \in Nat
    BY <1>1, FuConfigAssumption
  <2>2. fu_config[k].x \in UnitKinds
    BY <1>1 DEF UnitKinds
  <2> QED BY <2>1, <2>2
<1> HIDE DEF More
<1>a. F = [k \in 0..h |-> IF k = 0 THEN <<>> ELSE F[k - 1] \o More(k)]
  BY <1>2 DEF PoolLoop, More
<1>b. ASSUME NEW k \in 0..h PROVE F[k] = IF k = 0 THEN <<>> ELSE F[k - 1] \o More(k)
  BY ONLY <1>a, k \in 0..h
<1>4. F[0] = <<>> /\ \A k \in 1..h : F[k] = F[k - 1] \o More(k)
  <2>1. F[0] = <<>>
    BY <1>b
  <2>2. ASSUME NEW k \in 1..h PROVE F[k] = F[k - 1] \o More(k)
    <3>1. k \in 0..h /\ k # 0
      OBVIOUS
    <3> QED BY ONLY <1>b, <3>1
  <2> QED BY ONLY <2>1, <2>2
<1> DEFINE T == {k \in 0..h : F[k] \notin Seq(UnitKinds)}
<1>5. T = {}
  <2> SUFFICES ASSUME T # {} PROVE FALSE
    OBVIOUS
  <2>1. PICK g \in T : \A j \in T : g <= j
    <3>1. T \subseteq Nat
      OBVIOUS
    <3> HIDE DEF T
    <3> QED BY <3>1, LeastNumber
  <2>2. g \in 0..h /\ F[g] \notin Seq(UnitKinds)
    OBVIOUS
  <2>3. g # 0
    <3>1. <<>> \in Seq(UnitKinds)
      OBVIOUS
    <3> QED BY ONLY <1>4, <2>2, <3>1
  <2>4. g - 1 \in 0..h /\ g - 1 \notin T
    <3> HIDE DEF T
    <3> QED BY <2>1, <2>2, <2>3
  <2>5. F[g - 1] \in Seq(UnitKinds)
    BY <2>4
  <2>6. g \in 1..h
    BY <2>2, <2>3
  <2>7. F[g] = F[g - 1] \o More(g) /\ More(g) \in Seq(UnitKinds)
    BY <1>3, <1>4, <2>6
  <2> QED BY <2>2, <2>5, <2>7
<1>6. F[h] \in Seq(UnitKinds)
  BY <1>5
<1> QED BY <1>2, <1>6

\* The latencies of a unit are positive.
LEMMA LatencyIs ==
  ASSUME NEW u \in Units, NEW c \in DOMAIN fu_pool[u]
  PROVE  fu_pool[u][c].oplat \in Nat \ {0} /\ fu_pool[u][c].issuelat \in Nat \ {0}
<1>1. fu_pool[u] \in UnitKinds
  <2> HIDE DEF fu_pool
  <2> QED BY PoolTyped DEF Units
<1> HIDE DEF fu_pool
<1>2. PICK k \in 1..Len(fu_config) : fu_pool[u] = fu_config[k].x
  BY <1>1 DEF UnitKinds
<1> QED BY <1>2, FuConfigAssumption

\* A free unit that is asked for is found.
LEMMA UnitFound ==
  ASSUME NEW busy, NEW class, FreeUnits(busy, class) # {}
  PROVE  res_get(busy, class) \in FreeUnits(busy, class)
<1> DEFINE S == FreeUnits(busy, class)
<1>1. S \subseteq Nat
  <2>1. Units \subseteq Nat
    <3> HIDE DEF fu_pool
    <3> QED BY PoolTyped DEF Units
  <2> QED BY <2>1 DEF FreeUnits
<1> HIDE DEF S
<1>2. \E u \in S : \A v \in S : u <= v
  BY <1>1, LeastNumber DEF S
<1>3. (CHOOSE u \in S : \A v \in S : u <= v) \in S
  BY <1>2
<1> QED BY <1>3 DEF res_get, S

-----------------------------------------------------------------------------
(*****************************************************************************)
(* One step per action.                                                      *)
(*****************************************************************************)
\* The invariant, as what it says of the front end and of the core.
LEMMA InvIs ==
  IInv <=> FrontOK /\ Sound(core, spec_mode, inst_seq, nodes, {}, {}, {})
BY DEF IInv, Sound

\* The same in the next state.
LEMMA InvNext ==
  IInv' <=> FrontOK' /\ Sound(core', spec_mode', inst_seq', nodes', {}, {}, {})
BY DEF IInv, Sound

\* The state outside the core that the stages after fetch and dispatch leave alone.
Quiet ==
  /\ UNCHANGED <<text, config, ifq, fetch_pred_PC, recover_PC, spec_mode, inst_seq>>
  /\ core'.use_spec_cv = core.use_spec_cv

\* The front end keeps its types when only the back end acts.
LEMMA QuietFront ==
  ASSUME FrontOK, Quiet, fu_busy' \in [Units -> Nat], nodes' \in Seq(Links),
         stage' \in {"commit", "writeback", "refresh", "issue", "dispatch",
                     "fetch", "halted"},
         stage' # "issue" => nodes' = <<>>
  PROVE  FrontOK'
BY DEF FrontOK, Quiet

\* ruu_commit keeps the invariant.
LEMMA CommitInv ==
  ASSUME IInv, Commit
  PROVE  IInv'
<1>1. FrontOK /\ Sound(core, spec_mode, inst_seq, nodes, {}, {}, {})
  BY InvIs
<1>2. nodes \in Seq(Links) /\ fu_busy \in [Units -> Nat]
  BY <1>1 DEF FrontOK
<1>3. /\ core.num["RUU"] > 0 /\ HeadRS("RUU").completed
      /\ HeadRS("RUU").ea_comp => HeadRS("LSQ").completed
      /\ RetiresStore => FreeUnits(fu_busy, "WrPort") # {}
  BY DEF Commit, CanCommit
<1>4. Sound(core', spec_mode, inst_seq, nodes, {}, {}, {}) /\ SameVectors(core, core')
  <2>1. CASE HeadRS("RUU").ea_comp
    <3>1. PICK m1 : m1 = Retire(core, "LSQ")
      OBVIOUS
    <3>2. core' = Retire(m1, "RUU")
      BY ONLY <2>1, <3>1, Commit DEF Commit
    <3> QED BY <1>1, <1>2, <1>3, <2>1, <3>1, <3>2, CommitMemSound DEF HeadRS
  <2>2. CASE ~HeadRS("RUU").ea_comp
    <3>1. core' = Retire(core, "RUU")
      BY ONLY <2>2, Commit DEF Commit
    <3> QED BY <1>1, <1>2, <1>3, <2>2, <3>1, CommitOpSound DEF HeadRS
  <2> QED BY <2>1, <2>2
<1>5. fu_busy' \in [Units -> Nat]
  <2>1. CASE RetiresStore
    <3>1. PICK u : u = res_get(fu_busy, "WrPort")
      OBVIOUS
    <3>2. u \in FreeUnits(fu_busy, "WrPort")
      BY <1>3, <2>1, <3>1, UnitFound
    <3>3. u \in Units /\ "WrPort" \in DOMAIN fu_pool[u]
      BY ONLY <3>2 DEF FreeUnits
    <3>4. fu_pool[u]["WrPort"].issuelat \in Nat
      BY <3>3, LatencyIs
    <3>5. fu_busy' = [fu_busy EXCEPT ![u] = fu_pool[u]["WrPort"].issuelat]
      BY ONLY <2>1, <3>1, Commit DEF Commit, Reserve
    <3> QED BY ONLY <1>2, <3>4, <3>5
  <2>2. CASE ~RetiresStore
    BY ONLY <1>2, <2>2, Commit DEF Commit
  <2> QED BY <2>1, <2>2
<1>6. Quiet /\ stage' = stage /\ nodes' = nodes
  BY ONLY <1>4, Commit DEF Commit, Quiet, trace, frontend, SameVectors
<1>7. FrontOK'
  <2>1. nodes \in Seq(Links) /\ stage \in {"commit", "writeback", "refresh", "issue", "dispatch", "fetch", "halted"}
        /\ (stage # "issue" => nodes = <<>>)
    BY ONLY <1>1 DEF FrontOK
  <2> QED BY ONLY <1>1, <1>5, <1>6, <2>1, QuietFront
<1>8. spec_mode' = spec_mode /\ inst_seq' = inst_seq
  BY ONLY <1>6 DEF Quiet
<1> QED BY ONLY <1>4, <1>6, <1>7, <1>8, InvNext

\* So does the end of ruu_commit with the release of the units.
LEMMA EndCommitInv ==
  ASSUME IInv, EndCommit
  PROVE  IInv'
<1>1. FrontOK /\ Sound(core, spec_mode, inst_seq, nodes, {}, {}, {})
  BY InvIs
<1>2. nodes \in Seq(Links) /\ fu_busy \in [Units -> Nat] /\ nodes = <<>>
  BY <1>1 DEF FrontOK, EndCommit
<1>3. fu_busy' \in [Units -> Nat]
  <2>1. fu_busy' = [u \in Units |-> IF fu_busy[u] > 0 THEN fu_busy[u] - 1 ELSE 0]
    BY ONLY EndCommit DEF EndCommit, ruu_release_fu
  <2> QED BY ONLY <1>2, <2>1
<1>4. Quiet /\ stage' = "writeback" /\ nodes' = nodes /\ core' = core
  BY ONLY EndCommit DEF EndCommit, Quiet, trace, frontend
<1>5. FrontOK'
  BY ONLY <1>1, <1>2, <1>3, <1>4, QuietFront
<1>6. spec_mode' = spec_mode /\ inst_seq' = inst_seq
  BY ONLY <1>4 DEF Quiet
<1> QED BY ONLY <1>1, <1>4, <1>5, <1>6, InvNext

\* ruu_writeback drops an event of a squashed operation.
LEMMA DropSquashedEventInv ==
  ASSUME IInv, DropSquashedEvent
  PROVE  IInv'
<1>1. FrontOK /\ Sound(core, spec_mode, inst_seq, nodes, {}, {}, {})
  BY InvIs
<1>2. nodes \in Seq(Links) /\ fu_busy \in [Units -> Nat]
      /\ stage \in {"commit", "writeback", "refresh", "issue", "dispatch", "fetch", "halted"}
      /\ (stage # "issue" => nodes = <<>>)
  BY ONLY <1>1 DEF FrontOK
<1>3. core.event_queue # <<>> /\ ~RSLINK_VALID(core, Head(core.event_queue)) /\ core' = PopEvent
  BY DEF DropSquashedEvent, EventDue
<1>4. Sound(core', spec_mode, inst_seq, nodes, {}, {}, {}) /\ SameVectors(core, core')
  BY <1>1, <1>2, <1>3, DropEventSound
<1>5. Quiet /\ stage' = stage /\ nodes' = nodes /\ fu_busy' = fu_busy
  BY ONLY <1>4, DropSquashedEvent DEF DropSquashedEvent, Quiet, trace, frontend, SameVectors
<1>6. FrontOK'
  BY ONLY <1>1, <1>2, <1>5, QuietFront
<1>7. spec_mode' = spec_mode /\ inst_seq' = inst_seq
  BY ONLY <1>5 DEF Quiet
<1> QED BY ONLY <1>4, <1>5, <1>6, <1>7, InvNext

\* ruu_writeback completes an operation, recovering first if it was
\* mispredicted.
LEMMA WritebackInv ==
  ASSUME IInv, Writeback
  PROVE  IInv'
<1>1. FrontOK /\ Sound(core, spec_mode, inst_seq, nodes, {}, {}, {})
  BY InvIs
<1>2. /\ nodes \in Seq(Links) /\ spec_mode \in BOOLEAN /\ fu_busy \in [Units -> Nat]
      /\ recover_PC \in Nat
      /\ stage \in {"commit", "writeback", "refresh", "issue", "dispatch", "fetch", "halted"}
      /\ (stage # "issue" => nodes = <<>>)
  BY ONLY <1>1 DEF FrontOK
<1>3. PICK r : r = Head(core.event_queue)
  OBVIOUS
<1>4. core.event_queue # <<>> /\ RSLINK_VALID(core, r)
  BY <1>3 DEF Writeback, EventDue
<1>5. core' = Broadcast(Broadcast(Recovered(r), r, 1), r, 2)
  BY ONLY <1>3, Writeback DEF Writeback, Recovered, Completed
<1>6. /\ RS(core, r).recover_inst =>
           Sound(core', FALSE, inst_seq, nodes, {}, {}, {}) /\ core'.use_spec_cv = {}
      /\ ~RS(core, r).recover_inst =>
           Sound(core', spec_mode, inst_seq, nodes, {}, {}, {})
           /\ core'.use_spec_cv = core.use_spec_cv
  BY <1>1, <1>2, <1>3, <1>4, <1>5, WritebackSound
<1>7. UNCHANGED <<text, config, fu_busy, recover_PC, inst_seq, stage, nodes>>
  BY ONLY Writeback DEF Writeback, trace
<1>8. CASE RS(core, r).recover_inst
  <2>1. spec_mode' = FALSE /\ ifq' = <<>> /\ fetch_pred_PC' = recover_PC
    BY ONLY <1>3, <1>8, Writeback DEF Writeback, tracer_recover
  <2>2. FetchedOK(text, <<>>)
    <3>1. <<>> \in Seq([PC : Nat, pred_PC : Nat]) /\ Len(<<>>) = 0
      OBVIOUS
    <3>2. ruu_ifq_size \in Nat
      BY SizesAssumption
    <3>3. 1..Len(<<>>) = {}
      BY <3>1
    <3> QED BY ONLY <3>1, <3>2, <3>3 DEF FetchedOK
  <2>3. FrontOK'
    BY ONLY <1>1, <1>2, <1>6, <1>7, <1>8, <2>1, <2>2 DEF FrontOK
  <2> QED BY ONLY <1>6, <1>7, <1>8, <2>1, <2>3, InvNext
<1>9. CASE ~RS(core, r).recover_inst
  <2>1. UNCHANGED <<spec_mode, ifq, fetch_pred_PC>>
    BY ONLY <1>3, <1>9, Writeback DEF Writeback
  <2>2. Quiet
    BY ONLY <1>6, <1>7, <1>9, <2>1 DEF Quiet
  <2>3. FrontOK'
    BY ONLY <1>1, <1>2, <1>7, <2>2, QuietFront
  <2> QED BY ONLY <1>6, <1>7, <1>9, <2>1, <2>3, InvNext
<1> QED BY ONLY <1>8, <1>9

\* The end of ruu_writeback changes no part.
LEMMA EndWritebackInv ==
  ASSUME IInv, EndWriteback
  PROVE  IInv'
<1>1. FrontOK /\ Sound(core, spec_mode, inst_seq, nodes, {}, {}, {})
  BY InvIs
<1>2. nodes \in Seq(Links) /\ fu_busy \in [Units -> Nat] /\ nodes = <<>>
  BY <1>1 DEF FrontOK, EndWriteback
<1>3. /\ Quiet /\ stage' \in {"dispatch", "refresh"} /\ nodes' = nodes /\ core' = core
      /\ fu_busy' = fu_busy
  BY ONLY EndWriteback DEF EndWriteback, Quiet, trace, frontend
<1>4. FrontOK'
  BY ONLY <1>1, <1>2, <1>3, QuietFront
<1>5. spec_mode' = spec_mode /\ inst_seq' = inst_seq
  BY ONLY <1>3 DEF Quiet
<1> QED BY ONLY <1>1, <1>3, <1>4, <1>5, InvNext

Stages == {"commit", "writeback", "refresh", "issue", "dispatch", "fetch", "halted"}

\* The types the steps of the back end need.
LEMMA FrontFacts ==
  ASSUME FrontOK
  PROVE  /\ nodes \in Seq(Links) /\ fu_busy \in [Units -> Nat] /\ stage \in Stages
         /\ spec_mode \in BOOLEAN /\ inst_seq \in Nat /\ (stage # "issue" => nodes = <<>>)
BY DEF FrontOK, Stages

\* A step of the back end keeps the invariant if it keeps the parts about the
\* core.
LEMMA QuietInv ==
  ASSUME IInv, Quiet, fu_busy' \in [Units -> Nat], nodes' \in Seq(Links), stage' \in Stages,
         stage' # "issue" => nodes' = <<>>,
         Sound(core', spec_mode, inst_seq, nodes', {}, {}, {})
  PROVE  IInv'
<1>1. FrontOK'
  BY InvIs, QuietFront DEF Stages
<1>2. spec_mode' = spec_mode /\ inst_seq' = inst_seq
  BY DEF Quiet
<1> QED BY ONLY <1>1, <1>2, InvNext, Sound(core', spec_mode, inst_seq, nodes', {}, {}, {})

\* lsq_refresh releases a load.
LEMMA RefreshLoadInv ==
  ASSUME IInv, RefreshLoad
  PROVE  IInv'
<1>1. FrontOK /\ Sound(core, spec_mode, inst_seq, nodes, {}, {}, {})
  BY InvIs
<1>2. /\ nodes \in Seq(Links) /\ fu_busy \in [Units -> Nat] /\ stage \in Stages
      /\ stage # "issue" => nodes = <<>>
  BY <1>1, FrontFacts
<1>3. CoreOK(core)
  BY ONLY <1>1 DEF Sound
<1>4. PICK p : p = CHOOSE w \in ReadyLoads : \A o \in ReadyLoads : w <= o
  OBVIOUS
<1>5. p \in ReadyLoads
  <2>1. ReadyLoads \subseteq Nat /\ ReadyLoads # {}
    BY DEF ReadyLoads, RefreshLoad
  <2>2. \E k \in ReadyLoads : \A o \in ReadyLoads : k <= o
    BY ONLY <2>1, LeastNumber
  <2> QED BY ONLY <1>4, <2>2
<1>6. PICK i : i = (core.head["LSQ"] + p) % Size["LSQ"]
  OBVIOUS
<1>7. i \in Slot("LSQ") /\ Distance(core, "LSQ", i) = p
  <2>1. "LSQ" \in Queues
    BY DEF Queues
  <2>2. core.num["LSQ"] \in Nat /\ core.num["LSQ"] <= Size["LSQ"] /\ Size["LSQ"] \in Nat
    BY <1>3, <2>1, Pointers
  <2>3. p \in 0..(core.num["LSQ"] - 1)
    BY ONLY <1>5 DEF ReadyLoads
  <2>4. p \in 0..(Size["LSQ"] - 1)
    BY ONLY <2>2, <2>3
  <2> QED BY <1>3, <1>6, <2>1, <2>4, SlotAt
<1>8. core' = readyq_enqueue(core, Ref("LSQ", i))
  <2>1. Size["LSQ"] = LSQ_size
    BY SizeType
  <2> QED BY ONLY <1>4, <1>6, <2>1, RefreshLoad DEF RefreshLoad
<1>9. Sound(core', spec_mode, inst_seq, nodes, {}, {}, {}) /\ SameVectors(core, core')
  BY <1>1, <1>2, <1>5, <1>7, <1>8, RefreshSound
<1>10. Quiet /\ stage' = stage /\ nodes' = nodes /\ fu_busy' = fu_busy
  BY ONLY <1>9, RefreshLoad DEF RefreshLoad, Quiet, trace, frontend, SameVectors
<1> QED BY ONLY IInv, <1>2, <1>9, <1>10, QuietInv

\* ruu_issue takes over the ready list.
LEMMA EndRefreshInv ==
  ASSUME IInv, EndRefresh
  PROVE  IInv'
<1>1. FrontOK /\ Sound(core, spec_mode, inst_seq, nodes, {}, {}, {})
  BY InvIs
<1>2. nodes = <<>> /\ fu_busy \in [Units -> Nat]
  BY <1>1, FrontFacts DEF EndRefresh
<1>3. /\ core' = [core EXCEPT !.ready_queue = <<>>] /\ nodes' = core.ready_queue
      /\ stage' = "issue" /\ fu_busy' = fu_busy
  BY DEF EndRefresh
<1>4. Sound(core, spec_mode, inst_seq, <<>>, {}, {}, {})
  BY ONLY <1>1, <1>2
<1>5. /\ Sound(core', spec_mode, inst_seq, core.ready_queue, {}, {}, {})
      /\ core.ready_queue \in Seq(Links) /\ core'.use_spec_cv = core.use_spec_cv
  BY ONLY <1>3, <1>4, TakeOverSound
<1>6. Quiet
  BY ONLY <1>5, EndRefresh DEF EndRefresh, Quiet, trace, frontend
<1>7. stage' \in Stages
  BY ONLY <1>3 DEF Stages
<1> QED BY ONLY IInv, <1>2, <1>3, <1>5, <1>6, <1>7, QuietInv

\* The steps of the issue loop take the first node off the list.
LEMMA IssueNextInv ==
  ASSUME IInv, stage = "issue", NEW m, IssueNext(m), fu_busy' \in [Units -> Nat],
         nodes # <<>>, Sound(m, spec_mode, inst_seq, Tail(nodes), {}, {}, {}), SameVectors(core, m)
  PROVE  IInv'
<1>1. FrontOK
  BY InvIs
<1>2. nodes \in Seq(Links)
  BY <1>1, FrontFacts
<1>3. core' = m /\ nodes' = Tail(nodes) /\ stage' = stage
  BY DEF IssueNext
<1>4. nodes' \in Seq(Links)
  BY ONLY <1>2, <1>3, nodes # <<>>
<1>5. Quiet
  BY ONLY IssueNext(m), SameVectors(core, m) DEF IssueNext, Quiet, trace, frontend, SameVectors
<1>6. stage' \in Stages /\ stage' = "issue"
  BY ONLY <1>3, stage = "issue" DEF Stages
<1>7. Sound(core', spec_mode, inst_seq, nodes', {}, {}, {})
  BY ONLY <1>3, Sound(m, spec_mode, inst_seq, Tail(nodes), {}, {}, {})
<1> QED BY ONLY IInv, <1>4, <1>5, <1>6, <1>7, fu_busy' \in [Units -> Nat], QuietInv

\* Only the count of free links changes.
LEMMA SameStationSound ==
  ASSUME NEW m, NEW mode, NEW last, NEW list \in Seq(Links), Sound(m, mode, last, list, {}, {}, {}),
         NEW m2, CoreOK(m2), m2.station = m.station, SameRing(m, m2), SameVectors(m, m2),
         SameLists(m, m2)
  PROVE  Sound(m2, mode, last, list, {}, {}, {})
<1>0. CoreOK(m)
  BY DEF Sound
<1>1. Same(m, m2)
  BY DEF Same, SameStatic
<1>2. Alike(m, m2)
  BY <1>1, SameAlike
<1>3. m2.ready_queue = m.ready_queue /\ m2.event_queue = m.event_queue
  BY DEF SameLists
<1>4. Ring(m2) /\ Kinds(m2) /\ Ordered(m2, last) /\ Paired(m2)
  BY <1>0, <1>1, SameShape DEF Sound
<1>5. Boundary(m2, mode)
  BY <1>0, <1>1, SameBoundary DEF Sound
<1>6. ChainsOK(m2, {}, {})
  BY <1>0, <1>2, SameChains DEF Sound
<1>7. CreatorsOK(m2, {})
  BY <1>0, <1>2, SameCreators DEF Sound
<1>8. FlagsOK(m2, {})
  BY <1>2, SameFlags DEF Sound
<1>9. EventsOK(m2)
  BY <1>0, <1>2, <1>3, SameEvents DEF Sound
<1>10. LoadsOK(m2)
  BY <1>2, SameLoads DEF Sound
<1>11. ReadyOK(m2, list)
  BY <1>0, <1>2, <1>3, SameReady DEF Sound
<1> QED BY ONLY CoreOK(m2), <1>4, <1>5, <1>6, <1>7, <1>8, <1>9, <1>10, <1>11 DEF Sound

\* Freeing a link changes nothing but the count.
LEMMA FreeNodeIs ==
  ASSUME CoreOK(core), NEW m2, m2 = FreeNode
  PROVE  /\ m2.station = core.station /\ SameRing(core, m2) /\ SameVectors(core, m2)
         /\ SameLists(core, m2) /\ CoreOK(m2)
<1>1. m2.station = core.station /\ SameRing(core, m2) /\ SameVectors(core, m2) /\ SameLists(core, m2)
  BY DEF FreeNode, CoreOK, SameRing, SameVectors, SameLists
<1>2. Record(m2)
  BY DEF FreeNode, CoreOK, Record
<1>3. CoreOK(m2)
  BY ONLY <1>1, <1>2, CoreOK(core) DEF CoreOK, Record, SameRing, SameVectors, SameLists
<1> QED BY ONLY <1>1, <1>3

\* A node of a squashed operation can be dropped.
LEMMA FreeNodeSound ==
  ASSUME NEW mode, NEW last, NEW list \in Seq(Links), list # <<>>,
         Sound(core, mode, last, list, {}, {}, {}), ~RSLINK_VALID(core, Head(list))
  PROVE  Sound(FreeNode, mode, last, Tail(list), {}, {}, {}) /\ SameVectors(core, FreeNode)
<1>1. PICK m2 : m2 = FreeNode
  OBVIOUS
<1>2. CoreOK(core) /\ ReadyOK(core, list)
  BY DEF Sound
<1>3. ReadyOK(core, Tail(list)) /\ Tail(list) \in Seq(Links)
  BY <1>2, DropNodeSound
<1>4. Sound(core, mode, last, Tail(list), {}, {}, {})
  BY ONLY <1>3, Sound(core, mode, last, list, {}, {}, {}) DEF Sound
<1>5. /\ m2.station = core.station /\ SameRing(core, m2) /\ SameVectors(core, m2)
      /\ SameLists(core, m2) /\ CoreOK(m2)
  BY <1>1, <1>2, FreeNodeIs
<1>6. Sound(m2, mode, last, Tail(list), {}, {}, {})
  BY ONLY <1>3, <1>4, <1>5, SameStationSound
<1> QED BY ONLY <1>1, <1>5, <1>6

\* ruu_issue drops it.
LEMMA DropSquashedNodeInv ==
  ASSUME IInv, DropSquashedNode
  PROVE  IInv'
<1>1. FrontOK /\ Sound(core, spec_mode, inst_seq, nodes, {}, {}, {})
  BY InvIs
<1>2. nodes \in Seq(Links) /\ fu_busy \in [Units -> Nat]
  BY <1>1, FrontFacts
<1>3. /\ stage = "issue" /\ nodes # <<>> /\ ~RSLINK_VALID(core, Head(nodes))
      /\ IssueNext(FreeNode) /\ fu_busy' = fu_busy
  BY DEF DropSquashedNode, Issuing
<1>4. PICK m : m = FreeNode
  OBVIOUS
<1>5. Sound(m, spec_mode, inst_seq, Tail(nodes), {}, {}, {}) /\ SameVectors(core, m)
  BY ONLY <1>1, <1>2, <1>3, <1>4, FreeNodeSound
<1>6. IssueNext(m)
  BY ONLY <1>3, <1>4
<1> QED BY ONLY IInv, <1>2, <1>3, <1>5, <1>6, IssueNextInv

\* ruu_issue completes a store.
LEMMA IssueStoreInv ==
  ASSUME IInv, IssueStore
  PROVE  IInv'
<1>1. FrontOK /\ Sound(core, spec_mode, inst_seq, nodes, {}, {}, {})
  BY InvIs
<1>2. nodes \in Seq(Links) /\ fu_busy \in [Units -> Nat]
  BY <1>1, FrontFacts
<1>3. PICK m : m = Stored(Head(nodes))
  OBVIOUS
<1>4. /\ stage = "issue" /\ nodes # <<>> /\ RSLINK_VALID(core, Head(nodes))
      /\ RS(core, Head(nodes)).op = "store" /\ fu_busy' = fu_busy
  BY DEF IssueStore, Issuing
<1>5. IssueNext(m)
  BY ONLY <1>3, IssueStore DEF IssueStore, Stored
<1>6. Sound(m, spec_mode, inst_seq, Tail(nodes), {}, {}, {}) /\ SameVectors(core, m)
  BY ONLY <1>1, <1>2, <1>3, <1>4, StoreSound
<1> QED BY ONLY IInv, <1>2, <1>4, <1>5, <1>6, IssueNextInv

\* ruu_issue starts an operation on a functional unit.
LEMMA IssueToUnitInv ==
  ASSUME IInv, IssueToUnit
  PROVE  IInv'
<1>1. FrontOK /\ Sound(core, spec_mode, inst_seq, nodes, {}, {}, {})
  BY InvIs
<1>2. nodes \in Seq(Links) /\ fu_busy \in [Units -> Nat]
  BY <1>1, FrontFacts
<1>3. PICK r : r = Head(nodes)
  OBVIOUS
<1>4. PICK class, u : class = FuClass(RS(core, r).op) /\ u = res_get(fu_busy, class)
  OBVIOUS
<1>5. /\ stage = "issue" /\ nodes # <<>> /\ RSLINK_VALID(core, Head(nodes))
      /\ FreeUnits(fu_busy, class) # {} /\ fu_busy' = Reserve(fu_busy, u, class)
  BY ONLY <1>3, <1>4, IssueToUnit DEF IssueToUnit, Issuing
<1>6. PICK lat \in IF RS(core, r).op = "load" THEN LoadLatencies(r) ELSE {fu_pool[u][class].oplat} :
        IssueNext(eventq_queue_event(Started(r), r, lat))
  BY ONLY <1>3, <1>4, IssueToUnit DEF IssueToUnit, Started
<1>7. u \in FreeUnits(fu_busy, class)
  BY ONLY <1>4, <1>5, UnitFound
<1>8. u \in Units /\ class \in DOMAIN fu_pool[u]
  BY ONLY <1>7 DEF FreeUnits
<1>9. fu_pool[u][class].oplat \in Nat /\ fu_pool[u][class].issuelat \in Nat
  BY <1>8, LatencyIs
<1>10. lat \in Int
  <2>1. CASE RS(core, r).op = "load"
    <3>1. LoadLats \subseteq Nat /\ TlbLats \subseteq Nat
      BY SizesAssumption
    <3>2. lat \in LoadLatencies(r)
      BY ONLY <1>6, <2>1
    <3>3. PICK D : D = IF Forwarded(r) THEN {1} ELSE LoadLats
      OBVIOUS
    <3>4. D \subseteq Nat
      BY ONLY <3>1, <3>3
    <3>5. lat \in {IF c > t THEN c ELSE t : c \in D, t \in TlbLats}
      <4>1. CASE Forwarded(r)
        BY ONLY <3>2, <3>3, <4>1 DEF LoadLatencies
      <4>2. CASE ~Forwarded(r)
        BY ONLY <3>2, <3>3, <4>2 DEF LoadLatencies
      <4> QED BY ONLY <4>1, <4>2
    <3> QED BY ONLY <3>1, <3>4, <3>5
  <2>2. CASE RS(core, r).op # "load"
    BY ONLY <1>6, <1>9, <2>2
  <2> QED BY ONLY <2>1, <2>2
<1>11. PICK m : m = eventq_queue_event(Started(Head(nodes)), Head(nodes), lat)
  OBVIOUS
<1>12. IssueNext(m)
  BY ONLY <1>3, <1>6, <1>11
<1>13. Sound(m, spec_mode, inst_seq, Tail(nodes), {}, {}, {}) /\ SameVectors(core, m)
  BY ONLY <1>1, <1>2, <1>5, <1>10, <1>11, IssueSound
<1>14. fu_busy' \in [Units -> Nat]
  <2>1. fu_busy' = [fu_busy EXCEPT ![u] = fu_pool[u][class].issuelat]
    BY ONLY <1>5 DEF Reserve
  <2> QED BY ONLY <1>2, <1>9, <2>1
<1> QED BY ONLY IInv, <1>5, <1>12, <1>13, <1>14, IssueNextInv

\* ruu_issue starts an operation that needs none.
LEMMA IssueWithoutUnitInv ==
  ASSUME IInv, IssueWithoutUnit
  PROVE  IInv'
<1>1. FrontOK /\ Sound(core, spec_mode, inst_seq, nodes, {}, {}, {})
  BY InvIs
<1>2. nodes \in Seq(Links) /\ fu_busy \in [Units -> Nat]
  BY <1>1, FrontFacts
<1>3. PICK lat \in Int : lat = 1
  OBVIOUS
<1>4. PICK m : m = eventq_queue_event(Started(Head(nodes)), Head(nodes), lat)
  OBVIOUS
<1>5. /\ stage = "issue" /\ nodes # <<>> /\ RSLINK_VALID(core, Head(nodes)) /\ fu_busy' = fu_busy
  BY DEF IssueWithoutUnit, Issuing
<1>6. IssueNext(m)
  BY ONLY <1>3, <1>4, IssueWithoutUnit DEF IssueWithoutUnit, Started
<1>7. Sound(m, spec_mode, inst_seq, Tail(nodes), {}, {}, {}) /\ SameVectors(core, m)
  BY ONLY <1>1, <1>2, <1>4, <1>5, IssueSound
<1> QED BY ONLY IInv, <1>2, <1>5, <1>6, <1>7, IssueNextInv

\* ruu_issue puts back an operation for which no unit is free.
LEMMA IssueNoFreeUnitInv ==
  ASSUME IInv, IssueNoFreeUnit
  PROVE  IInv'
<1>1. FrontOK /\ Sound(core, spec_mode, inst_seq, nodes, {}, {}, {})
  BY InvIs
<1>2. nodes \in Seq(Links) /\ fu_busy \in [Units -> Nat]
  BY <1>1, FrontFacts
<1>3. PICK m : m = readyq_enqueue(Unqueued(Head(nodes)), Head(nodes))
  OBVIOUS
<1>4. /\ stage = "issue" /\ nodes # <<>> /\ RSLINK_VALID(core, Head(nodes)) /\ fu_busy' = fu_busy
  BY DEF IssueNoFreeUnit, Issuing
<1>5. IssueNext(m)
  BY ONLY <1>3, IssueNoFreeUnit DEF IssueNoFreeUnit
<1>6. Sound(m, spec_mode, inst_seq, Tail(nodes), {}, {}, {}) /\ SameVectors(core, m)
  BY ONLY <1>1, <1>2, <1>3, <1>4, RequeueSound
<1> QED BY ONLY IInv, <1>2, <1>4, <1>5, <1>6, IssueNextInv

\* ruu_issue puts back what it did not reach.
LEMMA RequeueInv ==
  ASSUME IInv, Requeue
  PROVE  IInv'
<1>1. FrontOK /\ Sound(core, spec_mode, inst_seq, nodes, {}, {}, {})
  BY InvIs
<1>2. nodes \in Seq(Links) /\ fu_busy \in [Units -> Nat]
  BY <1>1, FrontFacts
<1>3. stage = "issue" /\ nodes # <<>> /\ fu_busy' = fu_busy
  BY DEF Requeue
<1>4. PICK m : m = IF RSLINK_VALID(core, Head(nodes))
                   THEN readyq_enqueue(Unqueued(Head(nodes)), Head(nodes)) ELSE FreeNode
  OBVIOUS
<1>5. IssueNext(m)
  BY ONLY <1>4, Requeue DEF Requeue
<1>6. Sound(m, spec_mode, inst_seq, Tail(nodes), {}, {}, {}) /\ SameVectors(core, m)
  <2>1. CASE RSLINK_VALID(core, Head(nodes))
    <3>1. m = readyq_enqueue(Unqueued(Head(nodes)), Head(nodes))
      BY ONLY <1>4, <2>1
    <3> QED BY ONLY <1>1, <1>2, <1>3, <2>1, <3>1, RequeueSound
  <2>2. CASE ~RSLINK_VALID(core, Head(nodes))
    <3>1. m = FreeNode
      BY ONLY <1>4, <2>2
    <3> QED BY ONLY <1>1, <1>2, <1>3, <2>2, <3>1, FreeNodeSound
  <2> QED BY ONLY <2>1, <2>2
<1> QED BY ONLY IInv, <1>2, <1>3, <1>5, <1>6, IssueNextInv

\* The end of ruu_issue changes no part.
LEMMA EndIssueInv ==
  ASSUME IInv, EndIssue
  PROVE  IInv'
<1>1. FrontOK /\ Sound(core, spec_mode, inst_seq, nodes, {}, {}, {})
  BY InvIs
<1>2. nodes \in Seq(Links) /\ fu_busy \in [Units -> Nat]
  BY <1>1, FrontFacts
<1>3. /\ Quiet /\ stage' \in {"fetch", "dispatch"} /\ nodes' = nodes /\ core' = core
      /\ fu_busy' = fu_busy /\ nodes = <<>>
  BY ONLY EndIssue DEF EndIssue, Quiet, trace, frontend
<1>4. stage' \in Stages
  BY ONLY <1>3 DEF Stages
<1> QED BY ONLY IInv, <1>1, <1>2, <1>3, <1>4, QuietInv

\* The end of ruu_dispatch changes no part.
LEMMA EndDispatchInv ==
  ASSUME IInv, EndDispatch
  PROVE  IInv'
<1>1. FrontOK /\ Sound(core, spec_mode, inst_seq, nodes, {}, {}, {})
  BY InvIs
<1>2. nodes \in Seq(Links) /\ fu_busy \in [Units -> Nat] /\ (stage # "issue" => nodes = <<>>)
  BY <1>1, FrontFacts
<1>3. /\ Quiet /\ stage = "dispatch" /\ stage' \in {"refresh", "fetch"} /\ nodes' = nodes /\ core' = core
      /\ fu_busy' = fu_busy
  BY ONLY EndDispatch DEF EndDispatch, Quiet, trace, frontend
<1>4. stage' \in Stages
  BY ONLY <1>3 DEF Stages
<1> QED BY ONLY IInv, <1>1, <1>2, <1>3, <1>4, QuietInv

\* The exit system call changes no part.
LEMMA ExitSyscallInv ==
  ASSUME IInv, ExitSyscall
  PROVE  IInv'
<1>1. FrontOK /\ Sound(core, spec_mode, inst_seq, nodes, {}, {}, {})
  BY InvIs
<1>2. nodes \in Seq(Links) /\ fu_busy \in [Units -> Nat] /\ (stage # "issue" => nodes = <<>>)
  BY <1>1, FrontFacts
<1>3. /\ Quiet /\ stage = "dispatch" /\ stage' = "halted" /\ nodes' = nodes /\ core' = core
      /\ fu_busy' = fu_busy
  BY ONLY ExitSyscall DEF ExitSyscall, Quiet, trace, frontend
<1>4. stage' \in Stages
  BY ONLY <1>3 DEF Stages
<1> QED BY ONLY IInv, <1>1, <1>2, <1>3, <1>4, QuietInv

-----------------------------------------------------------------------------
(*****************************************************************************)
(* Fetch.                                                                    *)
(*****************************************************************************)
\* Addresses are numbers, and only a control instruction goes anywhere but on.
LEMMA NextPCIs ==
  ASSUME text \in Programs, NEW pc \in Nat
  PROVE  /\ After(pc) \in Nat /\ Bogus \in Nat
         /\ NextPCs(pc) \subseteq Nat /\ Predictions(pc) \subseteq Nat
         /\ ~IsCtrl(InstAt(pc).op) => NextPCs(pc) = {After(pc)} /\ Predictions(pc) = {After(pc)}
<1>1. Decoded(InstAt(pc))
  BY InstIs
<1>2. InstAt(pc).target \in Nat
  BY ONLY <1>1 DEF Decoded
<1>3. text \in Seq(Instructions)
  BY ProgramsAssumption
<1>4. Len(text) \in Nat
  BY ONLY <1>3
<1>5. After(pc) \in Nat /\ Bogus \in Nat
  BY ONLY <1>4, pc \in Nat DEF After, Bogus
<1>6. NextPCs(pc) \subseteq Nat
  BY ONLY <1>2, <1>5 DEF NextPCs
<1>7. Predictions(pc) \subseteq Nat
  BY ONLY <1>2, <1>5 DEF Predictions
<1>8. ~IsCtrl(InstAt(pc).op) => NextPCs(pc) = {After(pc)} /\ Predictions(pc) = {After(pc)}
  BY ONLY TRUE DEF NextPCs, Predictions, IsCtrl
<1> QED BY ONLY <1>5, <1>6, <1>7, <1>8

\* The condition on a fetched instruction, for the program that runs.
LEMMA StraightIs ==
  ASSUME NEW f
  PROVE  Straight(text, f) <=> (~IsCtrl(InstAt(f.PC).op) => f.pred_PC = After(f.PC))
BY DEF Straight, InstAt, After, Bogus, NOP

\* It holds of the empty queue.
LEMMA NoneFetched == FetchedOK(text, <<>>)
<1>1. <<>> \in Seq([PC : Nat, pred_PC : Nat]) /\ Len(<<>>) = 0
  OBVIOUS
<1>2. ruu_ifq_size \in Nat
  BY SizesAssumption
<1>3. 1..Len(<<>>) = {}
  BY <1>1
<1> QED BY ONLY <1>1, <1>2, <1>3 DEF FetchedOK

\* It holds of the first instruction, and of the rest of the queue.
LEMMA FetchedFirst ==
  ASSUME FetchedOK(text, ifq), ifq # <<>>
  PROVE  /\ Head(ifq).PC \in Nat /\ Head(ifq).pred_PC \in Nat /\ Straight(text, Head(ifq))
         /\ FetchedOK(text, Tail(ifq))
<1>1. /\ ifq \in Seq([PC : Nat, pred_PC : Nat]) /\ Len(ifq) <= ruu_ifq_size
      /\ \A k \in 1..Len(ifq) : Straight(text, ifq[k])
  BY DEF FetchedOK
<1>2. Len(ifq) \in Nat /\ Len(ifq) > 0 /\ Head(ifq) = ifq[1] /\ ifq[1] \in [PC : Nat, pred_PC : Nat]
  <2>1. PICK D : D = [PC : Nat, pred_PC : Nat]
    OBVIOUS
  <2>2. ifq \in Seq(D)
    BY ONLY <1>1, <2>1
  <2>3. Len(ifq) \in Nat /\ Len(ifq) # 0 /\ Head(ifq) = ifq[1]
    BY ONLY <2>2, ifq # <<>>
  <2>4. ifq[1] \in D
    BY ONLY <2>2, <2>3
  <2> QED BY ONLY <2>1, <2>3, <2>4
<1>3. Tail(ifq) \in Seq([PC : Nat, pred_PC : Nat]) /\ Len(Tail(ifq)) = Len(ifq) - 1
  BY ONLY <1>1, ifq # <<>>
<1>4. ASSUME NEW k \in 1..Len(Tail(ifq)) PROVE Straight(text, Tail(ifq)[k])
  <2>1. k + 1 \in 1..Len(ifq) /\ Tail(ifq)[k] = ifq[k + 1]
    BY ONLY <1>1, <1>2, <1>3, k \in 1..Len(Tail(ifq))
  <2> QED BY ONLY <1>1, <2>1
<1>5. ruu_ifq_size \in Nat
  BY SizesAssumption
<1>6. FetchedOK(text, Tail(ifq))
  BY ONLY <1>1, <1>2, <1>3, <1>4, <1>5 DEF FetchedOK
<1> QED BY ONLY <1>1, <1>2, <1>6

\* It holds after a fetch.
LEMMA FetchedMore ==
  ASSUME FetchedOK(text, ifq), Len(ifq) < ruu_ifq_size,
         NEW f \in [PC : Nat, pred_PC : Nat], Straight(text, f)
  PROVE  FetchedOK(text, Append(ifq, f))
<1>1. /\ ifq \in Seq([PC : Nat, pred_PC : Nat]) /\ \A k \in 1..Len(ifq) : Straight(text, ifq[k])
  BY DEF FetchedOK
<1>2. ruu_ifq_size \in Nat
  BY SizesAssumption
<1>3. /\ Append(ifq, f) \in Seq([PC : Nat, pred_PC : Nat]) /\ Len(Append(ifq, f)) = Len(ifq) + 1
      /\ Len(ifq) \in Nat
  BY ONLY <1>1, f \in [PC : Nat, pred_PC : Nat]
<1>4. ASSUME NEW k \in 1..Len(Append(ifq, f)) PROVE Straight(text, Append(ifq, f)[k])
  <2>1. CASE k \in 1..Len(ifq)
    <3>1. Append(ifq, f)[k] = ifq[k]
      BY ONLY <1>1, <2>1
    <3> QED BY ONLY <1>1, <2>1, <3>1
  <2>2. CASE k = Len(ifq) + 1
    <3>1. Append(ifq, f)[k] = f
      BY ONLY <1>1, <2>2
    <3> QED BY ONLY <3>1, Straight(text, f)
  <2> QED BY ONLY <1>3, <2>1, <2>2, k \in 1..Len(Append(ifq, f))
<1> QED BY ONLY <1>2, <1>3, <1>4, Len(ifq) < ruu_ifq_size DEF FetchedOK

\* ruu_fetch keeps the invariant.
LEMMA FetchInv ==
  ASSUME IInv, Fetch
  PROVE  IInv'
<1>1. FrontOK /\ Sound(core, spec_mode, inst_seq, nodes, {}, {}, {})
  BY InvIs
<1>2. text \in Programs /\ fetch_pred_PC \in Nat /\ FetchedOK(text, ifq)
  BY <1>1 DEF FrontOK
<1>3. PICK pred \in Predictions(fetch_pred_PC) :
        /\ ifq' = Append(ifq, [PC |-> fetch_pred_PC, pred_PC |-> pred]) /\ fetch_pred_PC' = pred
  BY DEF Fetch
<1>4. PICK f : f = [PC |-> fetch_pred_PC, pred_PC |-> pred]
  OBVIOUS
<1>5. pred \in Nat /\ (~IsCtrl(InstAt(fetch_pred_PC).op) => pred = After(fetch_pred_PC))
  BY <1>2, NextPCIs
<1>6. f \in [PC : Nat, pred_PC : Nat] /\ f.PC = fetch_pred_PC /\ f.pred_PC = pred
  BY ONLY <1>2, <1>4, <1>5
<1>7. Straight(text, f)
  BY ONLY <1>5, <1>6, StraightIs
<1>8. Len(ifq) < ruu_ifq_size
  BY DEF Fetch, CanFetch
<1>9. FetchedOK(text, ifq')
  BY ONLY <1>2, <1>3, <1>4, <1>6, <1>7, <1>8, FetchedMore
<1>10. UNCHANGED <<text, config, core, fu_busy, spec_mode, recover_PC, inst_seq, stage, nodes>>
  BY ONLY Fetch DEF Fetch, trace
<1>11. FrontOK'
  BY ONLY <1>1, <1>3, <1>5, <1>9, <1>10 DEF FrontOK
<1> QED BY ONLY <1>1, <1>10, <1>11, InvNext

\* The end of a cycle keeps the invariant.
LEMMA EndCycleInv ==
  ASSUME IInv, EndCycle, stage = "fetch"
  PROVE  IInv'
<1>1. FrontOK /\ Sound(core, spec_mode, inst_seq, nodes, {}, {}, {})
  BY InvIs
<1>2. nodes \in Seq(Links) /\ fu_busy \in [Units -> Nat] /\ nodes = <<>>
  BY <1>1, stage = "fetch", FrontFacts
<1>3. core' = Later(core)
  BY DEF EndCycle, Later, Aged
<1>4. Sound(core', spec_mode, inst_seq, nodes, {}, {}, {}) /\ SameVectors(core, core')
  BY ONLY <1>1, <1>2, <1>3, LaterSound
<1>5. Quiet /\ stage' \in {"halted", "commit"} /\ nodes' = nodes /\ fu_busy' = fu_busy
  BY ONLY <1>4, EndCycle DEF EndCycle, Quiet, trace, SameVectors
<1>6. stage' \in Stages
  BY ONLY <1>5 DEF Stages
<1> QED BY ONLY IInv, <1>2, <1>4, <1>5, <1>6, QuietInv

-----------------------------------------------------------------------------
(*****************************************************************************)
(* Dispatch, and all steps together.                                         *)
(*****************************************************************************)
\* What dispatch makes of the core, but for the mark of a misprediction.
Dispatched(f, npc, i) ==
  CASE i.op = "nop" -> core
    [] IsMem(i.op) -> DispatchMem(core, f, npc, i)
    [] OTHER -> DispatchOp(core, f, npc, i)

SeqAfter(i) == inst_seq + (CASE i.op = "nop" -> 0 [] IsMem(i.op) -> 2 [] OTHER -> 1)

\* Dispatch keeps every part, up to the mark of a misprediction.
LEMMA DispatchedSound ==
  ASSUME FrontOK, Sound(core, spec_mode, inst_seq, nodes, {}, {}, {}), CanDispatch,
         NEW f, f.PC \in Nat, NEW npc \in Nat, NEW i, Decoded(i),
         NEW m, m = Dispatched(f, npc, i), NEW last, last = SeqAfter(i)
  PROVE  /\ Sound(m, spec_mode, last, nodes, {}, {}, {}) /\ last \in Nat
         /\ ~spec_mode => SameUse(core, m)
         /\ IsCtrl(i.op) => Latest(m, core.tail["RUU"], last)
<1>1. nodes \in Seq(Links) /\ inst_seq \in Nat /\ spec_mode \in BOOLEAN
  BY FrontFacts
<1>2. UseOK(core)
  BY DEF FrontOK, UseOK
<1>3. core.num["RUU"] < Size["RUU"] /\ core.num["LSQ"] < Size["LSQ"]
  BY SizeType DEF CanDispatch
<1>4. CASE i.op = "nop"
  <2>1. m = core /\ last = inst_seq /\ ~IsCtrl(i.op)
    BY ONLY <1>1, <1>4, m = Dispatched(f, npc, i), last = SeqAfter(i) DEF Dispatched, SeqAfter, IsCtrl, IsMem
  <2> QED BY ONLY <1>1, <2>1, Sound(core, spec_mode, inst_seq, nodes, {}, {}, {}) DEF SameUse
<1>5. CASE IsMem(i.op)
  <2>1. m = DispatchMem(core, f, npc, i) /\ last = inst_seq + 2 /\ ~IsCtrl(i.op)
    BY ONLY <1>1, <1>5, m = Dispatched(f, npc, i), last = SeqAfter(i) DEF Dispatched, SeqAfter, IsCtrl, IsMem
  <2>2. /\ Sound(m, spec_mode, inst_seq + 2, nodes, {}, {}, {})
        /\ ~spec_mode => SameUse(core, m)
    BY ONLY <1>1, <1>2, <1>3, <1>5, <2>1, DispatchMemSound, f.PC \in Nat, npc \in Nat, Decoded(i),
            Sound(core, spec_mode, inst_seq, nodes, {}, {}, {})
  <2> QED BY ONLY <1>1, <2>1, <2>2
<1>6. CASE i.op # "nop" /\ ~IsMem(i.op)
  <2>1. m = DispatchOp(core, f, npc, i) /\ last = inst_seq + 1
    BY ONLY <1>1, <1>6, m = Dispatched(f, npc, i), last = SeqAfter(i) DEF Dispatched, SeqAfter
  <2>2. /\ Sound(m, spec_mode, inst_seq + 1, nodes, {}, {}, {})
        /\ Latest(m, core.tail["RUU"], inst_seq + 1)
        /\ ~spec_mode => SameUse(core, m)
    BY ONLY <1>1, <1>2, <1>3, <1>6, <2>1, DispatchOpSound, f.PC \in Nat, npc \in Nat, Decoded(i),
            Sound(core, spec_mode, inst_seq, nodes, {}, {}, {})
  <2> QED BY ONLY <1>1, <2>1, <2>2
<1> QED BY ONLY <1>4, <1>5, <1>6

\* ruu_dispatch keeps the invariant.
LEMMA DispatchInv ==
  ASSUME IInv, Dispatch
  PROVE  IInv'
<1>1. FrontOK /\ Sound(core, spec_mode, inst_seq, nodes, {}, {}, {})
  BY InvIs
<1>2. text \in Programs /\ FetchedOK(text, ifq) /\ spec_mode \in BOOLEAN /\ nodes \in Seq(Links)
      /\ recover_PC \in Nat /\ fetch_pred_PC \in Nat
  BY ONLY <1>1 DEF FrontOK
<1>3. CanDispatch /\ ifq # <<>>
  BY DEF Dispatch, CanDispatch
<1>4. PICK f, i, r : f = Head(ifq) /\ i = InstAt(f.PC) /\ r = Ref("RUU", core.tail["RUU"])
  OBVIOUS
<1>5. f.PC \in Nat /\ f.pred_PC \in Nat /\ Straight(text, f) /\ FetchedOK(text, Tail(ifq))
  BY ONLY <1>2, <1>3, <1>4, FetchedFirst
<1>6. Decoded(i)
  BY ONLY <1>2, <1>4, InstIs
<1>7. PICK npc \in NextPCs(f.PC) :
        /\ core' = IF Misspeculates(f, npc, i) THEN Marked(Dispatched(f, npc, i), r)
                   ELSE Dispatched(f, npc, i)
        /\ spec_mode' = (spec_mode \/ Misspeculates(f, npc, i))
        /\ recover_PC' = IF Misspeculates(f, npc, i) THEN npc ELSE recover_PC
        /\ IF Redirects(f, npc, i) THEN ifq' = <<>> /\ fetch_pred_PC' = npc
           ELSE ifq' = Tail(ifq) /\ fetch_pred_PC' = fetch_pred_PC
        /\ inst_seq' = SeqAfter(i)
  BY ONLY <1>4, Dispatch DEF Dispatch, Dispatched, SeqAfter, Marked
<1>8. npc \in Nat /\ (~IsCtrl(i.op) => npc = After(f.PC))
  BY ONLY <1>2, <1>4, <1>5, <1>7, NextPCIs
<1>9. Misspeculates(f, npc, i) => ~spec_mode /\ IsCtrl(i.op)
  <2>1. ~IsCtrl(i.op) => f.pred_PC = npc
    BY ONLY <1>4, <1>5, <1>8, StraightIs
  <2> QED BY ONLY <2>1 DEF Misspeculates
<1>10. PICK m, last : m = Dispatched(f, npc, i) /\ last = SeqAfter(i)
  OBVIOUS
<1>11. /\ Sound(m, spec_mode, last, nodes, {}, {}, {}) /\ last \in Nat
       /\ ~spec_mode => SameUse(core, m)
       /\ IsCtrl(i.op) => Latest(m, core.tail["RUU"], last)
  BY ONLY <1>1, <1>3, <1>5, <1>6, <1>8, <1>10, DispatchedSound
<1>12. /\ Sound(core', spec_mode', inst_seq', nodes, {}, {}, {})
       /\ ~spec_mode' => SameUse(core, core')
  <2>1. CASE Misspeculates(f, npc, i)
    <3>1. core' = Marked(m, Ref("RUU", core.tail["RUU"])) /\ spec_mode' = TRUE
      BY ONLY <1>4, <1>7, <1>10, <2>1
    <3>2. spec_mode = FALSE
      BY ONLY <1>2, <1>9, <2>1
    <3>3. Sound(m, FALSE, last, nodes, {}, {}, {}) /\ Latest(m, core.tail["RUU"], last)
      BY ONLY <1>9, <1>11, <2>1, <3>2
    <3>4. Sound(core', TRUE, last, nodes, {}, {}, {})
      BY ONLY <1>2, <1>11, <3>1, <3>3, MarkSound
    <3> QED BY ONLY <1>7, <1>10, <3>1, <3>4
  <2>2. CASE ~Misspeculates(f, npc, i)
    <3>1. core' = m /\ (spec_mode' <=> spec_mode) /\ spec_mode' \in BOOLEAN
      BY ONLY <1>2, <1>7, <1>10, <2>2
    <3>2. spec_mode' = spec_mode
      <4>1. CASE spec_mode = TRUE
        BY ONLY <3>1, <4>1
      <4>2. CASE spec_mode = FALSE
        BY ONLY <3>1, <4>2
      <4> QED BY ONLY <1>2, <4>1, <4>2
    <3> QED BY ONLY <1>7, <1>10, <1>11, <3>1, <3>2
  <2> QED BY ONLY <2>1, <2>2
<1>13. UNCHANGED <<text, config, fu_busy, stage, nodes>>
  BY ONLY Dispatch DEF Dispatch, trace
<1>14. FetchedOK(text, ifq') /\ fetch_pred_PC' \in Nat /\ recover_PC' \in Nat
  <2>1. fetch_pred_PC' \in Nat /\ recover_PC' \in Nat
    BY ONLY <1>2, <1>7, <1>8
  <2>2. ifq' = <<>> \/ ifq' = Tail(ifq)
    BY ONLY <1>7
  <2> QED BY ONLY <1>5, <2>1, <2>2, NoneFetched
<1>15. spec_mode' \in BOOLEAN /\ inst_seq' \in Nat
  BY ONLY <1>2, <1>7, <1>10, <1>11
<1>16. ~spec_mode' => core'.use_spec_cv = {}
  <2>1. ~spec_mode' => ~spec_mode
    BY ONLY <1>7
  <2>2. ~spec_mode => core.use_spec_cv = {}
    BY ONLY <1>1 DEF FrontOK
  <2> QED BY ONLY <1>12, <2>1, <2>2 DEF SameUse
<1>17. FrontOK'
  BY ONLY <1>1, <1>13, <1>14, <1>15, <1>16 DEF FrontOK
<1> QED BY ONLY <1>12, <1>13, <1>17, InvNext

\* A step that changes nothing keeps the invariant.
LEMMA StutterInv ==
  ASSUME IInv, UNCHANGED vars
  PROVE  IInv'
<1>1. FrontOK /\ Sound(core, spec_mode, inst_seq, nodes, {}, {}, {})
  BY InvIs
<1>2. UNCHANGED <<text, config, core, fu_busy, ifq, fetch_pred_PC, recover_PC, spec_mode, inst_seq, stage, nodes>>
  BY DEF vars
<1>3. FrontOK'
  BY ONLY <1>1, <1>2 DEF FrontOK
<1> QED BY ONLY <1>1, <1>2, <1>3, InvNext

\* Every step keeps the invariant.
LEMMA StepInv ==
  ASSUME IInv, [Next]_vars
  PROVE  IInv'
<1>1. ASSUME FetchMiss \/ FetchBlocked \/ EndFetch PROVE IInv'
  <2>1. EndCycle /\ stage = "fetch"
    BY ONLY <1>1 DEF FetchMiss, FetchBlocked, EndFetch, CanFetch
  <2> QED BY ONLY IInv, <2>1, EndCycleInv
<1>2. Halted => UNCHANGED vars
  BY ONLY TRUE DEF Halted
<1>3. CASE Next
  BY ONLY IInv, <1>1, <1>2, <1>3, CommitInv, EndCommitInv, WritebackInv, DropSquashedEventInv,
     EndWritebackInv, RefreshLoadInv, EndRefreshInv, IssueStoreInv, IssueToUnitInv,
     IssueNoFreeUnitInv, IssueWithoutUnitInv, DropSquashedNodeInv, RequeueInv, EndIssueInv,
     DispatchInv, ExitSyscallInv, EndDispatchInv, FetchInv, StutterInv DEF Next
<1>4. CASE UNCHANGED vars
  BY ONLY IInv, <1>4, StutterInv
<1> QED BY ONLY [Next]_vars, <1>3, <1>4

-----------------------------------------------------------------------------
(*****************************************************************************)
(* The initial state, and the theorem.                                       *)
(*****************************************************************************)
\* The idle station is a station.
LEMMA IdleType == IdleStation \in Station
<1>1. <<NA, NA>> \in [1..2 -> Names \cup {NA}]
  OBVIOUS
<1>2. <<<<>>, <<>>>> \in [1..2 -> Seq(Links)]
  <2>1. <<>> \in Seq(Links)
    OBVIOUS
  <2>2. \A e \in Seq(Links) : <<e, e>> \in [1..2 -> Seq(Links)]
    OBVIOUS
  <2> QED BY <2>1, <2>2
<1>3. <<FALSE, FALSE, FALSE>> \in [1..3 -> BOOLEAN]
  <2>1. \A e \in BOOLEAN : <<e, e, e>> \in [1..3 -> BOOLEAN]
    OBVIOUS
  <2> QED BY <2>1
<1> QED BY <1>1, <1>2, <1>3 DEF IdleStation, Station, Ops

\* The empty core is well typed and its slots are free.
LEMMA InitCore ==
  ASSUME Init
  PROVE  /\ CoreOK(core) /\ Ring(core)
         /\ \A q \in Queues : \A i \in Slot(q) :
              ~In(core, q, i) /\ core.station[q][i] = IdleStation
         /\ core.ready_queue = <<>> /\ core.event_queue = <<>>
         /\ \A name \in Names : core.create_vector[name] = NONE
                                /\ CREATE_VECTOR(core, name) = NONE
         /\ core.use_spec_cv = {}
<1>1. core = [station |-> [q \in {"RUU", "LSQ"} |->
                            [i \in 0..(Size[q] - 1) |-> IdleStation]],
             head |-> [RUU |-> 0, LSQ |-> 0],
             tail |-> [RUU |-> 0, LSQ |-> 0],
             num |-> [RUU |-> 0, LSQ |-> 0],
             ready_queue |-> <<>>, event_queue |-> <<>>,
             create_vector |-> [r \in Regs \cup {DTMP} |-> NONE],
             spec_create_vector |-> [r \in Regs \cup {DTMP} |-> NONE],
             use_spec_cv |-> {},
             free_links |-> MAX_RS_LINKS]
  BY DEF Init
<1>2. \A q \in Queues : core.head[q] = 0 /\ core.tail[q] = 0 /\ core.num[q] = 0
  BY ONLY <1>1 DEF Queues
<1>3. /\ core.head \in [Queues -> Nat] /\ core.tail \in [Queues -> Nat]
      /\ core.num \in [Queues -> Nat]
  BY ONLY <1>1 DEF Queues
<1>4. /\ core.station = [q \in Queues |-> core.station[q]]
      /\ \A q \in Queues : core.station[q] = [i \in Slot(q) |-> IdleStation]
  BY ONLY <1>1 DEF Queues, Slot
<1>5. \A q \in Queues : core.station[q] \in [Slot(q) -> Station]
  BY ONLY <1>4, IdleType
<1>6. \A q \in Queues : 0 \in Slot(q) /\ 0 <= Size[q] /\ Size[q] \in Nat /\ Size[q] > 0
  BY ONLY SizeType DEF Slot
<1>7. /\ core.ready_queue = <<>> /\ core.event_queue = <<>>
      /\ core.ready_queue \in Seq(Links) /\ core.event_queue \in Seq(Links)
      /\ core.use_spec_cv = {}
  BY ONLY <1>1
<1>8. /\ core.create_vector = [r \in Names |-> NONE]
      /\ core.spec_create_vector = [r \in Names |-> NONE]
  BY ONLY <1>1 DEF Names
<1>9. /\ core.create_vector \in [Names -> Creators \cup {NONE}]
      /\ core.spec_create_vector \in [Names -> Creators \cup {NONE}]
  BY ONLY <1>8
<1>10. Record(core)
  BY ONLY <1>1 DEF Record
<1>11. CoreOK(core)
  BY ONLY <1>2, <1>3, <1>4, <1>5, <1>6, <1>7, <1>9, <1>10 DEF CoreOK, Record
<1>12. Ring(core)
  <2> SUFFICES ASSUME NEW q \in Queues PROVE core.tail[q] = (core.head[q] + core.num[q]) % Size[q]
    BY DEF Ring
  <2>1. (0 + 0) % Size[q] = 0
    BY ONLY <1>6, Mod
  <2> QED BY ONLY <1>2, <2>1
<1>13. ASSUME NEW q \in Queues, NEW i \in Slot(q)
       PROVE  ~In(core, q, i) /\ core.station[q][i] = IdleStation
  <2>1. Distance(core, q, i) \in 0..(Size[q] - 1)
    BY ONLY <1>11, <1>13, DistanceIs
  <2>2. ~In(core, q, i)
    BY ONLY <1>2, <1>6, <1>13, <2>1 DEF In
  <2>3. core.station[q][i] = IdleStation
    BY ONLY <1>4, <1>13
  <2> QED BY ONLY <2>2, <2>3
<1>14. \A name \in Names : core.create_vector[name] = NONE /\ CREATE_VECTOR(core, name) = NONE
  BY ONLY <1>7, <1>8 DEF CREATE_VECTOR
<1> QED BY ONLY <1>7, <1>11, <1>12, <1>13, <1>14

\* The invariant holds when the simulator starts.
LEMMA InitInv ==
  ASSUME Init
  PROVE  IInv
<1>1. /\ CoreOK(core) /\ Ring(core)
      /\ \A q \in Queues : \A i \in Slot(q) :
           ~In(core, q, i) /\ core.station[q][i] = IdleStation
      /\ core.ready_queue = <<>> /\ core.event_queue = <<>>
      /\ \A name \in Names : core.create_vector[name] = NONE
                             /\ CREATE_VECTOR(core, name) = NONE
      /\ core.use_spec_cv = {}
  BY InitCore
<1>2. /\ text \in Programs /\ config \in Configs /\ ifq = <<>> /\ fetch_pred_PC = 1
      /\ recover_PC = 0 /\ spec_mode = FALSE /\ inst_seq = 0 /\ nodes = <<>>
      /\ stage = "commit" /\ fu_busy = [u \in Units |-> 0]
  BY DEF Init
<1>3. FetchedOK(text, <<>>)
  BY ONLY NoneFetched
<1>4. FrontOK
  <2>1. fu_busy \in [Units -> Nat] /\ nodes \in Seq(Links)
    BY ONLY <1>2
  <2>2. fetch_pred_PC \in Nat /\ recover_PC \in Nat /\ inst_seq \in Nat /\ spec_mode \in BOOLEAN
    BY ONLY <1>2
  <2>3. FetchedOK(text, ifq)
    BY ONLY <1>2, <1>3
  <2> QED BY ONLY <1>1, <1>2, <2>1, <2>2, <2>3 DEF FrontOK
<1>5. Kinds(core) /\ Ordered(core, inst_seq) /\ FlagsOK(core, {})
  BY ONLY <1>1 DEF Kinds, Ordered, FlagsOK
<1>6. Paired(core)
  BY ONLY <1>1 DEF Paired, Queues
<1>7. Boundary(core, spec_mode)
  BY ONLY <1>1, <1>2 DEF Boundary
<1>8. ReadyOK(core, nodes) /\ EventsOK(core)
  BY ONLY <1>1, <1>2 DEF ReadyOK, EventsOK, NoTwoTargets
<1>9. \A q \in Queues : \A i \in Slot(q) : \A d \in 1..2 : Chain(core, q, i, d) = <<>>
  BY ONLY <1>1 DEF Chain, IdleStation
<1>10. ChainsOK(core, {}, {})
  <2>1. ChainsInFlight(core, {}) /\ ChainLinks(core, {}) /\ LinkedOnce(core)
    BY ONLY <1>9 DEF ChainsInFlight, ChainLinks, LinkedOnce
  <2>2. AllLinked(core, {})
    BY ONLY <1>1 DEF AllLinked
  <2> QED BY ONLY <2>1, <2>2, ChainsParts
<1>11. CreatorsOK(core, {})
  <2>1. ASSUME NEW name \in Names, NEW all PROVE Precise(core, NONE, name, all, {})
    BY ONLY <1>1 DEF Precise, Writes
  <2> QED BY ONLY <1>1, <2>1 DEF CreatorsOK
<1>12. LoadsOK(core)
  BY ONLY <1>1 DEF LoadsOK, Queues
<1> QED BY ONLY <1>1, <1>4, <1>5, <1>6, <1>7, <1>8, <1>10, <1>11, <1>12 DEF IInv

\* The core of the simulator is always in the state the invariant describes,
\* whatever caches, predictors and functional units do.
THEOREM CoreInvariance == Spec => []IInv
<1>1. Init => IInv
  BY InitInv
<1>2. IInv /\ [Next]_vars => IInv'
  BY StepInv
<1> QED BY <1>1, <1>2, PTL DEF Spec

-----------------------------------------------------------------------------
(*****************************************************************************)
(* What follows from the invariant.                                          *)
(*****************************************************************************)
\* The bounds and types of the queues follow from the invariant.
LEMMA TypesHold == ASSUME IInv PROVE TypeOK
<1>1. CoreOK(core) /\ FrontOK
  BY DEF IInv
<1>2. \A q \in Queues :
        /\ core.head[q] \in 0..(Size[q] - 1) /\ core.tail[q] \in 0..(Size[q] - 1)
        /\ core.num[q] \in 0..Size[q]
  <2> SUFFICES ASSUME NEW q \in Queues
               PROVE  /\ core.head[q] \in 0..(Size[q] - 1) /\ core.tail[q] \in 0..(Size[q] - 1)
                      /\ core.num[q] \in 0..Size[q]
    OBVIOUS
  <2>1. /\ core.head[q] \in Nat /\ core.head[q] < Size[q]
        /\ core.tail[q] \in Nat /\ core.tail[q] < Size[q]
        /\ core.num[q] \in Nat /\ core.num[q] <= Size[q]
        /\ Size[q] \in Nat /\ Size[q] > 0
    BY ONLY <1>1, Pointers
  <2> QED BY ONLY <2>1
<1>3. Len(ifq) <= ruu_ifq_size
  BY ONLY <1>1 DEF FrontOK, FetchedOK
<1>4. /\ fu_busy \in [Units -> Nat] /\ spec_mode \in BOOLEAN
      /\ stage \in {"commit", "writeback", "refresh", "issue", "dispatch", "fetch", "halted"}
  BY ONLY <1>1 DEF FrontOK
<1> QED BY ONLY <1>2, <1>3, <1>4 DEF TypeOK, Queues

\* Position p of the LSQ is a slot at that distance from the head.
LEMMA PositionIs ==
  ASSUME CoreOK(core), NEW p \in 0..(core.num.LSQ - 1)
  PROVE  \E i \in Slot("LSQ") :
           /\ In(core, "LSQ", i) /\ Distance(core, "LSQ", i) = p
           /\ LSQAt(p) = core.station["LSQ"][i]
<1>1. /\ core.num["LSQ"] \in Nat /\ core.num["LSQ"] <= Size["LSQ"]
      /\ Size["LSQ"] \in Nat /\ "LSQ" \in Queues
  BY Pointers DEF Queues
<1>2. p \in 0..(Size["LSQ"] - 1) /\ p < core.num["LSQ"]
  BY ONLY <1>1
<1>3. PICK i : i = (core.head["LSQ"] + p) % Size["LSQ"]
  OBVIOUS
<1>4. i \in Slot("LSQ") /\ Distance(core, "LSQ", i) = p
  BY ONLY CoreOK(core), <1>1, <1>2, <1>3, SlotAt
<1>5. LSQAt(p) = core.station["LSQ"][i]
  BY ONLY <1>3, SizeType DEF LSQAt
<1>6. In(core, "LSQ", i)
  BY ONLY <1>2, <1>4 DEF In
<1> QED BY ONLY <1>4, <1>5, <1>6

\* The loads that were released satisfy the condition at the positions of the LSQ.
LEMMA LoadsHold == ASSUME IInv PROVE LoadsWaitForStores
<1>1. CoreOK(core) /\ LoadsOK(core)
  BY DEF IInv
<1> SUFFICES ASSUME NEW p \in 0..(core.num.LSQ - 1), NEW s \in 0..(p - 1),
                    LSQAt(p).op = "load", LSQAt(p).queued \/ LSQAt(p).issued, StoreAt(s)
             PROVE  /\ STORE_ADDR_READY(LSQAt(s))
                    /\ \/ LSQAt(s).addr # LSQAt(p).addr \/ OPERANDS_READY(LSQAt(s))
                       \/ \E t \in (s + 1)..(p - 1) :
                            StoreAt(t) /\ LSQAt(t).addr = LSQAt(p).addr
  BY DEF LoadsWaitForStores
<1>2. core.num.LSQ \in Nat
  BY ONLY <1>1, Pointers DEF Queues
<1>3. s \in 0..(core.num.LSQ - 1) /\ p \in Nat /\ s \in Nat /\ s < p
  BY ONLY <1>2
<1>4. PICK i \in Slot("LSQ") : /\ In(core, "LSQ", i) /\ Distance(core, "LSQ", i) = p
                               /\ LSQAt(p) = core.station["LSQ"][i]
  BY ONLY <1>1, PositionIs
<1>5. PICK j \in Slot("LSQ") : /\ In(core, "LSQ", j) /\ Distance(core, "LSQ", j) = s
                               /\ LSQAt(s) = core.station["LSQ"][j]
  BY ONLY <1>1, <1>3, PositionIs
<1>6. PICK load, store : load = core.station["LSQ"][i] /\ store = core.station["LSQ"][j]
  OBVIOUS
<1>7. /\ STORE_ADDR_READY(store)
      /\ \/ store.addr # load.addr \/ OPERANDS_READY(store)
         \/ \E t \in Slot("LSQ") :
              /\ s < Distance(core, "LSQ", t) /\ Distance(core, "LSQ", t) < p
              /\ core.station["LSQ"][t].op = "store"
              /\ core.station["LSQ"][t].addr = load.addr
  <2>1. load.op = "load" /\ (load.queued \/ load.issued) /\ store.op = "store"
    BY ONLY <1>4, <1>5, <1>6, LSQAt(p).op = "load", LSQAt(p).queued \/ LSQAt(p).issued, StoreAt(s)
    DEF StoreAt
  <2> QED BY ONLY <1>1, <1>3, <1>4, <1>5, <1>6, <2>1 DEF LoadsOK
<1>8. ASSUME NEW t \in Slot("LSQ"), s < Distance(core, "LSQ", t), Distance(core, "LSQ", t) < p
      PROVE  LSQAt(Distance(core, "LSQ", t)) = core.station["LSQ"][t]
             /\ Distance(core, "LSQ", t) \in (s + 1)..(p - 1)
  <2>1. PICK d : d = Distance(core, "LSQ", t)
    OBVIOUS
  <2>2. "LSQ" \in Queues
    BY ONLY TRUE DEF Queues
  <2>3. (core.head["LSQ"] + d) % Size["LSQ"] = t
    BY ONLY <1>1, <1>8, <2>1, <2>2, SlotOf
  <2>4. d \in Int
    BY ONLY <1>1, <1>8, <2>1, <2>2, DistanceIs, SizeType
  <2> QED BY ONLY <1>3, <1>8, <2>1, <2>3, <2>4, SizeType DEF LSQAt
<1> QED BY ONLY <1>4, <1>5, <1>6, <1>7, <1>8 DEF StoreAt

\* Operations in flight, as references, are the slots in use.
LEMMA InFlightIs ==
  ASSUME CoreOK(core)
  PROVE  /\ \A r \in InFlight : /\ r.q \in Queues /\ r.i \in Slot(r.q)
                                /\ In(core, r.q, r.i) /\ r = Ref(r.q, r.i)
         /\ \A q \in Queues : \A i \in Slot(q) : In(core, q, i) => Ref(q, i) \in InFlight
<1>1. \A q \in Queues : Slots(q) = {i \in Slot(q) : In(core, q, i)}
  BY SlotsIn
<1>2. "RUU" \in Queues /\ "LSQ" \in Queues
  BY ONLY TRUE DEF Queues
<1>3. ASSUME NEW r \in InFlight
      PROVE  /\ r.q \in Queues /\ r.i \in Slot(r.q)
             /\ In(core, r.q, r.i) /\ r = Ref(r.q, r.i)
  <2>1. PICK q \in Queues : \E i \in Slots(q) : r = Ref(q, i)
    BY ONLY <1>2, <1>3 DEF InFlight
  <2>2. PICK i \in Slots(q) : r = Ref(q, i)
    BY ONLY <2>1
  <2>3. i \in Slot(q) /\ In(core, q, i)
    BY ONLY <1>1, <2>2
  <2>4. r.q = q /\ r.i = i
    BY ONLY <2>2 DEF Ref
  <2> QED BY ONLY <2>2, <2>3, <2>4
<1>4. ASSUME NEW q \in Queues, NEW i \in Slot(q), In(core, q, i)
      PROVE  Ref(q, i) \in InFlight
  BY ONLY <1>1, <1>4 DEF InFlight, Queues
<1> QED BY ONLY <1>3, <1>4

\* The mispredicted operation and the speculative ones are where they should be.
LEMMA BoundaryHolds == ASSUME IInv PROVE SpeculationBoundary
<1>1. CoreOK(core) /\ Boundary(core, spec_mode) /\ spec_mode \in BOOLEAN
  BY DEF IInv, FrontOK
<1>2. PICK C : C = {r \in InFlight : RS(core, r).recover_inst /\ ~RS(core, r).completed}
  OBVIOUS
<1>3. /\ \A r \in InFlight : /\ r.q \in Queues /\ r.i \in Slot(r.q)
                             /\ In(core, r.q, r.i) /\ r = Ref(r.q, r.i)
      /\ \A q \in Queues : \A i \in Slot(q) : In(core, q, i) => Ref(q, i) \in InFlight
  BY ONLY <1>1, InFlightIs
<1>4. \A r : RS(core, r) = core.station[r.q][r.i]
  BY DEF RS
<1>5. CASE spec_mode
  <2>1. PICK c \in Slot("RUU") : Culprit(core, c)
    BY ONLY <1>1, <1>5 DEF Boundary
  <2>2. PICK r : r = Ref("RUU", c)
    OBVIOUS
  <2>3. r.q = "RUU" /\ r.i = c /\ "RUU" \in Queues
    BY ONLY <2>2 DEF Ref, Queues
  <2>4. r \in C
    BY ONLY <1>2, <1>3, <1>4, <2>1, <2>2, <2>3 DEF Culprit
  <2>5. ASSUME NEW d \in C PROVE d = r
    <3>1. /\ d.q \in Queues /\ d.i \in Slot(d.q) /\ In(core, d.q, d.i) /\ d = Ref(d.q, d.i)
          /\ core.station[d.q][d.i].recover_inst /\ ~core.station[d.q][d.i].completed
      BY ONLY <1>2, <1>3, <1>4, <2>5
    <3>2. d.q = "RUU" /\ d.i = c
      BY ONLY <2>1, <3>1 DEF Culprit
    <3> QED BY ONLY <2>2, <3>1, <3>2
  <2>6. C = {r}
    BY ONLY <2>4, <2>5
  <2>7. Cardinality(C) = 1
    BY ONLY <2>6, FS_Singleton
  <2>8. ASSUME NEW o \in InFlight
        PROVE  RS(core, o).spec_mode <=> \E d \in C : RS(core, d).seq < RS(core, o).seq
    <3>1. core.station[o.q][o.i].spec_mode <=>
            core.station["RUU"][c].seq < core.station[o.q][o.i].seq
      BY ONLY <1>3, <2>1, <2>8 DEF Culprit
    <3> QED BY ONLY <1>4, <2>3, <2>6, <3>1
  <2> QED BY ONLY <1>2, <1>5, <2>7, <2>8 DEF SpeculationBoundary
<1>6. CASE ~spec_mode
  <2>1. ASSUME NEW o \in InFlight
        PROVE  ~RS(core, o).spec_mode /\ (RS(core, o).recover_inst => RS(core, o).completed)
    BY ONLY <1>1, <1>3, <1>4, <1>6, <2>1 DEF Boundary
  <2>2. C = {}
    BY ONLY <1>2, <2>1
  <2>3. Cardinality(C) = 0
    BY ONLY <2>2, FS_EmptySet
  <2> QED BY ONLY <1>2, <1>6, <2>1, <2>2, <2>3 DEF SpeculationBoundary
<1> QED BY ONLY <1>5, <1>6

\* The address computation at distance d in the RUU belongs to the access at
\* distance p in the LSQ.
Partners(p, d) ==
  \E i \in Slot("RUU"), j \in Slot("LSQ") :
    /\ In(core, "RUU", i) /\ Distance(core, "RUU", i) = d
    /\ In(core, "LSQ", j) /\ Distance(core, "LSQ", j) = p
    /\ Pair(core, i, j)

\* Every access in the LSQ has its own address computation in the RUU, so the LSQ
\* never holds more operations.
LEMMA CountsHold == ASSUME IInv PROVE core.num.RUU >= core.num.LSQ
<1>1. CoreOK(core) /\ Paired(core) /\ Ordered(core, inst_seq)
  BY DEF IInv
<1>2. "RUU" \in Queues /\ "LSQ" \in Queues
  BY ONLY TRUE DEF Queues
<1>3. PICK a, b : a = core.num["RUU"] /\ b = core.num["LSQ"]
  OBVIOUS
<1>4. a \in Nat /\ b \in Nat
  BY ONLY <1>1, <1>2, <1>3, Pointers
<1>5. ASSUME NEW p \in 0..(b - 1)
      PROVE  \E d \in 0..(a - 1) : Partners(p, d)
  <2>1. PICK j \in Slot("LSQ") : In(core, "LSQ", j) /\ Distance(core, "LSQ", j) = p
    BY ONLY <1>1, <1>3, <1>5, PositionIs
  <2>2. PICK i \in Slot("RUU") : In(core, "RUU", i) /\ Pair(core, i, j)
    BY ONLY <1>1, <2>1 DEF Paired
  <2>3. PICK d : d = Distance(core, "RUU", i)
    OBVIOUS
  <2>4. d \in Nat
    BY ONLY <1>1, <1>2, <2>2, <2>3, DistanceIs, SizeType
  <2>5. d < a
    BY ONLY <1>3, <2>2, <2>3 DEF In
  <2>6. d \in 0..(a - 1)
    BY ONLY <1>4, <2>4, <2>5
  <2> QED BY ONLY <2>1, <2>2, <2>3, <2>6 DEF Partners
<1>6. ASSUME NEW p \in 0..(b - 1), NEW o \in 0..(b - 1), NEW d, Partners(p, d), Partners(o, d)
      PROVE  p = o
  <2>1. PICK i \in Slot("RUU"), j \in Slot("LSQ") :
          /\ In(core, "RUU", i) /\ Distance(core, "RUU", i) = d
          /\ In(core, "LSQ", j) /\ Distance(core, "LSQ", j) = p
          /\ Pair(core, i, j)
    BY ONLY <1>6 DEF Partners
  <2>2. PICK g \in Slot("RUU"), h \in Slot("LSQ") :
          /\ In(core, "RUU", g) /\ Distance(core, "RUU", g) = d
          /\ In(core, "LSQ", h) /\ Distance(core, "LSQ", h) = o
          /\ Pair(core, g, h)
    BY ONLY <1>6 DEF Partners
  <2>3. i = g
    BY ONLY <1>1, <1>2, <2>1, <2>2, DistanceInjective
  <2>4. core.station["LSQ"][j].seq = core.station["LSQ"][h].seq
    BY ONLY <2>1, <2>2, <2>3 DEF Pair
  <2>5. j = h
    BY ONLY <1>1, <1>2, <2>1, <2>2, <2>4, SeqUnique
  <2> QED BY ONLY <2>1, <2>2, <2>5
<1>7. PICK f : f = [p \in 0..(b - 1) |-> CHOOSE d \in 0..(a - 1) : Partners(p, d)]
  OBVIOUS
<1>8. f \in [0..(b - 1) -> 0..(a - 1)] /\ \A p \in 0..(b - 1) : Partners(p, f[p])
  BY ONLY <1>5, <1>7
<1>9. SUFFICES ASSUME a < b PROVE FALSE
  BY <1>3, <1>4
<1>10. /\ IsFiniteSet(0..(b - 1)) /\ IsFiniteSet(0..(a - 1))
       /\ Cardinality(0..(b - 1)) = b /\ Cardinality(0..(a - 1)) = a
  <2>1. \A x, y \in Int : /\ IsFiniteSet(x..y)
                          /\ Cardinality(x..y) = IF x > y THEN 0 ELSE y - x + 1
    BY FS_Interval
  <2>2. 0 \in Int /\ a - 1 \in Int /\ b - 1 \in Int
    BY ONLY <1>4
  <2>3. /\ IsFiniteSet(0..(b - 1)) /\ IsFiniteSet(0..(a - 1))
        /\ Cardinality(0..(b - 1)) = IF 0 > b - 1 THEN 0 ELSE (b - 1) - 0 + 1
        /\ Cardinality(0..(a - 1)) = IF 0 > a - 1 THEN 0 ELSE (a - 1) - 0 + 1
    BY ONLY <2>1, <2>2
  <2> QED BY ONLY <1>4, <2>3
<1>11. \E p, o \in 0..(b - 1) : p # o /\ f[p] = f[o]
  <2>1. PICK S, T : S = 0..(b - 1) /\ T = 0..(a - 1)
    OBVIOUS
  <2>2. f \in [S -> T] /\ IsFiniteSet(S) /\ IsFiniteSet(T) /\ Cardinality(T) < Cardinality(S)
    BY ONLY <1>8, <1>9, <1>10, <2>1
  <2>3. \E x, y \in S : x # y /\ f[x] = f[y]
    BY ONLY <2>2, FS_PigeonHole
  <2> QED BY ONLY <2>1, <2>3
<1> QED BY ONLY <1>6, <1>8, <1>11

\* The operation about to retire has no one waiting for it, and its memory access is
\* at the head of the LSQ.
LEMMA CommitHolds ==
  ASSUME IInv, CanCommit
  PROVE  /\ ChainLengths(HeadRS("RUU")) = 0
         /\ HeadRS("RUU").ea_comp =>
              /\ core.num.LSQ > 0 /\ HeadRS("LSQ").in_LSQ
              /\ HeadRS("LSQ").PC = HeadRS("RUU").PC
<1>1. /\ CoreOK(core) /\ Paired(core) /\ Ordered(core, inst_seq) /\ Kinds(core)
      /\ ChainsOK(core, {}, {})
  BY DEF IInv
<1>2. "RUU" \in Queues /\ "LSQ" \in Queues
  BY ONLY TRUE DEF Queues
<1>3. PICK h, g : h = core.head["RUU"] /\ g = core.head["LSQ"]
  OBVIOUS
<1>4. core.num["RUU"] > 0 /\ core.station["RUU"][h].completed
  BY ONLY CanCommit, <1>3 DEF CanCommit, HeadRS
<1>5. h \in Slot("RUU")
  BY ONLY <1>1, <1>2, <1>3, HeadFacts
<1>6. Chain(core, "RUU", h, 1) = <<>> /\ Chain(core, "RUU", h, 2) = <<>>
  <2>1. ChainsInFlight(core, {})
    BY ONLY <1>1, ChainsParts
  <2>2. ASSUME NEW d \in 1..2 PROVE Chain(core, "RUU", h, d) = <<>>
    BY ONLY <1>2, <1>4, <1>5, <2>1, <2>2 DEF ChainsInFlight
  <2>3. 1 \in 1..2 /\ 2 \in 1..2
    OBVIOUS
  <2> QED BY ONLY <2>2, <2>3
<1>7. ChainLengths(HeadRS("RUU")) = 0
  BY ONLY <1>3, <1>6 DEF ChainLengths, HeadRS, Chain
<1>8. ASSUME HeadRS("RUU").ea_comp
      PROVE  /\ core.num.LSQ > 0 /\ HeadRS("LSQ").in_LSQ
             /\ HeadRS("LSQ").PC = HeadRS("RUU").PC
  <2>1. core.station["RUU"][core.head["RUU"]].ea_comp
    BY ONLY <1>8 DEF HeadRS
  <2>2. In(core, "LSQ", core.head["LSQ"]) /\ Pair(core, core.head["RUU"], core.head["LSQ"])
    BY ONLY <1>1, <1>4, <2>1, HeadPair
  <2>3. g \in Slot("LSQ") /\ core.num["LSQ"] > 0
    BY ONLY <1>1, <1>2, <1>3, <2>2, HeadFacts
  <2>4. Kind("LSQ", core.station["LSQ"][g])
    BY ONLY <1>1, <1>2, <1>3, <2>2, <2>3 DEF Kinds
  <2> QED BY ONLY <1>3, <2>2, <2>3, <2>4 DEF Kind, Pair, HeadRS
<1> QED BY ONLY <1>7, <1>8

\* An operation whose event is due executes and has not completed; a mispredicted
\* one is in the RUU.
LEMMA WritebackHolds ==
  ASSUME IInv, EventDue, RSLINK_VALID(core, Head(core.event_queue)),
         NEW rs, rs = RS(core, Head(core.event_queue))
  PROVE  /\ OPERANDS_READY(rs) /\ ~rs.queued /\ rs.issued /\ ~rs.completed
         /\ rs.recover_inst => ~rs.in_LSQ /\ spec_mode
<1>1. /\ Sound(core, spec_mode, inst_seq, nodes, {}, {}, {}) /\ nodes \in Seq(Links)
      /\ Kinds(core) /\ Boundary(core, spec_mode) /\ spec_mode \in BOOLEAN
  BY InvIs DEF IInv, FrontOK
<1>2. core.event_queue # <<>>
  BY DEF EventDue
<1>3. PICK r, m2 : r = Head(core.event_queue) /\ m2 = Completed(r)
  OBVIOUS
<1>4. /\ r.q \in Queues /\ r.i \in Slot(r.q) /\ In(core, r.q, r.i)
      /\ OPERANDS_READY(core.station[r.q][r.i])
      /\ ~core.station[r.q][r.i].queued /\ core.station[r.q][r.i].issued
      /\ ~core.station[r.q][r.i].completed
  BY ONLY <1>1, <1>2, <1>3, RSLINK_VALID(core, Head(core.event_queue)), CompleteWork
<1>5. rs = core.station[r.q][r.i]
  BY ONLY <1>3, rs = RS(core, Head(core.event_queue)) DEF RS
<1>6. Kind(r.q, rs)
  BY ONLY <1>1, <1>4, <1>5 DEF Kinds
<1>7. ASSUME rs.recover_inst PROVE ~rs.in_LSQ /\ spec_mode
  <2>1. ~rs.in_LSQ
    BY ONLY <1>6, <1>7 DEF Kind
  <2>2. spec_mode
    BY ONLY <1>1, <1>4, <1>5, <1>7 DEF Boundary
  <2> QED BY ONLY <2>1, <2>2
<1> QED BY ONLY <1>4, <1>5, <1>7

\* An operation that is issued was queued; a store has no outputs to broadcast and
\* was not predicted.
LEMMA IssueHolds ==
  ASSUME IInv, Issuing(TRUE), NEW rs, rs = RS(core, Head(nodes))
  PROVE  /\ OPERANDS_READY(rs) /\ rs.queued /\ ~rs.issued /\ ~rs.completed
         /\ rs.op = "store" => rs.onames = <<NA, NA>> /\ ~rs.recover_inst
<1>1. /\ Sound(core, spec_mode, inst_seq, nodes, {}, {}, {}) /\ nodes \in Seq(Links)
      /\ Kinds(core)
  BY InvIs DEF IInv, FrontOK
<1>2. nodes # <<>> /\ RSLINK_VALID(core, Head(nodes))
  BY DEF Issuing
<1>3. PICK r : r = Head(nodes)
  OBVIOUS
<1>4. rs = core.station[r.q][r.i]
  BY ONLY <1>3, rs = RS(core, Head(nodes)) DEF RS
<1>5. /\ r.q \in Queues /\ r.i \in Slot(r.q) /\ In(core, r.q, r.i) /\ rs \in Station
      /\ rs.queued /\ OPERANDS_READY(rs) /\ ~rs.issued /\ ~rs.completed
  BY ONLY <1>1, <1>2, <1>3, <1>4, NodeFacts
<1>6. Kind(r.q, rs)
  BY ONLY <1>1, <1>4, <1>5 DEF Kinds
<1>7. ASSUME rs.op = "store" PROVE rs.onames = <<NA, NA>> /\ ~rs.recover_inst
  <2>1. rs.onames[1] = NA /\ rs.onames[2] = NA /\ ~rs.recover_inst
    BY ONLY <1>6, <1>7 DEF Kind
  <2>2. rs.onames \in [1..2 -> Names \cup {NA}]
    BY ONLY <1>5, StationFields
  <2>3. PICK o : o = rs.onames
    OBVIOUS
  <2>4. o = <<NA, NA>>
    BY ONLY <2>1, <2>2, <2>3
  <2> QED BY ONLY <2>1, <2>3, <2>4
<1> QED BY ONLY <1>5, <1>7

\* With nothing in flight nothing is being speculated about.
LEMMA DrainedHolds ==
  ASSUME IInv, core.num.RUU = 0
  PROVE  ~spec_mode
<1>1. CoreOK(core) /\ Boundary(core, spec_mode)
  BY DEF IInv
<1>2. SUFFICES ASSUME spec_mode PROVE FALSE
  OBVIOUS
<1>3. PICK c \in Slot("RUU") : In(core, "RUU", c)
  BY ONLY <1>1, <1>2 DEF Boundary, Culprit
<1>4. "RUU" \in Queues
  BY ONLY TRUE DEF Queues
<1>5. core.num["RUU"] > 0
  BY ONLY <1>1, <1>3, <1>4, HeadFacts
<1> QED BY <1>5

\* None of the conditions for a panic holds where it is tested.
LEMMA NoPanicHolds == ASSUME IInv PROVE NoPanic
<1>1. core.num.RUU >= core.num.LSQ
  BY CountsHold
<1>2. \A q \in {"RUU", "LSQ"} : (core.head[q] + core.num[q]) % Size[q] = core.tail[q]
  BY DEF IInv, Ring, Queues
<1>3. stage = "dispatch" /\ CanDispatch /\ InstAt(Head(ifq).PC).op = "trap" => ~spec_mode
  BY DrainedHolds DEF CanDispatch
<1> QED BY ONLY IInv, <1>1, <1>2, <1>3, CommitHolds, WritebackHolds, IssueHolds DEF NoPanic

\* The outputs of operations in S that write a register, and the youngest.
WritersOf(S, name) ==
  {cv \in {[q |-> r.q, i |-> r.i, odep |-> k] : r \in S, k \in 1..MAX_ODEPS} :
     RS(core, cv).onames[cv.odep] = name}

LatestOf(S, name) ==
  CHOOSE cv \in WritersOf(S, name) :
    \A w \in WritersOf(S, name) : RS(core, w).seq <= RS(core, cv).seq

\* The operations in flight, of the correct path only unless all is true.
Considered(S, all) ==
  \A r : r \in S <=> r \in InFlight /\ (all \/ ~RS(core, r).spec_mode)

\* The writers among them, as the invariant speaks of them.
LEMMA WritersAre ==
  ASSUME CoreOK(core), NEW S, NEW all, Considered(S, all), NEW name, NEW cv
  PROVE  cv \in WritersOf(S, name) <=>
           /\ cv \in Creators /\ Writes(core, cv.q, cv.i, cv.odep, name)
           /\ all \/ ~core.station[cv.q][cv.i].spec_mode
<1>1. \A r : RS(core, r) = core.station[r.q][r.i]
  BY DEF RS
<1>2. /\ \A r \in InFlight : /\ r.q \in Queues /\ r.i \in Slot(r.q)
                             /\ In(core, r.q, r.i) /\ r = Ref(r.q, r.i)
      /\ \A q \in Queues : \A i \in Slot(q) : In(core, q, i) => Ref(q, i) \in InFlight
  BY InFlightIs
<1>3. \A q \in Queues : \A i \in Slot(q) : i \in Nat
  BY ONLY SizeType DEF Slot
<1>4. ASSUME cv \in WritersOf(S, name)
      PROVE  /\ cv \in Creators /\ Writes(core, cv.q, cv.i, cv.odep, name)
             /\ all \/ ~core.station[cv.q][cv.i].spec_mode
  <2>1. PICK r \in S, k \in 1..2 : cv = [q |-> r.q, i |-> r.i, odep |-> k]
    BY ONLY <1>4 DEF WritersOf, MAX_ODEPS
  <2>2. core.station[cv.q][cv.i].onames[cv.odep] = name
    BY ONLY <1>1, <1>4 DEF WritersOf
  <2>3. r \in InFlight /\ (all \/ ~core.station[r.q][r.i].spec_mode)
    BY ONLY <1>1, <2>1, Considered(S, all) DEF Considered
  <2>4. r.q \in Queues /\ r.i \in Slot(r.q) /\ In(core, r.q, r.i)
    BY ONLY <1>2, <2>3
  <2>5. cv.q = r.q /\ cv.i = r.i /\ cv.odep = k
    BY ONLY <2>1
  <2>6. cv \in Creators
    BY ONLY <1>3, <2>1, <2>4 DEF Creators
  <2> QED BY ONLY <2>2, <2>3, <2>4, <2>5, <2>6 DEF Writes
<1>5. ASSUME cv \in Creators, Writes(core, cv.q, cv.i, cv.odep, name),
             all \/ ~core.station[cv.q][cv.i].spec_mode
      PROVE  cv \in WritersOf(S, name)
  <2>1. PICK r : r = Ref(cv.q, cv.i)
    OBVIOUS
  <2>2. r.q = cv.q /\ r.i = cv.i
    BY ONLY <2>1 DEF Ref
  <2>3. /\ cv.q \in Queues /\ cv.i \in Slot(cv.q) /\ cv.odep \in 1..2
        /\ cv = [q |-> cv.q, i |-> cv.i, odep |-> cv.odep]
    BY ONLY <1>5 DEF Creators
  <2>4. In(core, cv.q, cv.i) /\ core.station[cv.q][cv.i].onames[cv.odep] = name
    BY ONLY <1>5 DEF Writes
  <2>5. r \in InFlight
    BY ONLY <1>2, <2>1, <2>3, <2>4
  <2>6. r \in S
    BY ONLY <1>1, <1>5, <2>2, <2>5, Considered(S, all) DEF Considered
  <2>7. cv = [q |-> r.q, i |-> r.i, odep |-> cv.odep]
    BY ONLY <2>2, <2>3
  <2>8. cv \in {[q |-> x.q, i |-> x.i, odep |-> k] : x \in S, k \in 1..2}
    BY ONLY <2>3, <2>6, <2>7
  <2> QED BY ONLY <1>1, <2>4, <2>8 DEF WritersOf, MAX_ODEPS
<1> QED BY ONLY <1>4, <1>5

\* If anything writes the register, something is the youngest to do so.
LEMMA LatestIs ==
  ASSUME IInv, NEW S, NEW all, Considered(S, all), NEW name, WritersOf(S, name) # {}
  PROVE  /\ LatestOf(S, name) \in WritersOf(S, name)
         /\ \A w \in WritersOf(S, name) : RS(core, w).seq <= RS(core, LatestOf(S, name)).seq
<1>1. CoreOK(core) /\ Ordered(core, inst_seq) /\ inst_seq \in Nat
  BY DEF IInv, FrontOK
<1>2. PICK W : W = WritersOf(S, name)
  OBVIOUS
<1>3. ASSUME NEW w \in W PROVE RS(core, w).seq \in Nat /\ RS(core, w).seq <= inst_seq
  <2>1. w \in Creators /\ In(core, w.q, w.i)
    BY ONLY <1>1, <1>2, <1>3, Considered(S, all), WritersAre DEF Writes
  <2>2. w.q \in Queues /\ w.i \in Slot(w.q)
    BY ONLY <2>1 DEF Creators
  <2>3. PICK rs : rs = core.station[w.q][w.i]
    OBVIOUS
  <2>4. rs.seq \in Nat
    BY ONLY <1>1, <2>2, <2>3, StationType, StationFields
  <2>5. LastSeq(rs) <= inst_seq
    BY ONLY <1>1, <2>1, <2>2, <2>3 DEF Ordered
  <2>6. rs.seq <= inst_seq
    BY ONLY <1>1, <2>4, <2>5 DEF LastSeq
  <2>7. RS(core, w) = rs
    BY ONLY <2>3 DEF RS
  <2> QED BY ONLY <2>4, <2>6, <2>7
<1>4. PICK T : T = {inst_seq - RS(core, w).seq : w \in W}
  OBVIOUS
<1>5. T \subseteq Nat /\ T # {}
  <2>1. T # {}
    BY ONLY <1>2, <1>4, WritersOf(S, name) # {}
  <2> QED BY ONLY <1>1, <1>3, <1>4, <2>1
<1>6. PICK k \in T : \A j \in T : k <= j
  BY ONLY <1>5, LeastNumber
<1>7. PICK c \in W : k = inst_seq - RS(core, c).seq
  BY ONLY <1>4, <1>6
<1>8. ASSUME NEW w \in W PROVE RS(core, w).seq <= RS(core, c).seq
  <2>1. k <= inst_seq - RS(core, w).seq
    BY ONLY <1>4, <1>6, <1>8
  <2> QED BY ONLY <1>1, <1>3, <1>7, <1>8, <2>1
<1>9. \E v \in W : \A w \in W : RS(core, w).seq <= RS(core, v).seq
  BY ONLY <1>7, <1>8
<1>10. LatestOf(S, name) = CHOOSE v \in W : \A w \in W : RS(core, w).seq <= RS(core, v).seq
  BY ONLY <1>2 DEF LatestOf
<1>11. PICK l : l = LatestOf(S, name)
  OBVIOUS
<1>12. l \in W /\ \A w \in W : RS(core, w).seq <= RS(core, l).seq
  BY ONLY <1>9, <1>10, <1>11
<1> QED BY ONLY <1>2, <1>11, <1>12

\* A register is written by one output of an operation.
LEMMA OneOutput ==
  ASSUME IInv, NEW v \in Creators, NEW w \in Creators, NEW name \in Names,
         Writes(core, v.q, v.i, v.odep, name), Writes(core, w.q, w.i, w.odep, name),
         RS(core, v).seq = RS(core, w).seq
  PROVE  v = w
<1>1. CoreOK(core) /\ Ordered(core, inst_seq) /\ Paired(core) /\ Kinds(core)
  BY DEF IInv
<1>2. /\ v.q \in Queues /\ v.i \in Slot(v.q) /\ v.odep \in 1..2
      /\ v = [q |-> v.q, i |-> v.i, odep |-> v.odep]
      /\ w.q \in Queues /\ w.i \in Slot(w.q) /\ w.odep \in 1..2
      /\ w = [q |-> w.q, i |-> w.i, odep |-> w.odep]
  BY DEF Creators
<1>3. /\ In(core, v.q, v.i) /\ core.station[v.q][v.i].onames[v.odep] = name
      /\ In(core, w.q, w.i) /\ core.station[w.q][w.i].onames[w.odep] = name
  BY DEF Writes
<1>4. core.station[v.q][v.i].seq = core.station[w.q][w.i].seq
  BY DEF RS
<1>5. v.q = w.q /\ v.i = w.i
  BY ONLY <1>1, <1>2, <1>3, <1>4, SeqUnique
<1>6. Kind(v.q, core.station[v.q][v.i])
  BY ONLY <1>1, <1>2, <1>3 DEF Kinds
<1>7. name # NA
  BY ONLY name \in Names, NoName
<1>8. v.odep = w.odep
  <2>1. PICK o : o = core.station[v.q][v.i].onames
    OBVIOUS
  <2>2. o[v.odep] = name /\ o[w.odep] = name /\ (o[1] = o[2] => o[1] = NA)
    BY ONLY <1>3, <1>5, <1>6, <2>1 DEF Kind
  <2>3. (v.odep = 1 \/ v.odep = 2) /\ (w.odep = 1 \/ w.odep = 2)
    BY ONLY <1>2
  <2> QED BY ONLY <1>7, <2>2, <2>3
<1> QED BY ONLY <1>2, <1>5, <1>8

\* A vector entry that is precise in the sense of the invariant is the producer.
LEMMA ProducerIs ==
  ASSUME IInv, NEW S, NEW all \in BOOLEAN, Considered(S, all), NEW name \in Names,
         NEW v \in Creators \cup {NONE}, Precise(core, v, name, all, {})
  PROVE  v = Producer(S, name)
<1>1. CoreOK(core)
  BY DEF IInv
<1>2. PICK W, l : W = WritersOf(S, name) /\ l = LatestOf(S, name)
  OBVIOUS
<1>3. Producer(S, name) = IF W = {} \/ RS(core, l).completed THEN NONE ELSE l
  BY ONLY <1>2 DEF Producer, WritersOf, LatestOf
<1>4. \A cv : cv \in W <=> /\ cv \in Creators /\ Writes(core, cv.q, cv.i, cv.odep, name)
                           /\ all \/ ~core.station[cv.q][cv.i].spec_mode
  BY ONLY <1>1, <1>2, Considered(S, all), WritersAre
<1>5. W # {} => l \in W /\ \A w \in W : RS(core, w).seq <= RS(core, l).seq
  BY ONLY IInv, <1>2, Considered(S, all), LatestIs
<1>6. \A cv \in Creators : /\ RS(core, cv).seq \in Nat /\ cv.q \in Queues /\ cv.i \in Slot(cv.q)
                           /\ cv.odep \in 1..2
                           /\ RS(core, cv) = core.station[cv.q][cv.i]
  <2> SUFFICES ASSUME NEW cv \in Creators
               PROVE  /\ RS(core, cv).seq \in Nat /\ cv.q \in Queues /\ cv.i \in Slot(cv.q)
                      /\ cv.odep \in 1..2
                      /\ RS(core, cv) = core.station[cv.q][cv.i]
    OBVIOUS
  <2>1. cv.q \in Queues /\ cv.i \in Slot(cv.q) /\ cv.odep \in 1..2
    BY ONLY cv \in Creators DEF Creators
  <2>2. core.station[cv.q][cv.i].seq \in Nat
    BY ONLY <1>1, <2>1, StationType, StationFields
  <2> QED BY ONLY <2>1, <2>2 DEF RS
<1>7. CASE v # NONE
  <2>1. v \in Creators
    BY ONLY <1>7, v \in Creators \cup {NONE}
  <2>2. /\ Writes(core, v.q, v.i, v.odep, name) /\ (all \/ ~core.station[v.q][v.i].spec_mode)
        /\ ~core.station[v.q][v.i].completed
    BY ONLY <1>7, Precise(core, v, name, all, {}) DEF Precise
  <2>3. \A q \in Queues : \A i \in Slot(q) : \A d \in 1..2 :
          Writes(core, q, i, d, name) /\ (all \/ ~core.station[q][i].spec_mode) =>
            core.station[q][i].seq <= core.station[v.q][v.i].seq
    BY ONLY <1>7, Precise(core, v, name, all, {}) DEF Precise
  <2>4. v \in W
    BY ONLY <1>4, <2>1, <2>2
  <2>5. l \in W /\ RS(core, v).seq <= RS(core, l).seq
    BY ONLY <1>5, <2>4
  <2>6. /\ l \in Creators /\ Writes(core, l.q, l.i, l.odep, name)
        /\ all \/ ~core.station[l.q][l.i].spec_mode
    BY ONLY <1>4, <2>5
  <2>7. RS(core, l).seq <= RS(core, v).seq
    BY ONLY <1>6, <2>1, <2>3, <2>6
  <2>8. RS(core, l).seq = RS(core, v).seq
    BY ONLY <1>6, <2>1, <2>5, <2>6, <2>7
  <2>9. l = v
    BY ONLY IInv, <2>1, <2>2, <2>6, <2>8, name \in Names, OneOutput
  <2> QED BY ONLY <1>3, <1>6, <2>1, <2>2, <2>4, <2>9
<1>8. CASE v = NONE
  <2>1. ASSUME W # {} PROVE RS(core, l).completed
    <3>1. l \in W /\ \A w \in W : RS(core, w).seq <= RS(core, l).seq
      BY ONLY <1>5, <2>1
    <3>2. /\ l \in Creators /\ Writes(core, l.q, l.i, l.odep, name)
          /\ all \/ ~core.station[l.q][l.i].spec_mode
      BY ONLY <1>4, <3>1
    <3>3. \/ core.station[l.q][l.i].completed
          \/ \E p \in Queues : \E j \in Slot(p) : \E e \in 1..2 :
               /\ Writes(core, p, j, e, name) /\ (all \/ ~core.station[p][j].spec_mode)
               /\ core.station[l.q][l.i].seq < core.station[p][j].seq
      BY ONLY <1>6, <1>8, <3>2, Precise(core, v, name, all, {}) DEF Precise
    <3>4. ASSUME NEW p \in Queues, NEW j \in Slot(p), NEW e \in 1..2,
                 Writes(core, p, j, e, name), all \/ ~core.station[p][j].spec_mode,
                 core.station[l.q][l.i].seq < core.station[p][j].seq
          PROVE  FALSE
      <4>1. PICK w : w = [q |-> p, i |-> j, odep |-> e]
        OBVIOUS
      <4>2. w.q = p /\ w.i = j /\ w.odep = e
        BY ONLY <4>1
      <4>3. j \in Nat
        BY ONLY <3>4, SizeType DEF Slot
      <4>4. w \in Creators
        BY ONLY <3>4, <4>1, <4>3 DEF Creators
      <4>5. w \in W
        BY ONLY <1>4, <3>4, <4>2, <4>4
      <4>6. RS(core, w).seq <= RS(core, l).seq
        BY ONLY <3>1, <4>5
      <4> QED BY ONLY <1>6, <3>2, <3>4, <4>2, <4>4, <4>6
    <3> QED BY ONLY <1>6, <3>2, <3>3, <3>4
  <2> QED BY ONLY <1>3, <1>8, <2>1
<1> QED BY ONLY <1>7, <1>8

\* The create vectors always name the youngest producer.
LEMMA VectorsHold == ASSUME IInv PROVE CreateVectorPrecise
<1>1. CoreOK(core) /\ CreatorsOK(core, {})
  BY DEF IInv
<1>2. PICK S : S = {r \in InFlight : ~RS(core, r).spec_mode}
  OBVIOUS
<1>3. Considered(S, FALSE) /\ Considered(InFlight, TRUE)
  BY ONLY <1>2 DEF Considered
<1>4. ASSUME NEW name \in Names
      PROVE  /\ CREATE_VECTOR(core, name) = Producer(InFlight, name)
             /\ core.create_vector[name] = Producer(S, name)
  <2>1. PICK v, w : v = CREATE_VECTOR(core, name) /\ w = core.create_vector[name]
    OBVIOUS
  <2>2. v \in Creators \cup {NONE} /\ w \in Creators \cup {NONE}
    BY ONLY <1>1, <1>4, <2>1, VectorType
  <2>3. Precise(core, v, name, TRUE, {}) /\ Precise(core, w, name, FALSE, {})
    BY ONLY <1>1, <1>4, <2>1 DEF CreatorsOK
  <2>4. v = Producer(InFlight, name)
    BY ONLY IInv, <1>3, <1>4, <2>2, <2>3, ProducerIs
  <2>5. w = Producer(S, name)
    BY ONLY IInv, <1>3, <1>4, <2>2, <2>3, ProducerIs
  <2> QED BY ONLY <2>1, <2>4, <2>5
<1> QED BY ONLY <1>2, <1>4 DEF CreateVectorPrecise, Names

\* The number of elements of a set that has at most one.
LEMMA AtMostOne ==
  ASSUME NEW K, \A j, k \in K : j = k
  PROVE  Cardinality(K) = IF K = {} THEN 0 ELSE 1
<1>1. CASE K = {}
  BY <1>1, FS_EmptySet
<1>2. CASE K # {}
  <2>1. PICK k \in K : TRUE
    BY <1>2
  <2>2. K = {k}
    BY <2>1
  <2> QED BY ONLY <1>2, <2>2, FS_Singleton
<1> QED BY <1>1, <1>2

\* The positions of a list where an operation is named.
Places(s, q, i) == {k \in 1..Len(s) : Targets(core, s[k], q, i)}

\* The number of links to an operation is the number of those places.
LEMMA LinksToIs ==
  ASSUME NEW s \in Seq(Links), NEW r
  PROVE  LinksTo(s, r) = Cardinality(Places(s, r.q, r.i))
<1>1. DOMAIN s = 1..Len(s)
  OBVIOUS
<1> QED BY <1>1 DEF LinksTo, Places, Targets, RS

\* Two places that name one operation have the same target.
LEMMA PlacesTarget ==
  ASSUME NEW a, NEW b, NEW q, NEW i, Targets(core, a, q, i), Targets(core, b, q, i)
  PROVE  SameTarget(a, b)
BY DEF Targets, SameTarget

\* A link that names an operation in flight is valid.
LEMMA TargetValid ==
  ASSUME NEW l, NEW q, NEW i, Targets(core, l, q, i)
  PROVE  RSLINK_VALID(core, l) /\ RS(core, l) = core.station[q][i]
BY DEF Targets, RSLINK_VALID, RS

\* The ready list and the list being issued from, one after the other.
LEMMA ReadyCounted ==
  ASSUME IInv, NEW r \in InFlight
  PROVE  LinksTo(core.ready_queue \o nodes, r) = IF RS(core, r).queued THEN 1 ELSE 0
<1>1. CoreOK(core) /\ ReadyOK(core, nodes) /\ nodes \in Seq(Links)
  BY DEF IInv, FrontOK
<1>2. PICK q, i : q = r.q /\ i = r.i
  OBVIOUS
<1>3. q \in Queues /\ i \in Slot(q) /\ In(core, q, i)
  BY ONLY <1>1, <1>2, r \in InFlight, InFlightIs
<1>4. PICK a, b, s : a = core.ready_queue /\ b = nodes /\ s = a \o b
  OBVIOUS
<1>5. a \in Seq(Links) /\ b \in Seq(Links)
  BY ONLY <1>1, <1>4 DEF CoreOK
<1>6. /\ s \in Seq(Links) /\ Len(s) = Len(a) + Len(b) /\ Len(a) \in Nat /\ Len(b) \in Nat
      /\ \A k \in 1..Len(s) : s[k] = IF k <= Len(a) THEN a[k] ELSE b[k - Len(a)]
  BY ONLY <1>4, <1>5
<1>7. /\ ListOK(core, a) /\ ListOK(core, b) /\ Apart(a, b)
      /\ core.station[q][i].queued => Listed(core, a, q, i) \/ Listed(core, b, q, i)
  BY ONLY <1>1, <1>3, <1>4, ReadyParts
<1>8. PICK K : K = Places(s, q, i)
  OBVIOUS
<1>9. \A k \in K : \/ k \in 1..Len(a) /\ s[k] = a[k]
                   \/ k - Len(a) \in 1..Len(b) /\ s[k] = b[k - Len(a)]
  <2> SUFFICES ASSUME NEW k \in K
               PROVE  \/ k \in 1..Len(a) /\ s[k] = a[k]
                      \/ k - Len(a) \in 1..Len(b) /\ s[k] = b[k - Len(a)]
    OBVIOUS
  <2>1. k \in 1..Len(s)
    BY ONLY <1>8, k \in K DEF Places
  <2> QED BY ONLY <1>6, <2>1
<1>10. \A k \in K : Targets(core, s[k], q, i) /\ k \in Int
  <2>1. \A k \in 1..Len(s) : k \in Int
    BY ONLY <1>6
  <2> QED BY ONLY <1>8, <2>1 DEF Places
<1>11. ASSUME NEW j \in K, NEW k \in K PROVE j = k
  <2>1. SameTarget(s[j], s[k]) /\ SameTarget(s[k], s[j]) /\ j \in Int /\ k \in Int
    BY ONLY <1>10, <1>11, PlacesTarget
  <2>2. NoTwoTargets(a) /\ NoTwoTargets(b)
    BY ONLY <1>7 DEF ListOK
  <2>3. \/ j \in 1..Len(a) /\ s[j] = a[j]
        \/ j - Len(a) \in 1..Len(b) /\ s[j] = b[j - Len(a)]
    BY ONLY <1>9, <1>11
  <2>4. \/ k \in 1..Len(a) /\ s[k] = a[k]
        \/ k - Len(a) \in 1..Len(b) /\ s[k] = b[k - Len(a)]
    BY ONLY <1>9, <1>11
  <2>5. CASE j \in 1..Len(a) /\ s[j] = a[j] /\ k \in 1..Len(a) /\ s[k] = a[k]
    BY ONLY <2>1, <2>2, <2>5 DEF NoTwoTargets
  <2>6. CASE /\ j - Len(a) \in 1..Len(b) /\ s[j] = b[j - Len(a)]
             /\ k - Len(a) \in 1..Len(b) /\ s[k] = b[k - Len(a)]
    <3>1. j - Len(a) = k - Len(a)
      BY ONLY <2>1, <2>2, <2>6 DEF NoTwoTargets
    <3> QED BY ONLY <1>6, <2>1, <3>1
  <2>7. CASE /\ j \in 1..Len(a) /\ s[j] = a[j]
             /\ k - Len(a) \in 1..Len(b) /\ s[k] = b[k - Len(a)]
    BY ONLY <1>7, <2>1, <2>7 DEF Apart
  <2>8. CASE /\ k \in 1..Len(a) /\ s[k] = a[k]
             /\ j - Len(a) \in 1..Len(b) /\ s[j] = b[j - Len(a)]
    BY ONLY <1>7, <2>1, <2>8 DEF Apart
  <2> QED BY ONLY <2>3, <2>4, <2>5, <2>6, <2>7, <2>8
<1>12. ASSUME NEW k \in K PROVE core.station[q][i].queued
  <2>1. RSLINK_VALID(core, s[k]) /\ RS(core, s[k]) = core.station[q][i]
    BY ONLY <1>10, <1>12, TargetValid
  <2>2. RSLINK_VALID(core, s[k]) => RS(core, s[k]).queued
    BY ONLY <1>7, <1>9, <1>12 DEF ListOK
  <2> QED BY ONLY <2>1, <2>2
<1>13. ASSUME core.station[q][i].queued PROVE K # {}
  <2>1. CASE Listed(core, a, q, i)
    <3>1. PICK k \in 1..Len(a) : Targets(core, a[k], q, i)
      BY ONLY <2>1 DEF Listed
    <3>2. k \in 1..Len(s) /\ s[k] = a[k]
      BY ONLY <1>6, <3>1
    <3> QED BY ONLY <1>8, <3>1, <3>2 DEF Places
  <2>2. CASE Listed(core, b, q, i)
    <3>1. PICK k \in 1..Len(b) : Targets(core, b[k], q, i)
      BY ONLY <2>2 DEF Listed
    <3>2. PICK h : h = k + Len(a)
      OBVIOUS
    <3>3. h \in 1..Len(s) /\ ~(h <= Len(a)) /\ h - Len(a) = k
      BY ONLY <1>6, <3>1, <3>2
    <3>4. s[h] = b[k]
      BY ONLY <1>6, <3>3
    <3> QED BY ONLY <1>8, <3>1, <3>3, <3>4 DEF Places
  <2> QED BY ONLY <1>7, <1>13, <2>1, <2>2
<1>14. Cardinality(K) = IF K = {} THEN 0 ELSE 1
  BY ONLY <1>11, AtMostOne
<1>15. LinksTo(s, r) = Cardinality(K)
  BY ONLY <1>2, <1>6, <1>8, LinksToIs
<1>16. K = {} <=> ~core.station[q][i].queued
  BY ONLY <1>12, <1>13
<1>17. RS(core, r) = core.station[q][i]
  BY ONLY <1>2 DEF RS
<1> QED BY ONLY <1>4, <1>14, <1>15, <1>16, <1>17

\* An operation that executes has one event.
LEMMA EventCounted ==
  ASSUME IInv, NEW r \in InFlight
  PROVE  LinksTo(core.event_queue, r) =
           IF RS(core, r).issued /\ ~RS(core, r).completed THEN 1 ELSE 0
<1>1. CoreOK(core) /\ EventsOK(core)
  BY DEF IInv
<1>2. PICK q, i, s, K : /\ q = r.q /\ i = r.i /\ s = core.event_queue
                        /\ K = Places(s, q, i)
  OBVIOUS
<1>3. q \in Queues /\ i \in Slot(q) /\ In(core, q, i)
  BY ONLY <1>1, <1>2, r \in InFlight, InFlightIs
<1>4. s \in Seq(Links)
  BY ONLY <1>1, <1>2 DEF CoreOK
<1>5. /\ \A k \in 1..Len(s) : RSLINK_VALID(core, s[k]) =>
                                RS(core, s[k]).issued /\ ~RS(core, s[k]).completed
      /\ NoTwoTargets(s)
      /\ core.station[q][i].issued /\ ~core.station[q][i].completed =>
           \E k \in 1..Len(s) : Targets(core, s[k], q, i)
  BY ONLY <1>1, <1>2, <1>3 DEF EventsOK
<1>6. \A k : k \in K <=> k \in 1..Len(s) /\ Targets(core, s[k], q, i)
  BY ONLY <1>2 DEF Places
<1>7. ASSUME NEW j \in K, NEW k \in K PROVE j = k
  <2>1. SameTarget(s[j], s[k])
    BY ONLY <1>6, <1>7, PlacesTarget
  <2> QED BY ONLY <1>5, <1>6, <1>7, <2>1 DEF NoTwoTargets
<1>8. ASSUME NEW k \in K PROVE core.station[q][i].issued /\ ~core.station[q][i].completed
  <2>1. RSLINK_VALID(core, s[k]) /\ RS(core, s[k]) = core.station[q][i]
    BY ONLY <1>6, <1>8, TargetValid
  <2> QED BY ONLY <1>5, <1>6, <1>8, <2>1
<1>9. Cardinality(K) = IF K = {} THEN 0 ELSE 1
  BY ONLY <1>7, AtMostOne
<1>10. LinksTo(s, r) = Cardinality(K)
  BY ONLY <1>2, <1>4, LinksToIs
<1>11. K = {} <=> ~(core.station[q][i].issued /\ ~core.station[q][i].completed)
  BY ONLY <1>5, <1>6, <1>8
<1>12. RS(core, r) = core.station[q][i]
  BY ONLY <1>2 DEF RS
<1> QED BY ONLY <1>2, <1>9, <1>10, <1>11, <1>12

\* The places on the chains where an input is linked.
LEMMA WaitLinksAre ==
  ASSUME CoreOK(core), NEW r \in InFlight, NEW o \in 1..3
  PROVE  \A w : w \in WaitLinks(r, o) <=>
           \E p \in InFlight, d \in 1..2 : \E k \in 1..Len(Chain(core, p.q, p.i, d)) :
             /\ w = <<p, d, k>>
             /\ Targets(core, Chain(core, p.q, p.i, d)[k], r.q, r.i)
             /\ Chain(core, p.q, p.i, d)[k].x = o
<1>1. \A p \in InFlight : p.q \in Queues /\ p.i \in Slot(p.q)
  BY InFlightIs
<1>2. PICK here : here = Link(core, r, o)
  OBVIOUS
<1>3. /\ here = [q |-> r.q, i |-> r.i, tag |-> core.station[r.q][r.i].tag, x |-> o]
  BY ONLY <1>2 DEF Link, RS
<1>4. \A l \in Links : l = here <=> Targets(core, l, r.q, r.i) /\ l.x = o
  <2> SUFFICES ASSUME NEW l \in Links PROVE l = here <=> Targets(core, l, r.q, r.i) /\ l.x = o
    OBVIOUS
  <2>1. l = [q |-> l.q, i |-> l.i, tag |-> l.tag, x |-> l.x]
    BY ONLY l \in Links DEF Links
  <2> QED BY ONLY <1>3, <2>1 DEF Targets
<1>5. ASSUME NEW p \in InFlight, NEW d \in 1..2
      PROVE  /\ DOMAIN RS(core, p).odep_list[d] = 1..Len(Chain(core, p.q, p.i, d))
             /\ RS(core, p).odep_list[d] = Chain(core, p.q, p.i, d)
             /\ \A k \in 1..Len(Chain(core, p.q, p.i, d)) : Chain(core, p.q, p.i, d)[k] \in Links
  <2>1. PICK s : s = Chain(core, p.q, p.i, d)
    OBVIOUS
  <2>2. s \in Seq(Links) /\ \A k \in 1..Len(s) : s[k] \in Links
    BY ONLY CoreOK(core), <1>1, <1>5, <2>1, ChainType
  <2>3. RS(core, p).odep_list[d] = s
    BY ONLY <2>1 DEF Chain, RS
  <2> QED BY ONLY <2>1, <2>2, <2>3
<1>6. WaitLinks(r, o) =
        UNION {{<<p, d, k>> : k \in {k \in DOMAIN RS(core, p).odep_list[d] :
                                       RS(core, p).odep_list[d][k] = here}} :
                 p \in InFlight, d \in 1..2}
  BY ONLY <1>2 DEF WaitLinks, MAX_ODEPS
<1>7. ASSUME NEW w
      PROVE  w \in WaitLinks(r, o) <=>
               \E p \in InFlight, d \in 1..2 : \E k \in 1..Len(Chain(core, p.q, p.i, d)) :
                 w = <<p, d, k>> /\ Chain(core, p.q, p.i, d)[k] = here
  <2>1. w \in WaitLinks(r, o) <=>
          \E p \in InFlight, d \in 1..2 :
             w \in {<<p, d, k>> : k \in {k \in DOMAIN RS(core, p).odep_list[d] :
                                           RS(core, p).odep_list[d][k] = here}}
    <3> DEFINE at(p, d) == {<<p, d, k>> : k \in {k \in DOMAIN RS(core, p).odep_list[d] :
                                                   RS(core, p).odep_list[d][k] = here}}
    <3>1. WaitLinks(r, o) = UNION {at(p, d) : p \in InFlight, d \in 1..2}
      BY ONLY <1>6
    <3> HIDE DEF at
    <3>2. w \in UNION {at(p, d) : p \in InFlight, d \in 1..2}
            <=> \E p \in InFlight, d \in 1..2 : w \in at(p, d)
      <4> DEFINE A == {at(p, d) : p \in InFlight, d \in 1..2}
      <4>2. \A x : x \in A <=> \E p \in InFlight, d \in 1..2 : x = at(p, d)
        BY ONLY TRUE, SMT
      <4> HIDE DEF A
      <4>1. w \in UNION A <=> \E x \in A : w \in x
        OBVIOUS
      <4>3. w \in UNION A <=> \E p \in InFlight, d \in 1..2 : w \in at(p, d)
        BY ONLY <4>1, <4>2
      <4> QED BY ONLY <4>3 DEF A
    <3> QED BY ONLY <3>1, <3>2 DEF at
  <2>2. ASSUME NEW p \in InFlight, NEW d \in 1..2
        PROVE  w \in {<<p, d, k>> : k \in {k \in DOMAIN RS(core, p).odep_list[d] :
                                             RS(core, p).odep_list[d][k] = here}}
               <=> \E k \in 1..Len(Chain(core, p.q, p.i, d)) :
                     w = <<p, d, k>> /\ Chain(core, p.q, p.i, d)[k] = here
    <3>1. PICK s : s = Chain(core, p.q, p.i, d)
      OBVIOUS
    <3>2. DOMAIN RS(core, p).odep_list[d] = 1..Len(s) /\ RS(core, p).odep_list[d] = s
      BY ONLY <1>5, <2>2, <3>1
    <3> QED BY ONLY <3>1, <3>2
  <2> QED BY ONLY <2>1, <2>2
<1> QED BY ONLY <1>4, <1>5, <1>7

\* An operand that is missing is on one chain, of an older operation that has not
\* completed.
LEMMA WaitCounted ==
  ASSUME IInv, NEW r \in InFlight, NEW o \in 1..3
  PROVE  /\ Cardinality(WaitLinks(r, o)) = IF RS(core, r).idep_ready[o] THEN 0 ELSE 1
         /\ \A w \in WaitLinks(r, o) : /\ RS(core, w[1]).seq < RS(core, r).seq
                                       /\ ~RS(core, w[1]).completed
<1>1. CoreOK(core) /\ ChainsOK(core, {}, {})
  BY DEF IInv
<1>2. /\ ChainsInFlight(core, {}) /\ ChainLinks(core, {}) /\ LinkedOnce(core)
      /\ AllLinked(core, {})
  BY ONLY <1>1, ChainsParts
<1>3. PICK a, K : a = core.station[r.q][r.i] /\ K = WaitLinks(r, o)
  OBVIOUS
<1>4. RS(core, r) = a
  BY ONLY <1>3 DEF RS
<1>5. /\ \A p \in InFlight : /\ p.q \in Queues /\ p.i \in Slot(p.q)
                             /\ In(core, p.q, p.i) /\ p = Ref(p.q, p.i)
      /\ \A q \in Queues : \A i \in Slot(q) : In(core, q, i) => Ref(q, i) \in InFlight
  BY ONLY <1>1, InFlightIs
<1>6. \A w : w \in K <=>
        \E p \in InFlight, d \in 1..2 : \E k \in 1..Len(Chain(core, p.q, p.i, d)) :
          /\ w = <<p, d, k>>
          /\ Targets(core, Chain(core, p.q, p.i, d)[k], r.q, r.i)
          /\ Chain(core, p.q, p.i, d)[k].x = o
  BY ONLY <1>1, <1>3, r \in InFlight, o \in 1..3, WaitLinksAre, SMTT(30)
<1>7. ASSUME NEW v \in K, NEW w \in K PROVE v = w
  <2>1. PICK p \in InFlight, d \in 1..2 : \E k \in 1..Len(Chain(core, p.q, p.i, d)) :
          /\ v = <<p, d, k>>
          /\ Targets(core, Chain(core, p.q, p.i, d)[k], r.q, r.i)
          /\ Chain(core, p.q, p.i, d)[k].x = o
    BY ONLY <1>6, <1>7
  <2>2. PICK k \in 1..Len(Chain(core, p.q, p.i, d)) :
          /\ v = <<p, d, k>>
          /\ Targets(core, Chain(core, p.q, p.i, d)[k], r.q, r.i)
          /\ Chain(core, p.q, p.i, d)[k].x = o
    BY ONLY <2>1
  <2>3. PICK g \in InFlight, e \in 1..2 : \E h \in 1..Len(Chain(core, g.q, g.i, e)) :
          /\ w = <<g, e, h>>
          /\ Targets(core, Chain(core, g.q, g.i, e)[h], r.q, r.i)
          /\ Chain(core, g.q, g.i, e)[h].x = o
    BY ONLY <1>6, <1>7
  <2>4. PICK h \in 1..Len(Chain(core, g.q, g.i, e)) :
          /\ w = <<g, e, h>>
          /\ Targets(core, Chain(core, g.q, g.i, e)[h], r.q, r.i)
          /\ Chain(core, g.q, g.i, e)[h].x = o
    BY ONLY <2>3
  <2>5. SameTarget(Chain(core, p.q, p.i, d)[k], Chain(core, g.q, g.i, e)[h])
    BY ONLY <2>2, <2>4, PlacesTarget
  <2>6. p.q = g.q /\ p.i = g.i /\ d = e /\ k = h
    BY ONLY <1>2, <1>5, <2>1, <2>2, <2>3, <2>4, <2>5, SMTT(30) DEF LinkedOnce
  <2>7. p = g
    BY ONLY <1>5, <2>1, <2>3, <2>6
  <2> QED BY ONLY <2>2, <2>4, <2>6, <2>7
<1>8. ASSUME NEW w \in K
      PROVE  /\ ~a.idep_ready[o] /\ RS(core, w[1]).seq < a.seq
             /\ ~RS(core, w[1]).completed
  <2>1. PICK p \in InFlight, d \in 1..2 : \E k \in 1..Len(Chain(core, p.q, p.i, d)) :
          /\ w = <<p, d, k>>
          /\ Targets(core, Chain(core, p.q, p.i, d)[k], r.q, r.i)
          /\ Chain(core, p.q, p.i, d)[k].x = o
    BY ONLY <1>6, <1>8
  <2>2. PICK k \in 1..Len(Chain(core, p.q, p.i, d)) :
          /\ w = <<p, d, k>>
          /\ Targets(core, Chain(core, p.q, p.i, d)[k], r.q, r.i)
          /\ Chain(core, p.q, p.i, d)[k].x = o
    BY ONLY <2>1
  <2>3. PICK l, s : s = Chain(core, p.q, p.i, d) /\ l = s[k]
    OBVIOUS
  <2>4. RSLINK_VALID(core, l) /\ RS(core, l) = a
    BY ONLY <1>3, <2>2, <2>3, TargetValid
  <2>5. ~RS(core, l).idep_ready[l.x] /\ core.station[p.q][p.i].seq < RS(core, l).seq
    BY ONLY <1>2, <1>5, <2>1, <2>2, <2>3, <2>4 DEF ChainLinks
  <2>6. s # <<>>
    BY ONLY <2>2, <2>3
  <2>7. ~core.station[p.q][p.i].completed
    BY ONLY <1>2, <1>5, <2>1, <2>3, <2>6 DEF ChainsInFlight
  <2>8. w[1] = p /\ RS(core, p) = core.station[p.q][p.i] /\ l.x = o
    BY ONLY <2>2, <2>3 DEF RS
  <2> QED BY ONLY <2>4, <2>5, <2>7, <2>8
<1>9. ASSUME ~a.idep_ready[o] PROVE K # {}
  <2>1. Linked(core, r.q, r.i, o)
    BY ONLY <1>2, <1>3, <1>5, <1>9, r \in InFlight, o \in 1..3 DEF AllLinked
  <2>2. PICK q \in Queues : \E j \in Slot(q) : \E d \in 1..2 :
          \E k \in 1..Len(Chain(core, q, j, d)) :
            Targets(core, Chain(core, q, j, d)[k], r.q, r.i) /\ Chain(core, q, j, d)[k].x = o
    BY ONLY <2>1 DEF Linked
  <2>3. PICK j \in Slot(q) : \E d \in 1..2 : \E k \in 1..Len(Chain(core, q, j, d)) :
          Targets(core, Chain(core, q, j, d)[k], r.q, r.i) /\ Chain(core, q, j, d)[k].x = o
    BY ONLY <2>2
  <2>4. PICK d \in 1..2 : \E k \in 1..Len(Chain(core, q, j, d)) :
          Targets(core, Chain(core, q, j, d)[k], r.q, r.i) /\ Chain(core, q, j, d)[k].x = o
    BY ONLY <2>3
  <2>5. PICK k \in 1..Len(Chain(core, q, j, d)) :
          Targets(core, Chain(core, q, j, d)[k], r.q, r.i) /\ Chain(core, q, j, d)[k].x = o
    BY ONLY <2>4
  <2>6. PICK s : s = Chain(core, q, j, d)
    OBVIOUS
  <2>7. s # <<>>
    BY ONLY <2>5, <2>6
  <2>8. In(core, q, j)
    BY ONLY <1>2, <2>2, <2>3, <2>4, <2>6, <2>7 DEF ChainsInFlight
  <2>9. PICK p : p = Ref(q, j)
    OBVIOUS
  <2>10. p \in InFlight /\ p.q = q /\ p.i = j
    BY ONLY <1>5, <2>2, <2>3, <2>8, <2>9 DEF Ref
  <2>11. <<p, d, k>> \in K
    BY ONLY <1>6, <2>4, <2>5, <2>10
  <2> QED BY ONLY <2>11
<1>10. Cardinality(K) = IF K = {} THEN 0 ELSE 1
  BY ONLY <1>7, AtMostOne
<1>11. K = {} <=> a.idep_ready[o]
  BY ONLY <1>8, <1>9
<1> QED BY ONLY <1>3, <1>4, <1>8, <1>10, <1>11

\* No wakeup is lost or doubled.
LEMMA WakeupsHold == ASSUME IInv PROVE NoLostWakeup
<1> SUFFICES ASSUME NEW r \in InFlight
             PROVE  LET rs == RS(core, r) IN
                    /\ LinksTo(core.ready_queue \o nodes, r) = IF rs.queued THEN 1 ELSE 0
                    /\ LinksTo(core.event_queue, r) =
                         IF rs.issued /\ ~rs.completed THEN 1 ELSE 0
                    /\ \A o \in 1..MAX_IDEPS :
                         /\ Cardinality(WaitLinks(r, o)) = IF rs.idep_ready[o] THEN 0 ELSE 1
                         /\ \A w \in WaitLinks(r, o) : /\ RS(core, w[1]).seq < rs.seq
                                                       /\ ~RS(core, w[1]).completed
                    /\ OPERANDS_READY(rs) /\ ~rs.queued /\ ~rs.issued => rs.op = "load"
  BY DEF NoLostWakeup
<1>1. CoreOK(core) /\ FlagsOK(core, {})
  BY DEF IInv
<1>2. r.q \in Queues /\ r.i \in Slot(r.q) /\ In(core, r.q, r.i)
  BY ONLY <1>1, r \in InFlight, InFlightIs
<1>3. PICK rs : rs = RS(core, r)
  OBVIOUS
<1>4. OPERANDS_READY(rs) /\ ~rs.queued /\ ~rs.issued => rs.op = "load"
  BY ONLY <1>1, <1>2, <1>3 DEF FlagsOK, RS
<1>5. LinksTo(core.ready_queue \o nodes, r) = IF rs.queued THEN 1 ELSE 0
  BY ONLY IInv, r \in InFlight, <1>3, ReadyCounted
<1>6. LinksTo(core.event_queue, r) = IF rs.issued /\ ~rs.completed THEN 1 ELSE 0
  BY ONLY IInv, r \in InFlight, <1>3, EventCounted
<1>7. ASSUME NEW o \in 1..3
      PROVE  /\ Cardinality(WaitLinks(r, o)) = IF rs.idep_ready[o] THEN 0 ELSE 1
             /\ \A w \in WaitLinks(r, o) : /\ RS(core, w[1]).seq < rs.seq
                                           /\ ~RS(core, w[1]).completed
  BY ONLY IInv, r \in InFlight, <1>3, <1>7, WaitCounted
<1> QED BY ONLY <1>3, <1>4, <1>5, <1>6, <1>7 DEF MAX_IDEPS

\* The queues stay within their sizes and the state keeps its types (the pointers of
\* RUU, LSQ and fetch queue; the functional units; the stages of sim_main).
THEOREM PipelineTypes == Spec => []TypeOK
BY CoreInvariance, TypesHold, PTL

\* None of the panics of sim_main, ruu_commit, ruu_writeback, ruu_issue and
\* ruu_dispatch is reached (that of RSLINK_NEW is the subject of LinksConserved).
THEOREM PipelineNeverPanics == Spec => []NoPanic
BY CoreInvariance, NoPanicHolds, PTL

\* One mispredicted instruction separates the correct path from the wrong path
\* (ruu_dispatch sets the mark, ruu_recover removes what is younger).
THEOREM PipelineSpeculation == Spec => []SpeculationBoundary
BY CoreInvariance, BoundaryHolds, PTL

\* The create vectors name the youngest producer on each path (ruu_install_odep,
\* ruu_writeback, ruu_recover).
THEOREM PipelineCreators == Spec => []CreateVectorPrecise
BY CoreInvariance, VectorsHold, PTL

\* No wakeup is lost or doubled between ruu_link_idep, ruu_writeback, lsq_refresh
\* and ruu_issue.
THEOREM PipelineWakeups == Spec => []NoLostWakeup
BY CoreInvariance, WakeupsHold, PTL

\* lsq_refresh releases no load before the stores it may depend on.
THEOREM PipelineLoads == Spec => []LoadsWaitForStores
BY CoreInvariance, LoadsHold, PTL

=============================================================================
