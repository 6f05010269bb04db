--------------------------- MODULE PipelineWindow ---------------------------
(*****************************************************************************)
(* How operations leave the window of the out-of-order core and enter it:    *)
(* commit, recovery from a misprediction, and the filling and linking of a   *)
(* reservation station, each shown to keep the parts of the invariant.       *)
(*****************************************************************************)
EXTENDS PipelineInvariant

-----------------------------------------------------------------------------
(*****************************************************************************)
(* Operations leave the window.                                              *)
(*****************************************************************************)
\* The operations in G leave; the slots they had get new tags.
Gone(m, m2, G) ==
  \A q \in Queues : \A i \in Slot(q) :
    /\ In(m2, q, i) <=> In(m, q, i) /\ i \notin G[q]
    /\ i \in G[q] => In(m, q, i)
    /\ i \notin G[q] => m2.station[q][i] = m.station[q][i]
    /\ i \in G[q] => m2.station[q][i].tag = m.station[q][i].tag + 1
    /\ i \in G[q] => \A d \in 1..2 : Chain(m2, q, i, d) = <<>>

\* The others stay in order, and nobody leaves from between them.
InOrder(m, m2) ==
  \A q \in Queues : \A i, j \in Slot(q) : In(m2, q, i) /\ In(m2, q, j) =>
    /\ Distance(m2, q, i) < Distance(m2, q, j) <=> Distance(m, q, i) < Distance(m, q, j)
    /\ \A k \in Slot(q) :
         Distance(m, q, i) < Distance(m, q, k) /\ Distance(m, q, k) < Distance(m, q, j)
         => In(m2, q, k)

Cut(m, m2, G) ==
  /\ CoreOK(m2) /\ Ring(m2) /\ SameLists(m, m2)
  /\ Gone(m, m2, G) /\ InOrder(m, m2)

\* Who is left, and what has not changed.
LEMMA CutLeft ==
  ASSUME NEW m, NEW m2, NEW G, Gone(m, m2, G), NEW q \in Queues, NEW i \in Slot(q),
         In(m2, q, i)
  PROVE  In(m, q, i) /\ i \notin G[q] /\ m2.station[q][i] = m.station[q][i]
BY DEF Gone

\* Kinds, order and flags survive when operations leave.
LEMMA CutShape ==
  ASSUME NEW m, NEW m2, NEW G, Cut(m, m2, G), NEW last
  PROVE  /\ Kinds(m) => Kinds(m2)
         /\ Ordered(m, last) => Ordered(m2, last)
         /\ FlagsOK(m, {}) => FlagsOK(m2, {})
<1>1. ASSUME NEW q \in Queues, NEW i \in Slot(q), In(m2, q, i)
      PROVE  In(m, q, i) /\ m2.station[q][i] = m.station[q][i]
  BY <1>1, CutLeft DEF Cut
<1>2. Kinds(m) => Kinds(m2)
  BY <1>1 DEF Kinds
<1>3. Ordered(m, last) => Ordered(m2, last)
  <2> SUFFICES ASSUME Ordered(m, last), NEW q \in Queues, NEW i \in Slot(q), In(m2, q, i)
               PROVE  /\ LastSeq(m2.station[q][i]) <= last
                      /\ \A j \in Slot(q) :
                           In(m2, q, j) /\ Distance(m2, q, i) < Distance(m2, q, j) =>
                             LastSeq(m2.station[q][i]) < m2.station[q][j].seq
    BY DEF Ordered
  <2>1. LastSeq(m2.station[q][i]) <= last
    BY <1>1 DEF Ordered
  <2>2. ASSUME NEW j \in Slot(q), In(m2, q, j), Distance(m2, q, i) < Distance(m2, q, j)
        PROVE  LastSeq(m2.station[q][i]) < m2.station[q][j].seq
    <3>1. Distance(m, q, i) < Distance(m, q, j)
      BY <2>2 DEF Cut, InOrder
    <3>2. In(m, q, i) /\ In(m, q, j) /\ m2.station[q][i] = m.station[q][i]
          /\ m2.station[q][j] = m.station[q][j]
      BY <1>1, <2>2
    <3>3. LastSeq(m.station[q][i]) < m.station[q][j].seq
      BY <3>1, <3>2 DEF Ordered
    <3> QED BY <3>2, <3>3
  <2> QED BY <2>1, <2>2
<1>4. FlagsOK(m, {}) => FlagsOK(m2, {})
  BY <1>1 DEF FlagsOK
<1> QED BY <1>2, <1>3, <1>4

\* Pairs survive when both halves leave together.
LEMMA CutPaired ==
  ASSUME NEW m, NEW m2, NEW G, Cut(m, m2, G), Paired(m),
         \A i \in Slot("RUU") : \A j \in Slot("LSQ") :
           In(m, "RUU", i) /\ In(m, "LSQ", j) /\ Pair(m, i, j) =>
             (i \in G["RUU"] <=> j \in G["LSQ"])
  PROVE  Paired(m2)
<1>1. "RUU" \in Queues /\ "LSQ" \in Queues
  BY DEF Queues
<1>2. \A i \in Slot("RUU") : In(m2, "RUU", i) <=> In(m, "RUU", i) /\ i \notin G["RUU"]
  BY <1>1 DEF Cut, Gone
<1>3. \A j \in Slot("LSQ") : In(m2, "LSQ", j) <=> In(m, "LSQ", j) /\ j \notin G["LSQ"]
  BY <1>1 DEF Cut, Gone
<1>4. ASSUME NEW i \in Slot("RUU"), In(m2, "RUU", i), NEW j \in Slot("LSQ"), In(m2, "LSQ", j),
             Pair(m, i, j)
      PROVE  Pair(m2, i, j)
  <2>1. m2.station["RUU"][i] = m.station["RUU"][i] /\ m2.station["LSQ"][j] = m.station["LSQ"][j]
    BY <1>1, <1>4, CutLeft DEF Cut
  <2> QED BY <1>4, <2>1 DEF Pair
<1>5. ASSUME NEW j \in Slot("LSQ"), In(m2, "LSQ", j)
      PROVE  \E i \in Slot("RUU") : In(m2, "RUU", i) /\ Pair(m2, i, j)
  <2>1. PICK i \in Slot("RUU") : In(m, "RUU", i) /\ Pair(m, i, j)
    BY <1>3, <1>5 DEF Paired
  <2>2. In(m2, "RUU", i)
    BY <1>2, <1>3, <1>5, <2>1
  <2> QED BY <1>4, <1>5, <2>1, <2>2
<1>6. ASSUME NEW i \in Slot("RUU"), In(m2, "RUU", i), m2.station["RUU"][i].ea_comp
      PROVE  \E j \in Slot("LSQ") : In(m2, "LSQ", j) /\ Pair(m2, i, j)
  <2>1. m.station["RUU"][i].ea_comp
    BY <1>1, <1>6, CutLeft DEF Cut
  <2>2. PICK j \in Slot("LSQ") : In(m, "LSQ", j) /\ Pair(m, i, j)
    BY <1>2, <1>6, <2>1 DEF Paired
  <2>3. In(m2, "LSQ", j)
    BY <1>2, <1>3, <1>6, <2>2
  <2> QED BY <1>4, <1>6, <2>2, <2>3
<1> QED BY <1>5, <1>6 DEF Paired

\* The loads' condition survives: only older stores that retired are missing.
LEMMA CutLoads ==
  ASSUME NEW m, CoreOK(m), NEW m2, NEW G, Cut(m, m2, G), LoadsOK(m)
  PROVE  LoadsOK(m2)
<1>1. "LSQ" \in Queues
  BY DEF Queues
<1> SUFFICES ASSUME NEW s \in Slot("LSQ"), NEW p \in Slot("LSQ"),
                    In(m2, "LSQ", s), In(m2, "LSQ", p),
                    Distance(m2, "LSQ", s) < Distance(m2, "LSQ", p),
                    m2.station["LSQ"][s].op = "store", m2.station["LSQ"][p].op = "load",
                    m2.station["LSQ"][p].queued \/ m2.station["LSQ"][p].issued
             PROVE  /\ STORE_ADDR_READY(m2.station["LSQ"][s])
                    /\ \/ m2.station["LSQ"][s].addr # m2.station["LSQ"][p].addr
                       \/ OPERANDS_READY(m2.station["LSQ"][s])
                       \/ \E t \in Slot("LSQ") :
                            /\ Distance(m2, "LSQ", s) < Distance(m2, "LSQ", t)
                            /\ Distance(m2, "LSQ", t) < Distance(m2, "LSQ", p)
                            /\ m2.station["LSQ"][t].op = "store"
                            /\ m2.station["LSQ"][t].addr = m2.station["LSQ"][p].addr
  BY DEF LoadsOK
<1>2. /\ In(m, "LSQ", s) /\ m2.station["LSQ"][s] = m.station["LSQ"][s]
      /\ In(m, "LSQ", p) /\ m2.station["LSQ"][p] = m.station["LSQ"][p]
  BY <1>1, CutLeft DEF Cut
<1>3. Distance(m, "LSQ", s) < Distance(m, "LSQ", p)
  BY <1>1 DEF Cut, InOrder
<1>4. /\ STORE_ADDR_READY(m.station["LSQ"][s])
      /\ \/ m.station["LSQ"][s].addr # m.station["LSQ"][p].addr
         \/ OPERANDS_READY(m.station["LSQ"][s])
         \/ \E t \in Slot("LSQ") :
              /\ Distance(m, "LSQ", s) < Distance(m, "LSQ", t)
              /\ Distance(m, "LSQ", t) < Distance(m, "LSQ", p)
              /\ m.station["LSQ"][t].op = "store"
              /\ m.station["LSQ"][t].addr = m.station["LSQ"][p].addr
  BY <1>2, <1>3 DEF LoadsOK
<1>5. ASSUME NEW t \in Slot("LSQ"), Distance(m, "LSQ", s) < Distance(m, "LSQ", t),
             Distance(m, "LSQ", t) < Distance(m, "LSQ", p)
      PROVE  /\ Distance(m2, "LSQ", s) < Distance(m2, "LSQ", t)
             /\ Distance(m2, "LSQ", t) < Distance(m2, "LSQ", p)
             /\ m2.station["LSQ"][t] = m.station["LSQ"][t]
  <2>1. In(m2, "LSQ", t)
    BY <1>1, <1>5 DEF Cut, InOrder
  <2>2. m2.station["LSQ"][t] = m.station["LSQ"][t]
    BY <1>1, <2>1, CutLeft DEF Cut
  <2> QED BY <1>1, <1>5, <2>1, <2>2 DEF Cut, InOrder
<1> QED BY <1>2, <1>4, <1>5

\* The links to operations that left are dead.
LEMMA CutLink ==
  ASSUME NEW m, CoreOK(m), NEW m2, NEW G, Gone(m, m2, G), NEW l \in Links, LinkOK(m, l)
  PROVE  /\ LinkOK(m2, l)
         /\ RSLINK_VALID(m2, l) <=> RSLINK_VALID(m, l) /\ l.i \notin G[l.q]
         /\ RSLINK_VALID(m2, l) => RS(m2, l) = RS(m, l)
<1>1. l.q \in Queues /\ l.i \in Slot(l.q) /\ l.tag \in Nat
  BY DEF Links
<1>2. m.station[l.q][l.i].tag \in Nat
  BY <1>1, StationType, StationFields
<1>3. CASE l.i \in G[l.q]
  <2>1. m2.station[l.q][l.i].tag = m.station[l.q][l.i].tag + 1
    BY <1>1, <1>3 DEF Gone
  <2>2. LinkOK(m2, l) /\ ~RSLINK_VALID(m2, l)
    BY <1>1, <1>2, <2>1 DEF LinkOK, RSLINK_VALID, RS
  <2> QED BY <1>3, <2>2
<1>4. CASE l.i \notin G[l.q]
  <2>1. m2.station[l.q][l.i] = m.station[l.q][l.i]
        /\ (In(m2, l.q, l.i) <=> In(m, l.q, l.i))
    BY <1>1, <1>4 DEF Gone
  <2> QED BY <1>4, <2>1 DEF LinkOK, RSLINK_VALID, RS
<1> QED BY <1>3, <1>4

\* A link names an operation that is left exactly as before.
LEMMA CutTarget ==
  ASSUME NEW m, NEW m2, NEW G, Gone(m, m2, G), NEW l,
         NEW q \in Queues, NEW i \in Slot(q), In(m2, q, i)
  PROVE  Targets(m2, l, q, i) <=> Targets(m, l, q, i)
BY CutLeft DEF Targets

\* The ready list may keep links to operations that left: their tags differ.
LEMMA CutReady ==
  ASSUME NEW m, CoreOK(m), NEW m2, NEW G, Cut(m, m2, G), NEW list \in Seq(Links),
         ReadyOK(m, list)
  PROVE  ReadyOK(m2, list)
<1>1. Gone(m, m2, G) /\ m2.ready_queue = m.ready_queue /\ m.ready_queue \in Seq(Links)
  BY DEF Cut, SameLists, CoreOK
<1>2. ASSUME NEW s \in Seq(Links), ListOK(m, s)
      PROVE  ListOK(m2, s)
  <2>1. ASSUME NEW k \in 1..Len(s)
        PROVE  LinkOK(m2, s[k]) /\ (RSLINK_VALID(m2, s[k]) => RS(m2, s[k]).queued)
    <3>1. PICK l \in Links : l = s[k]
      OBVIOUS
    <3>2. LinkOK(m, l) /\ (RSLINK_VALID(m, l) => RS(m, l).queued)
      BY <1>2, <3>1 DEF ListOK
    <3>3. /\ LinkOK(m2, l)
          /\ RSLINK_VALID(m2, l) => RSLINK_VALID(m, l) /\ RS(m2, l) = RS(m, l)
      BY <1>1, <3>2, CutLink
    <3> QED BY <3>1, <3>2, <3>3
  <2> QED BY <1>2, <2>1 DEF ListOK
<1>3. ASSUME NEW s \in Seq(Links), ListOK(m, s), NEW q \in Queues, NEW i \in Slot(q),
             In(m2, q, i), Listed(m, s, q, i)
      PROVE  Listed(m2, s, q, i)
  <2>1. PICK k \in 1..Len(s) : Targets(m, s[k], q, i)
    BY <1>3 DEF Listed
  <2>2. PICK l \in Links : l = s[k]
    OBVIOUS
  <2>4. Targets(m2, l, q, i)
    BY <1>1, <1>3, <2>1, <2>2, CutTarget
  <2> QED BY <2>2, <2>4 DEF Listed
<1>4. ASSUME NEW q \in Queues, NEW i \in Slot(q), In(m2, q, i), m2.station[q][i].queued
      PROVE  Listed(m2, m.ready_queue, q, i) \/ Listed(m2, list, q, i)
  <2>1. In(m, q, i) /\ m.station[q][i].queued
    BY <1>1, <1>4, CutLeft
  <2> QED BY <1>1, <1>3, <1>4, <2>1, ReadyParts
<1> QED BY <1>1, <1>2, <1>4, ReadyParts

\* So may the event queue.
LEMMA CutEvents ==
  ASSUME NEW m, CoreOK(m), NEW m2, NEW G, Cut(m, m2, G), EventsOK(m)
  PROVE  EventsOK(m2)
<1>1. Gone(m, m2, G) /\ m2.event_queue = m.event_queue /\ m.event_queue \in Seq(Links)
  BY DEF Cut, SameLists, CoreOK
<1>2. ASSUME NEW k \in 1..Len(m.event_queue)
      PROVE  /\ m.event_queue[k] \in Links /\ LinkOK(m, m.event_queue[k])
             /\ LinkOK(m2, m.event_queue[k])
             /\ RSLINK_VALID(m2, m.event_queue[k]) =>
                  RS(m2, m.event_queue[k]).issued /\ ~RS(m2, m.event_queue[k]).completed
  <2>1. PICK l \in Links : l = m.event_queue[k]
    BY <1>1
  <2>2. LinkOK(m, l) /\ (RSLINK_VALID(m, l) => RS(m, l).issued /\ ~RS(m, l).completed)
    BY <2>1 DEF EventsOK
  <2>3. /\ LinkOK(m2, l)
        /\ RSLINK_VALID(m2, l) => RSLINK_VALID(m, l) /\ RS(m2, l) = RS(m, l)
    BY <1>1, <2>2, CutLink
  <2> QED BY <2>1, <2>2, <2>3
<1>3. ASSUME NEW q \in Queues, NEW i \in Slot(q), In(m2, q, i),
             m2.station[q][i].issued, ~m2.station[q][i].completed
      PROVE  \E k \in 1..Len(m.event_queue) : Targets(m2, m.event_queue[k], q, i)
  <2>1. In(m, q, i) /\ m.station[q][i].issued /\ ~m.station[q][i].completed
    BY <1>1, <1>3, CutLeft
  <2>2. PICK k \in 1..Len(m.event_queue) : Targets(m, m.event_queue[k], q, i)
    BY <2>1 DEF EventsOK
  <2>3. Targets(m2, m.event_queue[k], q, i)
    BY <1>1, <1>3, <2>2, CutTarget
  <2> QED BY <2>3
<1> QED BY <1>1, <1>2, <1>3 DEF EventsOK

\* Nobody who is left was waiting for an operation that left.
LEMMA CutChains ==
  ASSUME NEW m, CoreOK(m), NEW m2, NEW G, Cut(m, m2, G), NEW X, ChainsOK(m, X, {}),
         \A q \in Queues : \A i \in Slot(q) : \A d \in 1..2 :
           i \in G[q] => \A k \in 1..Len(Chain(m, q, i, d)) :
             LET l == Chain(m, q, i, d)[k] IN RSLINK_VALID(m, l) => l.i \in G[l.q]
  PROVE  ChainsOK(m2, X, {})
<1>1. /\ ChainsInFlight(m, X) /\ ChainLinks(m, {}) /\ LinkedOnce(m) /\ AllLinked(m, {})
      /\ Gone(m, m2, G) /\ CoreOK(m2)
  BY ChainsParts DEF Cut
<1>2. ASSUME NEW q \in Queues, NEW i \in Slot(q), NEW d \in 1..2
      PROVE  /\ i \in G[q] => Chain(m2, q, i, d) = <<>>
             /\ i \notin G[q] => Chain(m2, q, i, d) = Chain(m, q, i, d)
                                     /\ m2.station[q][i] = m.station[q][i]
  BY <1>1 DEF Gone, Chain
<1>3. ASSUME NEW q \in Queues, NEW i \in Slot(q), NEW d \in 1..2,
             NEW k \in 1..Len(Chain(m2, q, i, d))
      PROVE  /\ i \notin G[q] /\ k \in 1..Len(Chain(m, q, i, d))
             /\ Chain(m2, q, i, d)[k] = Chain(m, q, i, d)[k]
             /\ Chain(m, q, i, d)[k] \in Links
  <2>1. i \notin G[q]
    BY <1>2
  <2> QED BY <1>2, <2>1, ChainType
<1>4. ChainsInFlight(m2, X)
  <2> SUFFICES ASSUME NEW q \in Queues, NEW i \in Slot(q), NEW d \in 1..2,
                      Chain(m2, q, i, d) # <<>>
               PROVE  /\ In(m2, q, i) /\ m2.station[q][i].onames[d] # NA
                      /\ m2.station[q][i].completed => <<q, i, d>> \in X
    BY DEF ChainsInFlight
  <2>1. i \notin G[q] /\ Chain(m, q, i, d) # <<>> /\ m2.station[q][i] = m.station[q][i]
    BY <1>2
  <2>2. In(m, q, i) /\ m.station[q][i].onames[d] # NA
        /\ (m.station[q][i].completed => <<q, i, d>> \in X)
    BY <1>1, <2>1 DEF ChainsInFlight
  <2> QED BY <1>1, <2>1, <2>2 DEF Gone
<1>5. ChainLinks(m2, {})
  <2>1. ASSUME NEW q \in Queues, NEW i \in Slot(q), NEW d \in 1..2,
               NEW k \in 1..Len(Chain(m2, q, i, d))
        PROVE  LET l == Chain(m2, q, i, d)[k] IN
               /\ LinkOK(m2, l) /\ l.x \in 1..3
               /\ RSLINK_VALID(m2, l) => /\ ~RS(m2, l).idep_ready[l.x]
                                         /\ m2.station[q][i].seq < RS(m2, l).seq
    <3>1. PICK l \in Links : l = Chain(m, q, i, d)[k] /\ l = Chain(m2, q, i, d)[k]
      BY <1>3
    <3>2. /\ LinkOK(m, l) /\ l.x \in 1..3
          /\ RSLINK_VALID(m, l) => /\ ~RS(m, l).idep_ready[l.x]
                                   /\ m.station[q][i].seq < RS(m, l).seq
      BY <1>1, <1>3, <3>1 DEF ChainLinks
    <3>3. /\ LinkOK(m2, l)
          /\ RSLINK_VALID(m2, l) => RSLINK_VALID(m, l) /\ RS(m2, l) = RS(m, l)
      BY <1>1, <3>2, CutLink
    <3>4. m2.station[q][i] = m.station[q][i]
      BY <1>2, <1>3
    <3> QED BY <3>1, <3>2, <3>3, <3>4
  <2> QED BY <2>1 DEF ChainLinks
<1>6. LinkedOnce(m2)
  <2>1. ASSUME NEW q \in Queues, NEW p \in Queues, NEW i \in Slot(q), NEW j \in Slot(p),
               NEW d \in 1..2, NEW e \in 1..2,
               NEW k \in 1..Len(Chain(m2, q, i, d)), NEW h \in 1..Len(Chain(m2, p, j, e)),
               SameTarget(Chain(m2, q, i, d)[k], Chain(m2, p, j, e)[h]),
               Chain(m2, q, i, d)[k].x = Chain(m2, p, j, e)[h].x
        PROVE  q = p /\ i = j /\ d = e /\ k = h
    <3>1. /\ k \in 1..Len(Chain(m, q, i, d)) /\ Chain(m2, q, i, d)[k] = Chain(m, q, i, d)[k]
          /\ h \in 1..Len(Chain(m, p, j, e)) /\ Chain(m2, p, j, e)[h] = Chain(m, p, j, e)[h]
      BY <1>3
    <3>2. SameTarget(Chain(m, q, i, d)[k], Chain(m, p, j, e)[h])
          /\ Chain(m, q, i, d)[k].x = Chain(m, p, j, e)[h].x
      BY <2>1, <3>1
    <3>3. LinkedOnce(m)
      BY <1>1
    <3>4. k \in 1..Len(Chain(m, q, i, d)) /\ h \in 1..Len(Chain(m, p, j, e))
      BY <3>1
    <3> QED BY ONLY <3>2, <3>3, <3>4, OnceElim, q \in Queues, p \in Queues, i \in Slot(q),
                    j \in Slot(p), d \in 1..2, e \in 1..2
  <2> QED BY ONLY <2>1, SMTT(30) DEF LinkedOnce
<1>7. AllLinked(m2, {})
  <2> SUFFICES ASSUME NEW q \in Queues, NEW i \in Slot(q), NEW o \in 1..3,
                      In(m2, q, i), ~m2.station[q][i].idep_ready[o]
               PROVE  Linked(m2, q, i, o)
    BY DEF AllLinked
  <2>1. In(m, q, i) /\ i \notin G[q] /\ ~m.station[q][i].idep_ready[o]
    BY <1>1, CutLeft
  <2>2. Linked(m, q, i, o)
    BY <1>1, <2>1 DEF AllLinked
  <2>3. PICK p \in Queues : \E j \in Slot(p) : \E d \in 1..2 :
          \E k \in 1..Len(Chain(m, p, j, d)) :
            Targets(m, Chain(m, p, j, d)[k], q, i) /\ Chain(m, p, j, d)[k].x = o
    BY <2>2 DEF Linked
  <2>4. PICK j \in Slot(p), d \in 1..2 :
          \E k \in 1..Len(Chain(m, p, j, d)) :
            Targets(m, Chain(m, p, j, d)[k], q, i) /\ Chain(m, p, j, d)[k].x = o
    BY <2>3
  <2>5. PICK k \in 1..Len(Chain(m, p, j, d)) :
          Targets(m, Chain(m, p, j, d)[k], q, i) /\ Chain(m, p, j, d)[k].x = o
    BY <2>4
  <2>6. PICK l \in Links : l = Chain(m, p, j, d)[k]
    BY ChainType
  <2>7. RSLINK_VALID(m, l) /\ l.q = q /\ l.i = i
    BY <2>5, <2>6 DEF Targets, RSLINK_VALID, RS
  <2>8. j \notin G[p]
    BY <2>1, <2>6, <2>7
  <2>9. Chain(m2, p, j, d) = Chain(m, p, j, d)
    BY <1>2, <2>8
  <2>10. Targets(m2, l, q, i)
    BY <1>1, <2>5, <2>6, CutTarget
  <2> QED BY <2>5, <2>6, <2>9, <2>10 DEF Linked
<1> QED BY <1>4, <1>5, <1>6, <1>7, ChainsParts

-----------------------------------------------------------------------------
(*****************************************************************************)
(* Retirement.                                                               *)
(*****************************************************************************)
\* What a core needs to be well-typed.
LEMMA CoreIs ==
  ASSUME NEW m2, Record(m2), m2.station = [q \in Queues |-> m2.station[q]],
         \A q \in Queues : m2.station[q] = [j \in Slot(q) |-> m2.station[q][j]],
         \A q \in Queues : \A j \in Slot(q) : m2.station[q][j] \in Station,
         m2.head \in [Queues -> Nat], m2.tail \in [Queues -> Nat], m2.num \in [Queues -> Nat],
         \A q \in Queues : /\ m2.head[q] \in Slot(q) /\ m2.tail[q] \in Slot(q)
                           /\ m2.num[q] <= Size[q],
         m2.ready_queue \in Seq(Links), m2.event_queue \in Seq(Links),
         m2.create_vector \in [Names -> Creators \cup {NONE}],
         m2.spec_create_vector \in [Names -> Creators \cup {NONE}],
         m2.use_spec_cv \subseteq Names
  PROVE  CoreOK(m2)
<1>1. \A q \in Queues : m2.station[q] \in [Slot(q) -> Station]
  OBVIOUS
<1> QED BY <1>1 DEF CoreOK, Record

\* The oldest operation of queue q retires.
Oldest(m, q) == [p \in Queues |-> IF p = q THEN {m.head[q]} ELSE {}]

\* One step forward in a circular buffer.
LEMMA StepForward ==
  ASSUME NEW S \in Nat, S > 0, NEW h \in 0..(S - 1), NEW k \in 0..S
  PROVE  /\ (h + 1) % S = IF h = S - 1 THEN 0 ELSE h + 1
         /\ k > 0 => (((h + 1) % S) + (k - 1)) % S = (h + k) % S
<1>1. (h + 1) % S = IF h = S - 1 THEN 0 ELSE h + 1
  BY Mod
<1>2. ASSUME k > 0 PROVE (((h + 1) % S) + (k - 1)) % S = (h + k) % S
  <2>1. CASE h = S - 1
    <3>1. ((h + 1) % S) + (k - 1) = k - 1
      BY <1>1, <2>1
    <3>2. (k - 1) % S = k - 1
      BY <1>2, Mod
    <3>3. (h + k) % S = k - 1
      <4>1. h + k \in Int /\ S <= h + k /\ h + k < 2 * S /\ h + k - S = k - 1
        BY <1>2, <2>1
      <4> QED BY <4>1, Mod
    <3> QED BY <3>1, <3>2, <3>3
  <2>2. CASE h # S - 1
    <3>1. ((h + 1) % S) + (k - 1) = h + k
      BY <1>1, <2>2
    <3> QED BY <3>1
  <2> QED BY <2>1, <2>2
<1> QED BY <1>1, <1>2

\* What retiring the head of a queue does.
LEMMA RetireParts ==
  ASSUME NEW m, CoreOK(m), NEW q \in Queues, m.num[q] > 0, NEW m2, m2 = Retire(m, q)
  PROVE  /\ CoreOK(m2) /\ SameLists(m, m2) /\ SameVectors(m, m2)
         /\ m2.tail = m.tail
         /\ \A p \in Queues : m2.head[p] = IF p = q THEN (m.head[q] + 1) % Size[q] ELSE m.head[p]
         /\ \A p \in Queues : m2.num[p] = IF p = q THEN m.num[q] - 1 ELSE m.num[p]
         /\ Put(m, m2, q, m.head[q], [m.station[q][m.head[q]] EXCEPT !.tag = @ + 1])
<1> DEFINE h == m.head[q]
           s == [m.station[q][m.head[q]] EXCEPT !.tag = @ + 1]
<1>1. h \in Slot(q) /\ m.station[q][h] \in Station
  <2>1. h \in Slot(q)
    BY DEF CoreOK
  <2> QED BY <2>1, StationType
<1>2. s \in Station
  BY <1>1, StationUpdates
<1>3. Put(m, m2, q, h, s)
  BY <1>1 DEF Retire, CoreOK, Put
<1>4. SameVectors(m, m2) /\ SameLists(m, m2) /\ m2.tail = m.tail
  BY DEF Retire, CoreOK, SameVectors, SameLists
<1>5. Record(m2)
  BY DEF Retire, CoreOK, Record
<1>6. /\ m2.station = [p \in Queues |-> m2.station[p]]
      /\ \A p \in Queues : m2.station[p] = [j \in Slot(p) |-> m2.station[p][j]]
  <2>1. m2.station = [p \in Queues |-> m2.station[p]]
    BY DEF Retire, CoreOK
  <2>2. \A p \in Queues : m2.station[p] = [j \in Slot(p) |-> m2.station[p][j]]
    BY DEF Retire, CoreOK
  <2> QED BY <2>1, <2>2
<1>7. /\ m2.head = [m.head EXCEPT ![q] = (m.head[q] + 1) % Size[q]]
      /\ m2.num = [m.num EXCEPT ![q] = m.num[q] - 1]
  BY DEF Retire, CoreOK
<1>8. m.head \in [Queues -> Nat] /\ m.num \in [Queues -> Nat]
  BY DEF CoreOK
<1>9. /\ \A p \in Queues : m2.head[p] = IF p = q THEN (m.head[q] + 1) % Size[q] ELSE m.head[p]
      /\ \A p \in Queues : m2.num[p] = IF p = q THEN m.num[q] - 1 ELSE m.num[p]
  BY <1>7, <1>8
<1> HIDE DEF s, h
<1>10. \A p \in Queues : \A j \in Slot(p) : m2.station[p][j] \in Station
  <2> SUFFICES ASSUME NEW p \in Queues, NEW j \in Slot(p) PROVE m2.station[p][j] \in Station
    OBVIOUS
  <2>1. m.station[p][j] \in Station
    BY StationType
  <2>2. m2.station[p][j] = IF p = q /\ j = h THEN s ELSE m.station[p][j]
    BY <1>3 DEF Put
  <2> QED BY <1>2, <2>1, <2>2, Zenon
<1>11. (m.head[q] + 1) % Size[q] \in Slot(q) /\ (m.head[q] + 1) % Size[q] \in Nat
  <2>1. m.head[q] + 1 \in Int /\ Size[q] \in Nat /\ Size[q] > 0
    BY Pointers
  <2>2. (m.head[q] + 1) % Size[q] \in 0..(Size[q] - 1)
    BY <2>1, Mod
  <2> QED BY <2>1, <2>2 DEF Slot
<1>12. m.num[q] - 1 \in Nat /\ m.num[q] - 1 <= Size[q]
  BY Pointers
<1>13. m2.head \in [Queues -> Nat] /\ m2.tail \in [Queues -> Nat] /\ m2.num \in [Queues -> Nat]
  BY <1>4, <1>7, <1>8, <1>11, <1>12 DEF CoreOK
<1>14. \A p \in Queues : /\ m2.head[p] \in Slot(p) /\ m2.tail[p] \in Slot(p)
                         /\ m2.num[p] <= Size[p]
  BY <1>4, <1>9, <1>11, <1>12 DEF CoreOK
<1>15. /\ m2.ready_queue \in Seq(Links) /\ m2.event_queue \in Seq(Links)
       /\ m2.create_vector \in [Names -> Creators \cup {NONE}]
       /\ m2.spec_create_vector \in [Names -> Creators \cup {NONE}]
       /\ m2.use_spec_cv \subseteq Names
  BY <1>4 DEF CoreOK, SameVectors, SameLists
<1>16. CoreOK(m2)
  BY ONLY <1>5, <1>6, <1>10, <1>13, <1>14, <1>15, CoreIs
<1> QED BY <1>3, <1>4, <1>9, <1>16 DEF s, h

\* Retiring the head cuts one operation off at the old end.
LEMMA RetireCut ==
  ASSUME NEW m, CoreOK(m), Ring(m), NEW q \in Queues, m.num[q] > 0,
         \A d \in 1..2 : Chain(m, q, m.head[q], d) = <<>>, NEW m2, m2 = Retire(m, q)
  PROVE  Cut(m, m2, Oldest(m, q)) /\ SameVectors(m, m2)
<1> DEFINE h == m.head[q]
           a == m.station[q][h]
           s == [a EXCEPT !.tag = @ + 1]
<1>1. /\ CoreOK(m2) /\ SameLists(m, m2) /\ SameVectors(m, m2)
      /\ m2.tail = m.tail
      /\ \A p \in Queues : m2.head[p] = IF p = q THEN (m.head[q] + 1) % Size[q] ELSE m.head[p]
      /\ \A p \in Queues : m2.num[p] = IF p = q THEN m.num[q] - 1 ELSE m.num[p]
      /\ Put(m, m2, q, m.head[q], s)
  BY RetireParts
<1>2. h \in Slot(q) /\ h \in Nat /\ h < Size[q] /\ m.num[q] \in Nat /\ m.num[q] <= Size[q]
      /\ Size[q] \in Nat /\ Size[q] > 0
  BY Pointers DEF Slot
<1>3. a \in Station /\ s.tag = a.tag + 1 /\ s.odep_list = a.odep_list
  <2>1. a \in Station
    BY <1>2, StationType
  <2> QED BY <2>1 DEF Station
<1>4. /\ (h + 1) % Size[q] = IF h = Size[q] - 1 THEN 0 ELSE h + 1
      /\ (((h + 1) % Size[q]) + (m.num[q] - 1)) % Size[q] = (h + m.num[q]) % Size[q]
  <2>1. h \in 0..(Size[q] - 1) /\ m.num[q] \in 0..Size[q]
    BY <1>2
  <2> QED BY <1>2, <2>1, StepForward
<1>5. Ring(m2)
  BY <1>1, <1>4 DEF Ring
<1>6. ASSUME NEW p \in Queues, NEW i \in Slot(p), p # q
      PROVE  Distance(m2, p, i) = Distance(m, p, i) /\ (In(m2, p, i) <=> In(m, p, i))
  BY <1>1, <1>6 DEF Distance, In
<1>7. ASSUME NEW i \in Slot(q)
      PROVE  /\ Distance(m, q, i) \in Nat /\ Distance(m2, q, i) \in Nat
             /\ i # h => Distance(m2, q, i) = Distance(m, q, i) - 1 /\ Distance(m, q, i) > 0
             /\ i = h => Distance(m2, q, i) = Size[q] - 1 /\ Distance(m, q, i) = 0
  <2>1. i \in Nat /\ i < Size[q]
    BY <1>2 DEF Slot
  <2>2. Distance(m, q, i) = IF i >= h THEN i - h ELSE i - h + Size[q]
    BY DistanceIs
  <2>3. Distance(m2, q, i) = IF i >= m2.head[q] THEN i - m2.head[q] ELSE i - m2.head[q] + Size[q]
    BY <1>1, DistanceIs
  <2>4. m2.head[q] = IF h = Size[q] - 1 THEN 0 ELSE h + 1
    BY <1>1, <1>4
  <2> HIDE DEF h
  <2> QED BY <1>2, <2>1, <2>2, <2>3, <2>4
<1>8. ASSUME NEW i \in Slot(q)
      PROVE  In(m2, q, i) <=> In(m, q, i) /\ i # h
  BY <1>1, <1>2, <1>7 DEF In
<1> DEFINE G == Oldest(m, q)
<1>9. G[q] = {h} /\ \A p \in Queues : p # q => G[p] = {}
  BY DEF Oldest
<1> HIDE DEF G, s, a
<1>10. ASSUME NEW p \in Queues, NEW i \in Slot(p)
       PROVE  /\ In(m2, p, i) <=> In(m, p, i) /\ i \notin G[p]
              /\ i \in G[p] => In(m, p, i)
              /\ i \notin G[p] => m2.station[p][i] = m.station[p][i]
              /\ i \in G[p] => m2.station[p][i].tag = m.station[p][i].tag + 1
              /\ i \in G[p] => \A d \in 1..2 : Chain(m2, p, i, d) = <<>>
  <2>1. CASE p # q
    <3>1. i \notin G[p]
      BY <1>9, <2>1
    <3>2. m2.station[p][i] = m.station[p][i]
      BY <1>1, <2>1 DEF Put
    <3> QED BY <1>6, <2>1, <3>1, <3>2
  <2>2. CASE p = q /\ i # h
    <3>1. i \notin G[p]
      BY <1>9, <2>2
    <3>2. m2.station[p][i] = m.station[p][i]
      BY <1>1, <2>2 DEF Put
    <3> QED BY <1>8, <2>2, <3>1, <3>2
  <2>3. CASE p = q /\ i = h
    <3>1. i \in G[p]
      BY <1>9, <2>3
    <3>2. m2.station[p][i] = s /\ m.station[p][i] = a
      BY <1>1, <2>3 DEF Put, a
    <3>3. In(m, p, i)
      BY <1>2, <1>7, <2>3 DEF In
    <3>4. ASSUME NEW d \in 1..2 PROVE Chain(m2, p, i, d) = <<>>
      <4>1. Chain(m, p, i, d) = <<>>
        BY <2>3
      <4> QED BY <1>3, <3>2, <4>1 DEF Chain
    <3> QED BY <1>3, <1>8, <2>3, <3>1, <3>2, <3>3, <3>4
  <2> QED BY <2>1, <2>2, <2>3
<1>11. Gone(m, m2, G)
  BY <1>10 DEF Gone
<1>12. ASSUME NEW p \in Queues, NEW i \in Slot(p), NEW j \in Slot(p), In(m2, p, i), In(m2, p, j)
       PROVE  /\ Distance(m2, p, i) < Distance(m2, p, j) <=> Distance(m, p, i) < Distance(m, p, j)
              /\ \A k \in Slot(p) :
                   Distance(m, p, i) < Distance(m, p, k) /\ Distance(m, p, k) < Distance(m, p, j)
                   => In(m2, p, k)
  <2>1. CASE p # q
    <3>1. ASSUME NEW k \in Slot(p), Distance(m, p, k) < Distance(m, p, j)
          PROVE  In(m2, p, k)
      <4>1. Distance(m, p, j) < m.num[p]
        BY <1>6, <1>12, <2>1 DEF In
      <4>2. Distance(m, p, j) \in Int /\ Distance(m, p, k) \in Int /\ m.num[p] \in Int
        BY DistanceIs, Pointers
      <4>3. In(m, p, k)
        BY <3>1, <4>1, <4>2 DEF In
      <4> QED BY <1>6, <2>1, <4>3
    <3> QED BY <1>6, <2>1, <3>1
  <2>2. CASE p = q
    <3>1. i # h /\ j # h /\ In(m, q, j)
      BY <1>8, <1>12, <2>2
    <3>2. ASSUME NEW k \in Slot(p), Distance(m, p, i) < Distance(m, p, k),
                 Distance(m, p, k) < Distance(m, p, j)
          PROVE  In(m2, p, k)
      <4>1. k # h
        BY <1>7, <2>2, <3>2
      <4>2. In(m, q, k)
        BY <1>2, <1>7, <2>2, <3>1, <3>2 DEF In
      <4> QED BY <1>8, <2>2, <4>1, <4>2
    <3> QED BY <1>7, <2>2, <3>1, <3>2
  <2> QED BY <2>1, <2>2
<1>13. InOrder(m, m2)
  BY <1>12 DEF InOrder
<1>14. Cut(m, m2, G)
  BY <1>1, <1>5, <1>11, <1>13 DEF Cut
<1> QED BY <1>1, <1>14 DEF G

\* Two cuts in a row.
Both(G, H) == [q \in Queues |-> G[q] \cup H[q]]

\* Two cuts are one.
LEMMA CutTwice ==
  ASSUME NEW m, CoreOK(m), NEW m1, NEW m2, NEW G, NEW H, Cut(m, m1, G), Cut(m1, m2, H)
  PROVE  Cut(m, m2, Both(G, H))
<1>1. \A q \in Queues : \A i : i \in Both(G, H)[q] <=> i \in G[q] \/ i \in H[q]
  BY DEF Both
<1> DEFINE B == Both(G, H)
<1> HIDE DEF B
<1>2. \A q \in Queues : \A i : i \in B[q] <=> i \in G[q] \/ i \in H[q]
  BY <1>1 DEF B
<1>3. Gone(m, m1, G) /\ Gone(m1, m2, H) /\ InOrder(m, m1) /\ InOrder(m1, m2)
  BY DEF Cut
<1>4. ASSUME NEW q \in Queues, NEW i \in Slot(q)
      PROVE  /\ In(m2, q, i) <=> In(m, q, i) /\ i \notin B[q]
             /\ i \in B[q] => In(m, q, i)
             /\ i \notin B[q] => m2.station[q][i] = m.station[q][i]
             /\ i \in B[q] => m2.station[q][i].tag = m.station[q][i].tag + 1
             /\ i \in B[q] => \A d \in 1..2 : Chain(m2, q, i, d) = <<>>
  <2>1. /\ In(m1, q, i) <=> In(m, q, i) /\ i \notin G[q]
        /\ i \in G[q] => In(m, q, i)
        /\ i \notin G[q] => m1.station[q][i] = m.station[q][i]
        /\ i \in G[q] => m1.station[q][i].tag = m.station[q][i].tag + 1
        /\ i \in G[q] => \A d \in 1..2 : Chain(m1, q, i, d) = <<>>
    BY <1>3 DEF Gone
  <2>2. /\ In(m2, q, i) <=> In(m1, q, i) /\ i \notin H[q]
        /\ i \in H[q] => In(m1, q, i)
        /\ i \notin H[q] => m2.station[q][i] = m1.station[q][i]
        /\ i \in H[q] => m2.station[q][i].tag = m1.station[q][i].tag + 1
        /\ i \in H[q] => \A d \in 1..2 : Chain(m2, q, i, d) = <<>>
    BY <1>3 DEF Gone
  <2>3. i \notin H[q] => \A d \in 1..2 : Chain(m2, q, i, d) = Chain(m1, q, i, d)
    BY <2>2 DEF Chain
  <2> QED BY <1>2, <2>1, <2>2, <2>3
<1>5. Gone(m, m2, B)
  BY <1>4 DEF Gone
<1>6. ASSUME NEW q \in Queues, NEW i \in Slot(q), NEW j \in Slot(q), In(m2, q, i), In(m2, q, j)
      PROVE  /\ Distance(m2, q, i) < Distance(m2, q, j) <=> Distance(m, q, i) < Distance(m, q, j)
             /\ \A k \in Slot(q) :
                  Distance(m, q, i) < Distance(m, q, k) /\ Distance(m, q, k) < Distance(m, q, j)
                  => In(m2, q, k)
  <2>1. In(m1, q, i) /\ In(m1, q, j)
    BY <1>3, <1>6 DEF Gone
  <2>2. ASSUME NEW k \in Slot(q), Distance(m, q, i) < Distance(m, q, k),
               Distance(m, q, k) < Distance(m, q, j)
        PROVE  In(m2, q, k)
    <3>1. In(m1, q, k)
      BY <1>3, <2>1, <2>2 DEF InOrder
    <3>2. Distance(m1, q, i) < Distance(m1, q, k) /\ Distance(m1, q, k) < Distance(m1, q, j)
      BY <1>3, <2>1, <2>2, <3>1 DEF InOrder
    <3> QED BY <1>3, <1>6, <3>2 DEF InOrder
  <2>3. Distance(m2, q, i) < Distance(m2, q, j) <=> Distance(m1, q, i) < Distance(m1, q, j)
    BY <1>3, <1>6 DEF InOrder
  <2>4. Distance(m1, q, i) < Distance(m1, q, j) <=> Distance(m, q, i) < Distance(m, q, j)
    BY <1>3, <2>1 DEF InOrder
  <2> QED BY <2>2, <2>3, <2>4
<1>7. InOrder(m, m2)
  BY <1>6 DEF InOrder
<1>8. CoreOK(m2) /\ Ring(m2) /\ SameLists(m, m2)
  BY DEF Cut, SameLists
<1> QED BY <1>5, <1>7, <1>8 DEF Cut, B

\* The head is the oldest slot, in flight if any is.
LEMMA HeadFacts ==
  ASSUME NEW m, CoreOK(m), NEW q \in Queues
  PROVE  /\ m.head[q] \in Slot(q) /\ Distance(m, q, m.head[q]) = 0
         /\ m.num[q] > 0 <=> In(m, q, m.head[q])
         /\ \A i \in Slot(q) : i # m.head[q] => Distance(m, q, m.head[q]) < Distance(m, q, i)
         /\ \A i \in Slot(q) : In(m, q, i) => In(m, q, m.head[q])
<1>1. m.head[q] \in Slot(q)
  BY DEF CoreOK
<1>2. Distance(m, q, m.head[q]) = 0
  BY <1>1, DistanceIs, Pointers
<1>3. \A i \in Slot(q) : Distance(m, q, i) \in Nat
  BY DistanceIs, Pointers
<1>4. \A i \in Slot(q) : i # m.head[q] => Distance(m, q, i) # 0
  BY <1>1, <1>2, DistanceInjective
<1> QED BY <1>1, <1>2, <1>3, <1>4, Pointers DEF In

\* The memory access of the oldest operation is the oldest in the LSQ.
LEMMA HeadPair ==
  ASSUME NEW m, CoreOK(m), NEW last, Ordered(m, last), Paired(m), m.num["RUU"] > 0,
         m.station["RUU"][m.head["RUU"]].ea_comp
  PROVE  In(m, "LSQ", m.head["LSQ"]) /\ Pair(m, m.head["RUU"], m.head["LSQ"])
<1> DEFINE h == m.head["RUU"]
           g == m.head["LSQ"]
<1>1. "RUU" \in Queues /\ "LSQ" \in Queues
  BY DEF Queues
<1>2. h \in Slot("RUU") /\ In(m, "RUU", h)
  BY <1>1, HeadFacts
<1>3. PICK j \in Slot("LSQ") : In(m, "LSQ", j) /\ Pair(m, h, j)
  BY <1>2 DEF Paired
<1>4. g \in Slot("LSQ") /\ In(m, "LSQ", g)
  BY <1>1, <1>3, HeadFacts
<1>5. PICK i \in Slot("RUU") : In(m, "RUU", i) /\ Pair(m, i, g)
  BY <1>4 DEF Paired
<1>6. /\ m.station["RUU"][h].seq \in Nat /\ m.station["RUU"][i].seq \in Nat
      /\ m.station["LSQ"][j].seq \in Nat /\ m.station["LSQ"][g].seq \in Nat
  BY <1>1, <1>2, <1>3, <1>4, <1>5, StationType, StationFields
<1>7. /\ m.station["LSQ"][j].seq = m.station["RUU"][h].seq + 1
      /\ m.station["LSQ"][g].seq = m.station["RUU"][i].seq + 1
  BY <1>3, <1>5 DEF Pair
<1>8. i # h => m.station["RUU"][h].seq < m.station["RUU"][i].seq
  <2>1. i # h => Distance(m, "RUU", h) < Distance(m, "RUU", i)
    BY <1>1, <1>5, HeadFacts
  <2> HIDE DEF h
  <2> QED BY <1>1, <1>2, <1>5, <2>1, SeqOrder
<1>9. j # g => m.station["LSQ"][g].seq < m.station["LSQ"][j].seq
  <2>1. j # g => Distance(m, "LSQ", g) < Distance(m, "LSQ", j)
    BY <1>1, <1>3, HeadFacts
  <2> HIDE DEF g
  <2> QED BY <1>1, <1>3, <1>4, <2>1, SeqOrder
<1> HIDE DEF h, g
<1>10. j = g
  BY <1>6, <1>7, <1>8, <1>9
<1> QED BY <1>3, <1>4, <1>10 DEF h, g

\* The operations that leave have completed and are older than the rest.
OldestGone(m, m2, G) ==
  \A q \in Queues : \A i \in Slot(q) : i \in G[q] =>
    /\ m.station[q][i].completed
    /\ \A p \in Queues : \A j \in Slot(p) : In(m2, p, j) =>
         m.station[q][i].seq < m.station[p][j].seq

\* A creator stays precise when the oldest operations, all completed, leave.
LEMMA CutPrecise ==
  ASSUME NEW m, CoreOK(m), NEW m2, NEW G, Gone(m, m2, G), OldestGone(m, m2, G),
         NEW v \in Creators \cup {NONE}, NEW name \in Names, NEW all, Precise(m, v, name, all, {})
  PROVE  Precise(m2, v, name, all, {})
<1> DEFINE W(q, i, d) == Writes(m, q, i, d, name) /\ (all \/ ~m.station[q][i].spec_mode)
           V(q, i, d) == Writes(m2, q, i, d, name) /\ (all \/ ~m2.station[q][i].spec_mode)
<1>1. ASSUME NEW q \in Queues, NEW i \in Slot(q), NEW d \in 1..2
      PROVE  V(q, i, d) <=> W(q, i, d) /\ i \notin G[q]
  BY DEF Gone, Writes
<1>2. ASSUME NEW q \in Queues, NEW i \in Slot(q), NEW d \in 1..2, V(q, i, d)
      PROVE  In(m2, q, i) /\ m2.station[q][i] = m.station[q][i]
  BY <1>2, CutLeft DEF Writes
<1>3. ASSUME v # NONE
      PROVE  /\ V(v.q, v.i, v.odep)
             /\ ~m2.station[v.q][v.i].completed
             /\ \A q \in Queues : \A i \in Slot(q) : \A d \in 1..2 :
                  V(q, i, d) => m2.station[q][i].seq <= m2.station[v.q][v.i].seq
  <2>1. v.q \in Queues /\ v.i \in Slot(v.q) /\ v.odep \in 1..2
    BY <1>3, CreatorType
  <2>2. /\ W(v.q, v.i, v.odep) /\ ~m.station[v.q][v.i].completed
        /\ \A q \in Queues : \A i \in Slot(q) : \A d \in 1..2 :
             W(q, i, d) => m.station[q][i].seq <= m.station[v.q][v.i].seq
    BY <1>3 DEF Precise
  <2>3. v.i \notin G[v.q]
    BY <2>1, <2>2 DEF OldestGone
  <2>4. V(v.q, v.i, v.odep)
    BY <1>1, <2>1, <2>2, <2>3
  <2>5. m2.station[v.q][v.i] = m.station[v.q][v.i]
    BY <1>2, <2>1, <2>4
  <2> HIDE DEF V, W
  <2> QED BY <1>1, <1>2, <2>2, <2>4, <2>5
<1>4. ASSUME v = NONE, NEW q \in Queues, NEW i \in Slot(q), NEW d \in 1..2, V(q, i, d)
      PROVE  \/ m2.station[q][i].completed
             \/ \E p \in Queues : \E j \in Slot(p) : \E e \in 1..2 :
                  V(p, j, e) /\ m2.station[q][i].seq < m2.station[p][j].seq
  <2>1. W(q, i, d) /\ i \notin G[q] /\ In(m2, q, i) /\ m2.station[q][i] = m.station[q][i]
    BY <1>1, <1>2, <1>4
  <2>2. \/ m.station[q][i].completed
        \/ \E p \in Queues : \E j \in Slot(p) : \E e \in 1..2 :
             W(p, j, e) /\ m.station[q][i].seq < m.station[p][j].seq
    BY <1>4, <2>1 DEF Precise
  <2>3. CASE m.station[q][i].completed
    BY <2>1, <2>3
  <2>4. ASSUME NEW p \in Queues, NEW j \in Slot(p), NEW e \in 1..2, W(p, j, e),
               m.station[q][i].seq < m.station[p][j].seq
        PROVE  V(p, j, e) /\ m2.station[q][i].seq < m2.station[p][j].seq
    <3>1. j \in G[p] => m.station[p][j].seq < m.station[q][i].seq
      BY <2>1 DEF OldestGone
    <3>2. m.station[q][i].seq \in Nat /\ m.station[p][j].seq \in Nat
      BY StationType, StationFields
    <3>3. j \notin G[p]
      BY <2>4, <3>1, <3>2
    <3>4. V(p, j, e)
      BY <1>1, <2>4, <3>3
    <3>5. m2.station[p][j] = m.station[p][j]
      BY <1>2, <3>4
    <3> QED BY <2>1, <2>4, <3>4, <3>5
  <2> HIDE DEF V, W
  <2> QED BY <2>2, <2>3, <2>4
<1> QED BY <1>3, <1>4 DEF Precise

\* The same for both vectors.
LEMMA CutCreators ==
  ASSUME NEW m, CoreOK(m), NEW m2, NEW G, Gone(m, m2, G), OldestGone(m, m2, G),
         SameVectors(m, m2), CreatorsOK(m, {})
  PROVE  CreatorsOK(m2, {})
<1> SUFFICES ASSUME NEW name \in Names
             PROVE  /\ Precise(m2, m2.create_vector[name], name, FALSE, {})
                    /\ Precise(m2, CREATE_VECTOR(m2, name), name, TRUE, {})
                    /\ name \in m2.use_spec_cv /\ m2.spec_create_vector[name] # NONE =>
                         RS(m2, m2.spec_create_vector[name]).spec_mode
  BY DEF CreatorsOK
<1>1. /\ m2.create_vector[name] = m.create_vector[name]
      /\ m2.spec_create_vector[name] = m.spec_create_vector[name]
      /\ CREATE_VECTOR(m2, name) = CREATE_VECTOR(m, name)
      /\ name \in m2.use_spec_cv <=> name \in m.use_spec_cv
  BY DEF SameVectors, CREATE_VECTOR
<1>2. /\ m.create_vector[name] \in Creators \cup {NONE}
      /\ m.spec_create_vector[name] \in Creators \cup {NONE}
      /\ CREATE_VECTOR(m, name) \in Creators \cup {NONE}
  BY VectorType
<1>3. /\ Precise(m, m.create_vector[name], name, FALSE, {})
      /\ Precise(m, CREATE_VECTOR(m, name), name, TRUE, {})
      /\ name \in m.use_spec_cv /\ m.spec_create_vector[name] # NONE =>
           RS(m, m.spec_create_vector[name]).spec_mode
  BY DEF CreatorsOK
<1>4. /\ Precise(m2, m.create_vector[name], name, FALSE, {})
      /\ Precise(m2, CREATE_VECTOR(m, name), name, TRUE, {})
  BY <1>2, <1>3, CutPrecise
<1>5. ASSUME name \in m.use_spec_cv, m.spec_create_vector[name] # NONE
      PROVE  RS(m2, m.spec_create_vector[name]).spec_mode
  <2>1. PICK v : v = m.spec_create_vector[name]
    OBVIOUS
  <2>2. v \in Creators /\ v = CREATE_VECTOR(m, name) /\ v # NONE
    BY <1>2, <1>5, <2>1 DEF CREATE_VECTOR
  <2>3. v.q \in Queues /\ v.i \in Slot(v.q)
    BY <2>2, CreatorType
  <2>4. In(m2, v.q, v.i)
    BY <1>4, <2>2 DEF Precise, Writes
  <2>5. m2.station[v.q][v.i] = m.station[v.q][v.i]
    BY <2>3, <2>4, CutLeft
  <2> QED BY <1>3, <1>5, <2>1, <2>5 DEF RS
<1> QED BY <1>1, <1>4, <1>5

\* The boundary of speculation stays when operations of the correct path
\* leave.
LEMMA CutBoundary ==
  ASSUME NEW m, NEW m2, NEW G, Gone(m, m2, G), OldestGone(m, m2, G), NEW mode,
         Boundary(m, mode)
  PROVE  Boundary(m2, mode)
<1>1. ASSUME NEW c \in Slot("RUU"), Culprit(m, c)
      PROVE  Culprit(m2, c)
  <2>1. "RUU" \in Queues
    BY DEF Queues
  <2>2. In(m, "RUU", c) /\ m.station["RUU"][c].recover_inst /\ ~m.station["RUU"][c].completed
    BY <1>1 DEF Culprit
  <2>3. c \notin G["RUU"]
    BY <2>1, <2>2 DEF OldestGone
  <2>4. In(m2, "RUU", c) /\ m2.station["RUU"][c] = m.station["RUU"][c]
    BY <2>1, <2>2, <2>3 DEF Gone
  <2>5. ASSUME NEW q \in Queues, NEW i \in Slot(q), In(m2, q, i)
        PROVE  /\ m2.station[q][i].spec_mode
                    <=> m2.station["RUU"][c].seq < m2.station[q][i].seq
               /\ m2.station[q][i].recover_inst /\ ~m2.station[q][i].completed
                    => q = "RUU" /\ i = c
    <3>1. In(m, q, i) /\ m2.station[q][i] = m.station[q][i]
      BY <2>5, CutLeft
    <3> QED BY <1>1, <2>4, <3>1 DEF Culprit
  <2> QED BY <2>2, <2>4, <2>5 DEF Culprit
<1>2. ASSUME ~mode, NEW q \in Queues, NEW i \in Slot(q), In(m2, q, i)
      PROVE  ~m2.station[q][i].spec_mode
             /\ (m2.station[q][i].recover_inst => m2.station[q][i].completed)
  <2>1. In(m, q, i) /\ m2.station[q][i] = m.station[q][i]
    BY <1>2, CutLeft
  <2> QED BY <1>2, <2>1 DEF Boundary
<1> QED BY <1>1, <1>2 DEF Boundary

\* The oldest operations retire.
LEMMA RetireSound ==
  ASSUME NEW m, NEW mode, NEW last, NEW list \in Seq(Links),
         Sound(m, mode, last, list, {}, {}, {}), NEW m2, NEW G, Cut(m, m2, G),
         SameVectors(m, m2), OldestGone(m, m2, G),
         \A i \in Slot("RUU") : \A j \in Slot("LSQ") :
           In(m, "RUU", i) /\ In(m, "LSQ", j) /\ Pair(m, i, j) =>
             (i \in G["RUU"] <=> j \in G["LSQ"])
  PROVE  Sound(m2, mode, last, list, {}, {}, {})
<1>1. CoreOK(m) /\ Gone(m, m2, G)
  BY DEF Sound, Cut
<1>2. CoreOK(m2) /\ Ring(m2)
  BY DEF Cut
<1>3. Kinds(m2) /\ Ordered(m2, last) /\ FlagsOK(m2, {})
  BY CutShape DEF Sound
<1>4. Paired(m2)
  BY CutPaired DEF Sound
<1>5. ReadyOK(m2, list) /\ EventsOK(m2) /\ LoadsOK(m2)
  BY <1>1, CutReady, CutEvents, CutLoads DEF Sound
<1>6. CreatorsOK(m2, {}) /\ Boundary(m2, mode)
  BY <1>1, CutCreators, CutBoundary DEF Sound
<1>7. ChainsOK(m, {}, {})
  BY DEF Sound
<1>8. ASSUME NEW q \in Queues, NEW i \in Slot(q), NEW d \in 1..2, i \in G[q]
      PROVE  Chain(m, q, i, d) = <<>>
  <2>1. m.station[q][i].completed
    BY <1>8 DEF OldestGone
  <2> QED BY <1>7, <2>1 DEF ChainsOK
<1>9. \A q \in Queues : \A i \in Slot(q) : \A d \in 1..2 :
        i \in G[q] => \A k \in 1..Len(Chain(m, q, i, d)) :
          LET l == Chain(m, q, i, d)[k] IN RSLINK_VALID(m, l) => l.i \in G[l.q]
  BY <1>8
<1>10. ChainsOK(m2, {}, {})
  BY <1>1, <1>7, <1>9, CutChains
<1> QED BY <1>2, <1>3, <1>4, <1>5, <1>6, <1>10 DEF Sound

-----------------------------------------------------------------------------
(*****************************************************************************)
(* Commit.                                                                   *)
(*****************************************************************************)
\* Commit without and with a memory access.
LEMMA CommitOpSound ==
  ASSUME NEW m, NEW mode, NEW last, NEW list \in Seq(Links),
         Sound(m, mode, last, list, {}, {}, {}), m.num["RUU"] > 0,
         m.station["RUU"][m.head["RUU"]].completed,
         ~m.station["RUU"][m.head["RUU"]].ea_comp,
         NEW m2, m2 = Retire(m, "RUU")
  PROVE  Sound(m2, mode, last, list, {}, {}, {}) /\ SameVectors(m, m2)
<1> DEFINE h == m.head["RUU"]
           G == Oldest(m, "RUU")
<1>1. "RUU" \in Queues /\ "LSQ" \in Queues
  BY DEF Queues
<1>2. CoreOK(m) /\ Ring(m) /\ Ordered(m, last) /\ Paired(m) /\ ChainsOK(m, {}, {})
  BY DEF Sound
<1>3. h \in Slot("RUU") /\ In(m, "RUU", h)
      /\ \A i \in Slot("RUU") : i # h => Distance(m, "RUU", h) < Distance(m, "RUU", i)
  BY <1>1, <1>2, HeadFacts
<1>4. \A d \in 1..2 : Chain(m, "RUU", h, d) = <<>>
  BY <1>1, <1>2, <1>3 DEF ChainsOK
<1>5. Cut(m, m2, G) /\ SameVectors(m, m2)
  BY <1>1, <1>2, <1>4, RetireCut
<1>6. G["RUU"] = {h} /\ G["LSQ"] = {}
  BY <1>1 DEF Oldest
<1>7. h = m.head["RUU"]
  OBVIOUS
<1> HIDE DEF G, h
<1>8. ASSUME NEW j \in Slot("RUU"), In(m, "RUU", j), j # h
      PROVE  m.station["RUU"][h].seq < m.station["RUU"][j].seq
  BY <1>1, <1>2, <1>3, <1>8, SeqOrder
<1>9. ASSUME NEW j \in Slot("LSQ"), In(m, "LSQ", j)
      PROVE  m.station["RUU"][h].seq < m.station["LSQ"][j].seq
  <2>1. PICK i \in Slot("RUU") : In(m, "RUU", i) /\ Pair(m, i, j)
    BY <1>2, <1>9 DEF Paired
  <2>2. i # h /\ m.station["LSQ"][j].seq = m.station["RUU"][i].seq + 1
    BY <1>7, <2>1 DEF Pair
  <2>3. m.station["RUU"][h].seq \in Nat /\ m.station["RUU"][i].seq \in Nat
    BY <1>1, <1>2, <1>3, StationType, StationFields
  <2> QED BY <1>8, <2>1, <2>2, <2>3
<1>10. OldestGone(m, m2, G)
  <2> SUFFICES ASSUME NEW q \in Queues, NEW i \in Slot(q), i \in G[q]
               PROVE  /\ m.station[q][i].completed
                      /\ \A p \in Queues : \A j \in Slot(p) : In(m2, p, j) =>
                           m.station[q][i].seq < m.station[p][j].seq
    BY DEF OldestGone
  <2>1. q = "RUU" /\ i = h
    BY <1>6 DEF Queues
  <2>2. ASSUME NEW p \in Queues, NEW j \in Slot(p), In(m2, p, j)
        PROVE  m.station["RUU"][h].seq < m.station[p][j].seq
    <3>1. In(m, p, j) /\ j \notin G[p]
      BY <1>5, <2>2, CutLeft DEF Cut
    <3>2. CASE p = "RUU"
      BY <1>6, <1>8, <3>1, <3>2
    <3>3. CASE p = "LSQ"
      BY <1>9, <3>1, <3>3
    <3> QED BY <3>2, <3>3 DEF Queues
  <2> QED BY <1>7, <2>1, <2>2
<1>11. \A i \in Slot("RUU") : \A j \in Slot("LSQ") :
         In(m, "RUU", i) /\ In(m, "LSQ", j) /\ Pair(m, i, j) =>
           (i \in G["RUU"] <=> j \in G["LSQ"])
  BY <1>6, <1>7 DEF Pair
<1>12. Sound(m2, mode, last, list, {}, {}, {})
  BY <1>5, <1>10, <1>11, RetireSound
<1> QED BY <1>5, <1>12

\* Retiring an address computation with its memory access keeps every part.
LEMMA CommitMemSound ==
  ASSUME NEW m, NEW mode, NEW last, NEW list \in Seq(Links),
         Sound(m, mode, last, list, {}, {}, {}), m.num["RUU"] > 0,
         m.station["RUU"][m.head["RUU"]].completed,
         m.station["RUU"][m.head["RUU"]].ea_comp,
         m.station["LSQ"][m.head["LSQ"]].completed,
         NEW m1, m1 = Retire(m, "LSQ"), NEW m2, m2 = Retire(m1, "RUU")
  PROVE  Sound(m2, mode, last, list, {}, {}, {}) /\ SameVectors(m, m2)
<1> DEFINE h == m.head["RUU"]
           g == m.head["LSQ"]
           G == Both(Oldest(m, "LSQ"), Oldest(m1, "RUU"))
<1>1. "RUU" \in Queues /\ "LSQ" \in Queues /\ "RUU" # "LSQ"
  BY DEF Queues
<1>2. CoreOK(m) /\ Ring(m) /\ Ordered(m, last) /\ Paired(m) /\ ChainsOK(m, {}, {})
  BY DEF Sound
<1>3. h \in Slot("RUU") /\ In(m, "RUU", h)
      /\ \A i \in Slot("RUU") : i # h => Distance(m, "RUU", h) < Distance(m, "RUU", i)
  BY <1>1, <1>2, HeadFacts
<1>4. In(m, "LSQ", g) /\ Pair(m, h, g)
  BY <1>2, HeadPair
<1>5. g \in Slot("LSQ") /\ m.num["LSQ"] > 0
      /\ \A i \in Slot("LSQ") : i # g => Distance(m, "LSQ", g) < Distance(m, "LSQ", i)
  BY <1>1, <1>2, <1>4, HeadFacts
<1>6. \A d \in 1..2 : Chain(m, "RUU", h, d) = <<>> /\ Chain(m, "LSQ", g, d) = <<>>
  BY <1>1, <1>2, <1>3, <1>5 DEF ChainsOK
<1>7. Cut(m, m1, Oldest(m, "LSQ")) /\ SameVectors(m, m1)
  BY <1>1, <1>2, <1>5, <1>6, RetireCut
<1>8. /\ m1.head["RUU"] = h /\ m1.num["RUU"] = m.num["RUU"]
      /\ m1.station["RUU"][h] = m.station["RUU"][h]
  <2>1. /\ \A p \in Queues : m1.head[p] = IF p = "LSQ" THEN (m.head["LSQ"] + 1) % Size["LSQ"] ELSE m.head[p]
        /\ \A p \in Queues : m1.num[p] = IF p = "LSQ" THEN m.num["LSQ"] - 1 ELSE m.num[p]
        /\ Put(m, m1, "LSQ", m.head["LSQ"], [m.station["LSQ"][m.head["LSQ"]] EXCEPT !.tag = @ + 1])
    BY <1>1, <1>2, <1>5, RetireParts
  <2>2. m1.head["RUU"] = h /\ m1.num["RUU"] = m.num["RUU"]
    BY <1>1, <2>1
  <2>3. m1.station["RUU"][h] = m.station["RUU"][h]
    BY <1>1, <1>3, <2>1 DEF Put
  <2> QED BY <2>2, <2>3
<1>9. CoreOK(m1) /\ Ring(m1)
  BY <1>7 DEF Cut
<1>10. \A d \in 1..2 : Chain(m1, "RUU", m1.head["RUU"], d) = <<>>
  BY <1>6, <1>8 DEF Chain
<1>11. Cut(m1, m2, Oldest(m1, "RUU")) /\ SameVectors(m1, m2)
  <2>1. m1.num["RUU"] > 0
    BY <1>8
  <2> QED BY <1>1, <1>9, <1>10, <2>1, RetireCut
<1>12. Cut(m, m2, G)
  BY <1>2, <1>7, <1>11, CutTwice
<1>13. SameVectors(m, m2)
  BY <1>7, <1>11 DEF SameVectors
<1>14. G["RUU"] = {h} /\ G["LSQ"] = {g}
  BY <1>1, <1>8 DEF Oldest, Both
<1>15. /\ m.station["RUU"][h].completed /\ m.station["LSQ"][g].completed
       /\ m.station["RUU"][h].ea_comp
       /\ m.station["LSQ"][g].seq = m.station["RUU"][h].seq + 1
       /\ m.station["RUU"][h].seq \in Nat
  BY <1>1, <1>2, <1>3, <1>4, StationType, StationFields DEF Pair
<1> HIDE DEF G, h, g
<1>16. ASSUME NEW j \in Slot("RUU"), In(m, "RUU", j), j # h
       PROVE  m.station["LSQ"][g].seq < m.station["RUU"][j].seq
  <2>1. LastSeq(m.station["RUU"][h]) < m.station["RUU"][j].seq
    BY <1>1, <1>2, <1>3, <1>16, SeqOrder
  <2> QED BY <1>15, <2>1 DEF LastSeq
<1>17. ASSUME NEW j \in Slot("LSQ"), In(m, "LSQ", j), j # g
       PROVE  m.station["LSQ"][g].seq < m.station["LSQ"][j].seq
  BY <1>1, <1>2, <1>4, <1>5, <1>17, SeqOrder
<1>18. OldestGone(m, m2, G)
  <2> SUFFICES ASSUME NEW q \in Queues, NEW i \in Slot(q), i \in G[q]
               PROVE  /\ m.station[q][i].completed
                      /\ \A p \in Queues : \A j \in Slot(p) : In(m2, p, j) =>
                           m.station[q][i].seq < m.station[p][j].seq
    BY DEF OldestGone
  <2>1. (q = "RUU" /\ i = h) \/ (q = "LSQ" /\ i = g)
    BY <1>14 DEF Queues
  <2>2. ASSUME NEW p \in Queues, NEW j \in Slot(p), In(m2, p, j)
        PROVE  m.station["LSQ"][g].seq < m.station[p][j].seq /\ m.station[p][j].seq \in Nat
    <3>1. In(m, p, j) /\ j \notin G[p]
      BY <1>12, <2>2, CutLeft DEF Cut
    <3>2. m.station[p][j].seq \in Nat
      BY <1>2, StationType, StationFields
    <3>3. CASE p = "RUU"
      BY <1>14, <1>16, <3>1, <3>2, <3>3
    <3>4. CASE p = "LSQ"
      BY <1>14, <1>17, <3>1, <3>2, <3>4
    <3> QED BY <3>3, <3>4 DEF Queues
  <2>3. m.station[q][i].completed
    BY <1>15, <2>1
  <2>4. m.station[q][i].seq <= m.station["LSQ"][g].seq /\ m.station[q][i].seq \in Nat
    BY <1>15, <2>1
  <2>5. ASSUME NEW p \in Queues, NEW j \in Slot(p), In(m2, p, j)
        PROVE  m.station[q][i].seq < m.station[p][j].seq
    <3>1. m.station["LSQ"][g].seq < m.station[p][j].seq /\ m.station[p][j].seq \in Nat
      BY <2>2, <2>5
    <3> QED BY <1>15, <2>4, <3>1
  <2> QED BY <2>3, <2>5
<1>19. \A i \in Slot("RUU") : \A j \in Slot("LSQ") :
         In(m, "RUU", i) /\ In(m, "LSQ", j) /\ Pair(m, i, j) =>
           (i \in G["RUU"] <=> j \in G["LSQ"])
  <2> SUFFICES ASSUME NEW i \in Slot("RUU"), NEW j \in Slot("LSQ"), In(m, "RUU", i),
                      In(m, "LSQ", j), Pair(m, i, j)
               PROVE  i = h <=> j = g
    BY <1>14
  <2>1. m.station["LSQ"][j].seq = m.station["RUU"][i].seq + 1 /\ m.station["RUU"][i].seq \in Nat
    BY <1>1, <1>2, StationType, StationFields DEF Pair
  <2>2. i # h => m.station["LSQ"][g].seq < m.station["RUU"][i].seq
    BY <1>16
  <2>3. j # g => m.station["LSQ"][g].seq < m.station["LSQ"][j].seq
    BY <1>17
  <2>4. ASSUME i = h PROVE j = g
    <3>1. m.station["LSQ"][j].seq = m.station["LSQ"][g].seq
      BY <1>15, <2>1, <2>4
    <3> QED BY <1>15, <2>3, <3>1
  <2>5. ASSUME j = g PROVE i = h
    <3>1. m.station["LSQ"][g].seq = m.station["RUU"][i].seq + 1
      BY <2>1, <2>5
    <3> QED BY <2>1, <2>2, <3>1
  <2> QED BY <2>4, <2>5
<1>20. Sound(m2, mode, last, list, {}, {}, {})
  BY <1>12, <1>13, <1>18, <1>19, RetireSound
<1> QED BY <1>13, <1>20

-----------------------------------------------------------------------------
(*****************************************************************************)
(* Squashing.                                                                *)
(*****************************************************************************)
\* The slots j steps back from the tail.
LEMMA StepBack ==
  ASSUME NEW S \in Nat, S > 0, NEW h \in 0..(S - 1), NEW k \in 0..S, NEW j \in 0..k
  PROVE  (((h + k) % S) - j) % S = (h + (k - j)) % S
<1>1. CASE h + k < S
  <2>1. (h + k) % S = h + k
    <3>1. h + k \in Int /\ 0 <= h + k
      OBVIOUS
    <3> QED BY <1>1, <3>1, Mod
  <2>2. (h + k) - j = h + (k - j)
    OBVIOUS
  <2> QED BY <2>1, <2>2
<1>2. CASE h + k >= S
  <2>1. (h + k) % S = h + k - S
    <3>1. h + k \in Int /\ S <= h + k /\ h + k < 2 * S
      BY <1>2
    <3> QED BY <3>1, Mod
  <2> DEFINE b == h + (k - j)
  <2>2. b \in Int /\ 0 <= b /\ b < 2 * S /\ (h + k - S) - j = b - S
    BY <1>2
  <2> HIDE DEF b
  <2>3. (b - S) % S = b % S
    <3>1. CASE b < S
      <4>1. (b - S) % S = b
        <5>1. b - S \in Int /\ -S <= b - S /\ b - S < 0
          BY <2>2, <3>1
        <5>2. (b - S) % S = (b - S) + S
          BY <5>1, Mod
        <5> QED BY <2>2, <5>2
      <4>2. b % S = b
        BY <2>2, <3>1, Mod
      <4> QED BY <4>1, <4>2
    <3>2. CASE b >= S
      <4>1. (b - S) % S = b - S
        <5>1. b - S \in Int /\ 0 <= b - S /\ b - S < S
          BY <2>2, <3>2
        <5> QED BY <5>1, Mod
      <4>2. b % S = b - S
        BY <2>2, <3>2, Mod
      <4> QED BY <4>1, <4>2
    <3> QED BY <2>2, <3>1, <3>2
  <2> QED BY <2>1, <2>2, <2>3 DEF b
<1> QED BY <1>1, <1>2

\* The youngest k operations of a queue.
LEMMA YoungestIs ==
  ASSUME NEW m, CoreOK(m), Ring(m), NEW q \in Queues, NEW k \in 0..m.num[q]
  PROVE  /\ Youngest(m, q, k) = {i \in Slot(q) : /\ m.num[q] - k <= Distance(m, q, i)
                                                 /\ Distance(m, q, i) < m.num[q]}
         /\ (m.tail[q] - k) % Size[q] = (m.head[q] + (m.num[q] - k)) % Size[q]
<1> DEFINE S == Size[q]
           h == m.head[q]
           c == m.num[q]
<1>1. S \in Nat /\ S > 0 /\ h \in 0..(S - 1) /\ c \in 0..S /\ c \in Nat
      /\ m.tail[q] = (h + c) % S
  BY Pointers DEF Ring
<1>2. ASSUME NEW j \in 0..k
      PROVE  (m.tail[q] - j) % S = (h + (c - j)) % S
  <2> HIDE DEF S, h, c
  <2>1. j \in 0..c
    BY <1>1 DEF c
  <2> QED BY <1>1, <2>1, StepBack
<1>3. ASSUME NEW j \in 1..k
      PROVE  (m.tail[q] - j) % S \in Slot(q) /\ Distance(m, q, (m.tail[q] - j) % S) = c - j
  <2>1. c - j \in 0..(Size[q] - 1)
    BY <1>1
  <2>2. (h + (c - j)) % S \in Slot(q) /\ Distance(m, q, (h + (c - j)) % S) = c - j
    BY <2>1, SlotAt
  <2> QED BY <1>2, <2>2
<1>4. ASSUME NEW i \in Youngest(m, q, k)
      PROVE  i \in Slot(q) /\ c - k <= Distance(m, q, i) /\ Distance(m, q, i) < c
  <2>1. PICK j \in 1..k : i = (m.tail[q] - j) % S
    BY <1>4 DEF Youngest
  <2>2. i \in Slot(q) /\ Distance(m, q, i) = c - j
    BY <1>3, <2>1
  <2> QED BY <1>1, <2>2
<1>5. ASSUME NEW i \in Slot(q), c - k <= Distance(m, q, i), Distance(m, q, i) < c
      PROVE  i \in Youngest(m, q, k)
  <2>1. PICK j : j = c - Distance(m, q, i)
    OBVIOUS
  <2>2. Distance(m, q, i) \in Int
    BY DistanceIs, <1>1
  <2>3. j \in 1..k /\ Distance(m, q, i) = c - j
    BY <1>1, <1>5, <2>1, <2>2
  <2>4. (m.tail[q] - j) % S \in Slot(q) /\ Distance(m, q, (m.tail[q] - j) % S) = Distance(m, q, i)
    BY <1>3, <2>3
  <2>5. i = (m.tail[q] - j) % S
    BY <2>4, DistanceInjective
  <2> QED BY <2>3, <2>5 DEF Youngest
<1>6. (m.tail[q] - k) % S = (h + (c - k)) % S
  BY <1>1, <1>2
<1> QED BY <1>4, <1>5, <1>6

Reset(a) == [a EXCEPT !.tag = @ + 1, !.odep_list = <<<<>>, <<>>>>]

\* What squashing the youngest operations of a queue does.
LEMMA SquashParts ==
  ASSUME NEW m, CoreOK(m), NEW q \in Queues, NEW k \in 0..m.num[q], NEW m2, m2 = Squash(m, q, k)
  PROVE  /\ CoreOK(m2) /\ SameLists(m, m2) /\ SameVectors(m, m2)
         /\ m2.head = m.head
         /\ \A p \in Queues : m2.tail[p] = IF p = q THEN (m.tail[q] - k) % Size[q] ELSE m.tail[p]
         /\ \A p \in Queues : m2.num[p] = IF p = q THEN m.num[q] - k ELSE m.num[p]
         /\ \A p \in Queues : \A i \in Slot(p) :
              m2.station[p][i] = IF p = q /\ i \in Youngest(m, q, k) THEN Reset(m.station[p][i])
                                 ELSE m.station[p][i]
<1> DEFINE Y == Youngest(m, q, k)
<1>1. SameVectors(m, m2) /\ SameLists(m, m2) /\ m2.head = m.head
  BY DEF Squash, CoreOK, SameVectors, SameLists
<1>2. Record(m2)
  BY DEF Squash, CoreOK, Record
<1>3. m2.station = [m.station EXCEPT ![q] =
                      [i \in DOMAIN m.station[q] |->
                         IF i \in Y THEN Reset(m.station[q][i]) ELSE m.station[q][i]]]
  <2>1. m2.station = [m.station EXCEPT ![q] =
                        [i \in DOMAIN m.station[q] |->
                           IF i \in Y THEN [m.station[q][i] EXCEPT !.tag = @ + 1,
                                                                 !.odep_list = <<<<>>, <<>>>>]
                           ELSE m.station[q][i]]]
    BY DEF Squash, CoreOK
  <2> QED BY <2>1 DEF Reset
<1>4. /\ m.station = [p \in Queues |-> m.station[p]]
      /\ \A p \in Queues : m.station[p] \in [Slot(p) -> Station]
  BY DEF CoreOK
<1> HIDE DEF Y
<1>5. /\ m2.station = [p \in Queues |-> m2.station[p]]
      /\ \A p \in Queues : m2.station[p] = [j \in Slot(p) |-> m2.station[p][j]]
  BY <1>3, <1>4
<1>6. \A p \in Queues : \A i \in Slot(p) :
        m2.station[p][i] = IF p = q /\ i \in Y THEN Reset(m.station[p][i]) ELSE m.station[p][i]
  BY <1>3, <1>4
<1>7. /\ m2.tail = [m.tail EXCEPT ![q] = (m.tail[q] - k) % Size[q]]
      /\ m2.num = [m.num EXCEPT ![q] = m.num[q] - k]
  BY DEF Squash, CoreOK
<1>8. m.tail \in [Queues -> Nat] /\ m.num \in [Queues -> Nat]
  BY DEF CoreOK
<1>9. /\ \A p \in Queues : m2.tail[p] = IF p = q THEN (m.tail[q] - k) % Size[q] ELSE m.tail[p]
      /\ \A p \in Queues : m2.num[p] = IF p = q THEN m.num[q] - k ELSE m.num[p]
  BY <1>7, <1>8
<1>10. \A p \in Queues : \A j \in Slot(p) : m2.station[p][j] \in Station
  <2> SUFFICES ASSUME NEW p \in Queues, NEW j \in Slot(p) PROVE m2.station[p][j] \in Station
    OBVIOUS
  <2>1. m.station[p][j] \in Station
    BY StationType
  <2>2. Reset(m.station[p][j]) \in Station
    BY <2>1, StationUpdates DEF Reset
  <2> QED BY <1>6, <2>1, <2>2
<1>11. (m.tail[q] - k) % Size[q] \in Slot(q) /\ (m.tail[q] - k) % Size[q] \in Nat
  <2>1. m.tail[q] - k \in Int /\ Size[q] \in Nat /\ Size[q] > 0
    BY Pointers
  <2>2. (m.tail[q] - k) % Size[q] \in 0..(Size[q] - 1)
    BY <2>1, Mod
  <2> QED BY <2>1, <2>2 DEF Slot
<1>12. m.num[q] - k \in Nat /\ m.num[q] - k <= Size[q]
  BY Pointers
<1>13. m2.head \in [Queues -> Nat] /\ m2.tail \in [Queues -> Nat] /\ m2.num \in [Queues -> Nat]
  BY <1>1, <1>7, <1>8, <1>11, <1>12 DEF CoreOK
<1>14. \A p \in Queues : /\ m2.head[p] \in Slot(p) /\ m2.tail[p] \in Slot(p)
                         /\ m2.num[p] <= Size[p]
  BY <1>1, <1>9, <1>11, <1>12 DEF CoreOK
<1>15. /\ m2.ready_queue \in Seq(Links) /\ m2.event_queue \in Seq(Links)
       /\ m2.create_vector \in [Names -> Creators \cup {NONE}]
       /\ m2.spec_create_vector \in [Names -> Creators \cup {NONE}]
       /\ m2.use_spec_cv \subseteq Names
  BY <1>1 DEF CoreOK, SameVectors, SameLists
<1>16. CoreOK(m2)
  BY ONLY <1>2, <1>5, <1>10, <1>13, <1>14, <1>15, CoreIs
<1> QED BY <1>1, <1>6, <1>9, <1>16 DEF Y

\* The slots of the youngest k operations of queue q.
LastOps(m, q, k) == [p \in Queues |-> IF p = q THEN Youngest(m, q, k) ELSE {}]

\* It cuts them off at the young end.
LEMMA SquashCut ==
  ASSUME NEW m, CoreOK(m), Ring(m), NEW q \in Queues, NEW k \in 0..m.num[q],
         NEW m2, m2 = Squash(m, q, k)
  PROVE  Cut(m, m2, LastOps(m, q, k)) /\ SameVectors(m, m2)
<1> DEFINE Y == Youngest(m, q, k)
           G == LastOps(m, q, k)
<1>1. /\ CoreOK(m2) /\ SameLists(m, m2) /\ SameVectors(m, m2)
      /\ m2.head = m.head
      /\ \A p \in Queues : m2.tail[p] = IF p = q THEN (m.tail[q] - k) % Size[q] ELSE m.tail[p]
      /\ \A p \in Queues : m2.num[p] = IF p = q THEN m.num[q] - k ELSE m.num[p]
      /\ \A p \in Queues : \A i \in Slot(p) :
           m2.station[p][i] = IF p = q /\ i \in Y THEN Reset(m.station[p][i])
                              ELSE m.station[p][i]
  BY SquashParts
<1>2. /\ \A i \in Slot(q) : i \in Y <=> /\ m.num[q] - k <= Distance(m, q, i)
                                        /\ Distance(m, q, i) < m.num[q]
      /\ (m.tail[q] - k) % Size[q] = (m.head[q] + (m.num[q] - k)) % Size[q]
  BY YoungestIs
<1>3. G[q] = Y /\ \A p \in Queues : p # q => G[p] = {}
  BY DEF LastOps
<1> HIDE DEF G, Y
<1>4. Ring(m2)
  BY <1>1, <1>2 DEF Ring
<1>5. \A p \in Queues : \A i \in Slot(p) :
        Distance(m2, p, i) = Distance(m, p, i) /\ Distance(m, p, i) \in Nat
        /\ m.num[p] \in Nat
  <2>1. \A p, i : Distance(m2, p, i) = Distance(m, p, i)
    BY <1>1 DEF Distance
  <2> QED BY <2>1, DistanceIs, Pointers
<1>6. ASSUME NEW p \in Queues, NEW i \in Slot(p)
      PROVE  In(m2, p, i) <=> In(m, p, i) /\ i \notin G[p]
  <2>1. CASE p = q
    <3>1. i \in G[p] <=> m.num[q] - k <= Distance(m, q, i) /\ Distance(m, q, i) < m.num[q]
      BY <1>2, <1>3, <2>1
    <3>2. m2.num[q] = m.num[q] - k
      BY <1>1
    <3> QED BY <1>5, <2>1, <3>1, <3>2 DEF In
  <2>2. CASE p # q
    <3>1. m2.num[p] = m.num[p] /\ i \notin G[p]
      BY <1>1, <1>3, <2>2
    <3> QED BY <1>5, <3>1 DEF In
  <2> QED BY <2>1, <2>2
<1>7. ASSUME NEW p \in Queues, NEW i \in Slot(p)
      PROVE  /\ i \in G[p] => In(m, p, i)
             /\ i \notin G[p] => m2.station[p][i] = m.station[p][i]
             /\ i \in G[p] => m2.station[p][i].tag = m.station[p][i].tag + 1
             /\ i \in G[p] => \A d \in 1..2 : Chain(m2, p, i, d) = <<>>
  <2>1. i \in G[p] <=> p = q /\ i \in Y
    BY <1>3
  <2>2. i \in G[p] => In(m, p, i)
    BY <1>2, <2>1 DEF In
  <2>3. i \notin G[p] => m2.station[p][i] = m.station[p][i]
    BY <1>1, <2>1
  <2>4. i \in G[p] => m2.station[p][i] = Reset(m.station[p][i])
    BY <1>1, <2>1
  <2>5. m.station[p][i] \in Station
    BY StationType
  <2>6. /\ Reset(m.station[p][i]).tag = m.station[p][i].tag + 1
        /\ \A d \in 1..2 : Reset(m.station[p][i]).odep_list[d] = <<>>
    <3>1. Reset(m.station[p][i]).odep_list = <<<<>>, <<>>>>
          /\ Reset(m.station[p][i]).tag = m.station[p][i].tag + 1
      BY <2>5 DEF Reset, Station
    <3> QED BY <3>1
  <2> QED BY <2>2, <2>3, <2>4, <2>6 DEF Chain
<1>8. Gone(m, m2, G)
  BY <1>6, <1>7 DEF Gone
<1>9. InOrder(m, m2)
  <2> SUFFICES ASSUME NEW p \in Queues, NEW i \in Slot(p), NEW j \in Slot(p),
                      In(m2, p, i), In(m2, p, j), NEW n0 \in Slot(p),
                      Distance(m, p, n0) < Distance(m, p, j)
               PROVE  In(m2, p, n0)
    BY <1>5 DEF InOrder
  <2>1. m2.num[p] \in Nat
    BY <1>1, Pointers
  <2> QED BY <1>5, <2>1 DEF In
<1>10. Cut(m, m2, G)
  BY <1>1, <1>4, <1>8, <1>9 DEF Cut
<1> QED BY <1>1, <1>10 DEF G

-----------------------------------------------------------------------------
(*****************************************************************************)
(* Recovery squashes both halves of an instruction.                          *)
(*****************************************************************************)
\* Counting by a one-to-one correspondence.
LEMMA SameCount ==
  ASSUME NEW S, NEW T, IsFiniteSet(S), NEW f \in [S -> T],
         \A a, b \in S : f[a] = f[b] => a = b,
         \A t \in T : \E s \in S : f[s] = t
  PROVE  IsFiniteSet(T) /\ Cardinality(T) = Cardinality(S)
<1>1. f \in Bijection(S, T)
  BY DEF Bijection, Injection, Surjection, IsInjective
<1>2. ExistsBijection(S, T)
  BY <1>1 DEF ExistsBijection
<1> QED BY <1>2, FS_Bijection

\* A set of slots that is the young end of a queue.
LEMMA YoungEnd ==
  ASSUME NEW m, CoreOK(m), NEW q \in Queues, NEW Z, Z \subseteq Slot(q),
         \A i \in Z : In(m, q, i),
         \A i \in Z : \A j \in Slot(q) :
           In(m, q, j) /\ Distance(m, q, i) <= Distance(m, q, j) => j \in Z
  PROVE  /\ IsFiniteSet(Z) /\ Cardinality(Z) \in 0..m.num[q]
         /\ \A i \in Slot(q) : i \in Z <=> /\ m.num[q] - Cardinality(Z) <= Distance(m, q, i)
                                           /\ Distance(m, q, i) < m.num[q]
<1> DEFINE c == m.num[q]
<1>1. c \in Nat /\ c <= Size[q] /\ Size[q] \in Nat /\ Size[q] > 0
  BY Pointers
<1>2. \A i \in Slot(q) : Distance(m, q, i) \in Nat /\ Distance(m, q, i) < Size[q]
  BY <1>1, DistanceIs
<1>3. PICK e \in 0..c : \A i \in Slot(q) : i \in Z <=> e <= Distance(m, q, i) /\ Distance(m, q, i) < c
  <2>1. CASE Z = {}
    <3>1. c \in 0..c /\ \A i \in Slot(q) : ~(c <= Distance(m, q, i) /\ Distance(m, q, i) < c)
      BY <1>1, <1>2
    <3> HIDE DEF c
    <3> QED BY <2>1, <3>1
  <2>2. CASE Z # {}
    <3> DEFINE T == {Distance(m, q, i) : i \in Z}
    <3>1. T \subseteq Nat /\ T # {}
      BY <1>2, <2>2
    <3>2. PICK e \in T : \A d \in T : e <= d
      <4> HIDE DEF T
      <4> QED BY <3>1, LeastNumber
    <3>3. PICK z \in Z : e = Distance(m, q, z)
      BY <3>2
    <3>4. z \in Slot(q) /\ e \in Nat /\ e < c
      BY <1>2, <3>3 DEF In
    <3>5. ASSUME NEW i \in Slot(q)
          PROVE  i \in Z <=> e <= Distance(m, q, i) /\ Distance(m, q, i) < c
      <4>1. i \in Z => e <= Distance(m, q, i) /\ Distance(m, q, i) < c
        BY <3>2 DEF In
      <4>2. e <= Distance(m, q, i) /\ Distance(m, q, i) < c => i \in Z
        BY <3>3 DEF In
      <4> QED BY <4>1, <4>2
    <3>6. e \in 0..c
      BY <1>1, <3>4
    <3> QED BY <3>5, <3>6
  <2> QED BY <2>1, <2>2
<1> DEFINE I == e..(c - 1)
           f == [d \in I |-> (m.head[q] + d) % Size[q]]
<1>4. IsFiniteSet(I) /\ Cardinality(I) = c - e
  <2>1. e \in Int /\ c - 1 \in Int /\ e <= c
    BY <1>1, <1>3
  <2>2. IsFiniteSet(I) /\ Cardinality(I) = IF e > c - 1 THEN 0 ELSE (c - 1) - e + 1
    BY <2>1, FS_Interval
  <2> HIDE DEF I, c
  <2>3. CASE e > c - 1
    BY <1>1, <2>1, <2>2, <2>3
  <2>4. CASE ~(e > c - 1)
    BY <1>1, <2>1, <2>2, <2>4
  <2> QED BY <2>3, <2>4
<1>5. ASSUME NEW d \in I
      PROVE  f[d] \in Z /\ Distance(m, q, f[d]) = d
  <2>1. d \in 0..(Size[q] - 1) /\ e <= d /\ d < c
    BY <1>1, <1>3
  <2>2. (m.head[q] + d) % Size[q] \in Slot(q) /\ Distance(m, q, (m.head[q] + d) % Size[q]) = d
    BY <2>1, SlotAt
  <2> QED BY <1>3, <2>1, <2>2
<1>6. ASSUME NEW i \in Z PROVE \E d \in I : f[d] = i
  <2>1. i \in Slot(q) /\ Distance(m, q, i) \in I
    BY <1>1, <1>2, <1>3
  <2>2. f[Distance(m, q, i)] = i
    BY <2>1, SlotOf
  <2> QED BY <2>1, <2>2
<1>7. f \in [I -> Z]
  BY <1>5
<1>8. IsFiniteSet(Z) /\ Cardinality(Z) = Cardinality(I)
  <2>1. \A a, b \in I : f[a] = f[b] => a = b
    BY <1>5
  <2> HIDE DEF I, f
  <2> QED BY <1>4, <1>6, <1>7, <2>1, SameCount
<1>9. Cardinality(Z) = c - e
  BY <1>4, <1>8
<1> HIDE DEF I
<1>10. Cardinality(Z) \in 0..c /\ c - Cardinality(Z) = e
  BY <1>1, <1>3, <1>9
<1> QED BY <1>3, <1>8, <1>10

\* The operations after the mispredicted branch.
Younger(m, b) == [q \in Queues |-> {i \in Slot(q) :
                    In(m, q, i) /\ m.station["RUU"][b].seq < m.station[q][i].seq}]

\* Recovery squashes exactly the operations younger than the branch, in both
\* queues.
LEMMA RecoverCounts ==
  ASSUME NEW m, CoreOK(m), Ring(m), NEW last, Ordered(m, last), Paired(m),
         NEW b \in Slot("RUU"), In(m, "RUU", b), ~m.station["RUU"][b].ea_comp,
         NEW k, k = m.num["RUU"] - 1 - Distance(m, "RUU", b),
         NEW l, l = Cardinality({i \in Youngest(m, "RUU", k) : m.station["RUU"][i].ea_comp})
  PROVE  /\ k \in 0..m.num["RUU"] /\ l \in 0..m.num["LSQ"]
         /\ Youngest(m, "RUU", k) = Younger(m, b)["RUU"]
         /\ Youngest(m, "LSQ", l) = Younger(m, b)["LSQ"]
<1> DEFINE s == m.station["RUU"][b].seq
           R == {i \in Slot("RUU") : In(m, "RUU", i) /\ s < m.station["RUU"][i].seq}
           Z == {j \in Slot("LSQ") : In(m, "LSQ", j) /\ s < m.station["LSQ"][j].seq}
           A == {i \in Youngest(m, "RUU", k) : m.station["RUU"][i].ea_comp}
<1>1. "RUU" \in Queues /\ "LSQ" \in Queues /\ "RUU" # "LSQ"
  BY DEF Queues
<1>2. Younger(m, b)["RUU"] = R /\ Younger(m, b)["LSQ"] = Z
  BY <1>1 DEF Younger
<1>3. m.num["RUU"] \in Nat /\ m.num["LSQ"] \in Nat
      /\ \A i \in Slot("RUU") : Distance(m, "RUU", i) \in Nat
  BY <1>1, Pointers, DistanceIs
<1>4. k \in 0..m.num["RUU"] /\ m.num["RUU"] - k = Distance(m, "RUU", b) + 1
  BY <1>3 DEF In
<1>5. Youngest(m, "RUU", k) = R
  <2>1. Youngest(m, "RUU", k) = {i \in Slot("RUU") : /\ m.num["RUU"] - k <= Distance(m, "RUU", i)
                                                     /\ Distance(m, "RUU", i) < m.num["RUU"]}
    BY <1>1, <1>4, YoungestIs
  <2>2. ASSUME NEW i \in Slot("RUU"), In(m, "RUU", i)
        PROVE  m.num["RUU"] - k <= Distance(m, "RUU", i) <=> s < m.station["RUU"][i].seq
    <3>1. Distance(m, "RUU", b) < Distance(m, "RUU", i) <=> s < m.station["RUU"][i].seq
      BY <1>1, <2>2, SeqOrder
    <3> HIDE DEF s
    <3> QED BY <1>3, <1>4, <3>1
  <2> QED BY <2>1, <2>2 DEF In
<1>6. /\ \A i \in Slot("RUU") : m.station["RUU"][i].seq \in Nat
      /\ \A i \in Slot("LSQ") : m.station["LSQ"][i].seq \in Nat
      /\ s \in Nat
  BY <1>1, StationType, StationFields
<1> HIDE DEF s
<1>7. ASSUME NEW i \in A
      PROVE  \E j \in Z : Pair(m, i, j)
  <2>1. i \in Slot("RUU") /\ In(m, "RUU", i) /\ s < m.station["RUU"][i].seq
        /\ m.station["RUU"][i].ea_comp
    BY <1>5, <1>7
  <2>2. PICK j \in Slot("LSQ") : In(m, "LSQ", j) /\ Pair(m, i, j)
    BY <2>1 DEF Paired
  <2>3. s < m.station["LSQ"][j].seq
    BY <1>6, <2>1, <2>2 DEF Pair
  <2> QED BY <2>2, <2>3
<1>8. ASSUME NEW j \in Z
      PROVE  \E i \in A : Pair(m, i, j)
  <2>1. PICK i \in Slot("RUU") : In(m, "RUU", i) /\ Pair(m, i, j)
    BY <1>8 DEF Paired
  <2>2. m.station["RUU"][i].ea_comp /\ m.station["LSQ"][j].seq = m.station["RUU"][i].seq + 1
    BY <2>1 DEF Pair
  <2>3. i # b
    BY <2>2
  <2>4. m.station["RUU"][i].seq # s
    BY <1>1, <2>1, <2>3, SeqOrder DEF s
  <2>5. s < m.station["RUU"][i].seq
    BY <1>6, <1>8, <2>2, <2>4
  <2>6. i \in A
    BY <1>5, <2>1, <2>2, <2>5
  <2> QED BY <2>1, <2>6
<1> DEFINE f == [j \in Z |-> CHOOSE i \in A : Pair(m, i, j)]
<1>9. ASSUME NEW j \in Z PROVE f[j] \in A /\ Pair(m, f[j], j)
  BY <1>8
<1>10. f \in [Z -> A]
  BY <1>9
<1> HIDE DEF f
<1>11. \A j, h \in Z : f[j] = f[h] => j = h
  <2> SUFFICES ASSUME NEW j \in Z, NEW h \in Z, f[j] = f[h] PROVE j = h
    OBVIOUS
  <2>1. Pair(m, f[j], j) /\ Pair(m, f[j], h)
    BY <1>9
  <2>2. m.station["LSQ"][j].seq = m.station["LSQ"][h].seq
    BY <2>1 DEF Pair
  <2>3. j \in Slot("LSQ") /\ h \in Slot("LSQ") /\ In(m, "LSQ", j) /\ In(m, "LSQ", h)
    OBVIOUS
  <2> QED BY <1>1, <2>2, <2>3, SeqOrder
<1>12. \A i \in A : \E j \in Z : f[j] = i
  <2> SUFFICES ASSUME NEW i \in A PROVE \E j \in Z : f[j] = i
    OBVIOUS
  <2>1. PICK j \in Z : Pair(m, i, j)
    BY <1>7
  <2>2. f[j] \in A /\ Pair(m, f[j], j)
    BY <1>9
  <2>3. /\ i \in Slot("RUU") /\ In(m, "RUU", i)
        /\ f[j] \in Slot("RUU") /\ In(m, "RUU", f[j])
    BY <1>5, <2>2
  <2>4. m.station["RUU"][i].seq + 1 = m.station["RUU"][f[j]].seq + 1
    BY <2>1, <2>2 DEF Pair
  <2>5. m.station["RUU"][i].seq = m.station["RUU"][f[j]].seq
    BY <1>6, <2>3, <2>4
  <2>6. i = f[j]
    <3>1. PICK h : h = f[j]
      OBVIOUS
    <3>2. h \in Slot("RUU") /\ In(m, "RUU", h) /\ m.station["RUU"][i].seq = m.station["RUU"][h].seq
      BY <2>3, <2>5, <3>1
    <3>3. i = h
      BY <1>1, <2>3, <3>2, SeqOrder
    <3> QED BY <3>1, <3>3
  <2> QED BY <2>6
<1>13. /\ IsFiniteSet(Z) /\ Cardinality(Z) \in 0..m.num["LSQ"]
       /\ \A i \in Slot("LSQ") : i \in Z <=> /\ m.num["LSQ"] - Cardinality(Z) <= Distance(m, "LSQ", i)
                                             /\ Distance(m, "LSQ", i) < m.num["LSQ"]
  <2>1. ASSUME NEW i \in Z, NEW j \in Slot("LSQ"), In(m, "LSQ", j),
               Distance(m, "LSQ", i) <= Distance(m, "LSQ", j)
        PROVE  j \in Z
    <3>1. i \in Slot("LSQ") /\ In(m, "LSQ", i) /\ s < m.station["LSQ"][i].seq
      OBVIOUS
    <3>2. Distance(m, "LSQ", i) \in Nat /\ Distance(m, "LSQ", j) \in Nat
      BY <1>1, <3>1, DistanceIs, Pointers
    <3>3. CASE Distance(m, "LSQ", i) = Distance(m, "LSQ", j)
      BY <1>1, <2>1, <3>1, <3>3, DistanceInjective
    <3>4. CASE Distance(m, "LSQ", i) < Distance(m, "LSQ", j)
      <4>1. m.station["LSQ"][i].seq < m.station["LSQ"][j].seq
        BY <1>1, <2>1, <3>1, <3>4, SeqOrder
      <4> QED BY <1>6, <2>1, <3>1, <4>1
    <3> QED BY <2>1, <3>2, <3>3, <3>4
  <2>2. Z \subseteq Slot("LSQ") /\ \A i \in Z : In(m, "LSQ", i)
    OBVIOUS
  <2> HIDE DEF Z
  <2> QED BY <1>1, <2>1, <2>2, YoungEnd
<1>14. l = Cardinality(Z)
  <2>1. l = Cardinality(A)
    OBVIOUS
  <2> HIDE DEF A, Z
  <2> QED BY <1>10, <1>11, <1>12, <1>13, <2>1, SameCount
<1>15. l \in 0..m.num["LSQ"]
  BY <1>13, <1>14
<1>16. Youngest(m, "LSQ", l) = Z
  <2>1. Youngest(m, "LSQ", l) = {i \in Slot("LSQ") : /\ m.num["LSQ"] - l <= Distance(m, "LSQ", i)
                                                     /\ Distance(m, "LSQ", i) < m.num["LSQ"]}
    BY <1>1, <1>15, YoungestIs, ZenonT(40)
  <2>2. Z \subseteq Slot("LSQ")
    OBVIOUS
  <2> HIDE DEF Z
  <2> QED BY <1>13, <1>14, <2>1, <2>2
<1> QED BY <1>2, <1>4, <1>5, <1>15, <1>16

-----------------------------------------------------------------------------
(*****************************************************************************)
(* Recovery.                                                                 *)
(*****************************************************************************)
\* The operations after the branch leave, whichever queue they are in.
LEMMA RecoverCut ==
  ASSUME NEW m, CoreOK(m), Ring(m), NEW last, Ordered(m, last), Paired(m),
         NEW b \in Slot("RUU"), In(m, "RUU", b), ~m.station["RUU"][b].ea_comp,
         NEW m2, m2 = ruu_recover(m, b)
  PROVE  /\ Cut(m, m2, Younger(m, b)) /\ m2.use_spec_cv = {}
         /\ m2.create_vector = m.create_vector
<1>1. PICK k : k = m.num.RUU - 1 - Distance(m, "RUU", b)
  OBVIOUS
<1>2. PICK l : l = Cardinality({i \in Youngest(m, "RUU", k) : m.station.RUU[i].ea_comp})
  OBVIOUS
<1>3. PICK m1 : m1 = Squash(m, "LSQ", l)
  OBVIOUS
<1>4. PICK m3 : m3 = Squash(m1, "RUU", k)
  OBVIOUS
<1>5. m2 = [m3 EXCEPT !.use_spec_cv = {}]
  BY <1>1, <1>2, <1>3, <1>4 DEF ruu_recover
<1>6. "RUU" \in Queues /\ "LSQ" \in Queues /\ "RUU" # "LSQ"
  BY DEF Queues
<1>7. /\ k \in 0..m.num["RUU"] /\ l \in 0..m.num["LSQ"]
      /\ Youngest(m, "RUU", k) = Younger(m, b)["RUU"]
      /\ Youngest(m, "LSQ", l) = Younger(m, b)["LSQ"]
  <2>1. k = m.num["RUU"] - 1 - Distance(m, "RUU", b)
        /\ l = Cardinality({i \in Youngest(m, "RUU", k) : m.station["RUU"][i].ea_comp})
    BY <1>1, <1>2
  <2> QED BY <2>1, RecoverCounts
<1>8. Cut(m, m1, LastOps(m, "LSQ", l)) /\ SameVectors(m, m1)
  BY <1>3, <1>6, <1>7, SquashCut
<1>9. m1.num["RUU"] = m.num["RUU"] /\ m1.tail["RUU"] = m.tail["RUU"]
  <2>1. /\ \A p \in Queues : m1.tail[p] = IF p = "LSQ" THEN (m.tail["LSQ"] - l) % Size["LSQ"] ELSE m.tail[p]
        /\ \A p \in Queues : m1.num[p] = IF p = "LSQ" THEN m.num["LSQ"] - l ELSE m.num[p]
    BY <1>3, <1>6, <1>7, SquashParts
  <2> QED BY <1>6, <2>1
<1>10. Youngest(m1, "RUU", k) = Youngest(m, "RUU", k)
  BY <1>9 DEF Youngest
<1>11. Cut(m1, m3, LastOps(m1, "RUU", k)) /\ SameVectors(m1, m3)
  <2>1. CoreOK(m1) /\ Ring(m1) /\ k \in 0..m1.num["RUU"]
    BY <1>7, <1>8, <1>9 DEF Cut
  <2> QED BY <1>4, <1>6, <2>1, SquashCut
<1>12. Both(LastOps(m, "LSQ", l), LastOps(m1, "RUU", k)) = Younger(m, b)
  <2>1. \A q \in Queues : LastOps(m, "LSQ", l)[q] = IF q = "LSQ" THEN Younger(m, b)["LSQ"] ELSE {}
    BY <1>7 DEF LastOps
  <2>2. \A q \in Queues : LastOps(m1, "RUU", k)[q] = IF q = "RUU" THEN Younger(m, b)["RUU"] ELSE {}
    BY <1>7, <1>10 DEF LastOps
  <2>3. \A q \in Queues : LastOps(m, "LSQ", l)[q] \cup LastOps(m1, "RUU", k)[q] = Younger(m, b)[q]
    BY <1>6, <2>1, <2>2 DEF Queues
  <2>4. Younger(m, b) = [q \in Queues |-> Younger(m, b)[q]]
    BY DEF Younger
  <2> QED BY <2>3, <2>4 DEF Both
<1>13. Cut(m, m3, Younger(m, b))
  BY <1>8, <1>11, <1>12, CutTwice
<1>14. /\ m2.station = m3.station /\ SameRing(m3, m2) /\ SameLists(m3, m2)
       /\ m2.use_spec_cv = {} /\ m2.create_vector = m3.create_vector
       /\ CoreOK(m2)
  <2>1. CoreOK(m3)
    BY <1>13 DEF Cut
  <2>2. /\ m2.station = m3.station /\ SameRing(m3, m2) /\ SameLists(m3, m2)
        /\ m2.use_spec_cv = {} /\ m2.create_vector = m3.create_vector
        /\ m2.spec_create_vector = m3.spec_create_vector
    BY <1>5, <2>1 DEF CoreOK, SameRing, SameLists
  <2>3. Record(m2)
    BY <1>5, <2>1 DEF CoreOK, Record
  <2>4. CoreOK(m2)
    BY <2>1, <2>2, <2>3 DEF CoreOK, Record, SameRing, SameLists
  <2> QED BY <2>2, <2>4
<1>15. \A q, i : Distance(m2, q, i) = Distance(m3, q, i) /\ (In(m2, q, i) <=> In(m3, q, i))
  BY <1>14, SameIn
<1>16. Cut(m, m2, Younger(m, b))
  <2>1. PICK G : G = Younger(m, b)
    OBVIOUS
  <2>2. Gone(m, m3, G) /\ InOrder(m, m3) /\ SameLists(m, m3) /\ Ring(m3)
    BY <1>13, <2>1 DEF Cut
  <2>3. \A q, i, d : Chain(m2, q, i, d) = Chain(m3, q, i, d)
    BY <1>14 DEF Chain
  <2>4. Gone(m, m2, G)
    BY <1>14, <1>15, <2>2, <2>3 DEF Gone
  <2>5. InOrder(m, m2)
    BY <1>15, <2>2 DEF InOrder
  <2>6. SameLists(m, m2) /\ Ring(m2)
    BY <1>14, <2>2 DEF SameLists, Ring, SameRing
  <2> QED BY <1>14, <2>1, <2>4, <2>5, <2>6 DEF Cut
<1> QED BY <1>8, <1>11, <1>14, <1>16 DEF SameVectors

\* The operation in slot b is the youngest of the correct path.
Mispredicted(m, b) ==
  \A q \in Queues : \A i \in Slot(q) : In(m, q, i) =>
    /\ m.station[q][i].spec_mode <=> m.station["RUU"][b].seq < m.station[q][i].seq
    /\ m.station[q][i].recover_inst => m.station[q][i].completed

\* The create vector of the correct path is precise for what is left.
LEMMA RecoverPrecise ==
  ASSUME NEW m, NEW m2, NEW b, Gone(m, m2, Younger(m, b)), Mispredicted(m, b),
         NEW v \in Creators \cup {NONE}, NEW name \in Names, NEW X,
         Precise(m, v, name, FALSE, X), NEW all
  PROVE  Precise(m2, v, name, all, X)
<1> DEFINE W(q, i, d) == Writes(m, q, i, d, name) /\ (FALSE \/ ~m.station[q][i].spec_mode)
           V(q, i, d) == Writes(m2, q, i, d, name) /\ (all \/ ~m2.station[q][i].spec_mode)
<1>1. PICK G : G = Younger(m, b)
  OBVIOUS
<1>2. \A q \in Queues : \A i \in Slot(q) :
        i \in G[q] <=> In(m, q, i) /\ m.station["RUU"][b].seq < m.station[q][i].seq
  BY <1>1 DEF Younger
<1>3. Gone(m, m2, G)
  BY <1>1
<1>4. ASSUME NEW q \in Queues, NEW i \in Slot(q), NEW d \in 1..2
      PROVE  /\ V(q, i, d) <=> W(q, i, d)
             /\ W(q, i, d) => m2.station[q][i] = m.station[q][i]
  <2>1. In(m, q, i) => (i \in G[q] <=> m.station[q][i].spec_mode)
    BY <1>2 DEF Mispredicted
  <2>2. /\ In(m2, q, i) <=> In(m, q, i) /\ i \notin G[q]
        /\ i \notin G[q] => m2.station[q][i] = m.station[q][i]
    BY <1>3 DEF Gone
  <2>3. CASE In(m, q, i) /\ i \notin G[q]
    BY <2>1, <2>2, <2>3 DEF Writes
  <2>4. CASE ~(In(m, q, i) /\ i \notin G[q])
    BY <2>1, <2>2, <2>4 DEF Writes
  <2> QED BY <2>3, <2>4
<1>5. ASSUME v # NONE
      PROVE  /\ V(v.q, v.i, v.odep)
             /\ m2.station[v.q][v.i].completed => <<v.q, v.i, v.odep>> \in X
             /\ \A q \in Queues : \A i \in Slot(q) : \A d \in 1..2 :
                  V(q, i, d) => m2.station[q][i].seq <= m2.station[v.q][v.i].seq
  <2>1. v.q \in Queues /\ v.i \in Slot(v.q) /\ v.odep \in 1..2
    BY <1>5, CreatorType
  <2>2. /\ W(v.q, v.i, v.odep)
        /\ m.station[v.q][v.i].completed => <<v.q, v.i, v.odep>> \in X
        /\ \A q \in Queues : \A i \in Slot(q) : \A d \in 1..2 :
             W(q, i, d) => m.station[q][i].seq <= m.station[v.q][v.i].seq
    BY <1>5 DEF Precise
  <2> HIDE DEF V, W
  <2>3. V(v.q, v.i, v.odep) /\ m2.station[v.q][v.i] = m.station[v.q][v.i]
    BY <1>4, <2>1, <2>2
  <2> QED BY <1>4, <2>2, <2>3
<1>6. ASSUME v = NONE, NEW q \in Queues, NEW i \in Slot(q), NEW d \in 1..2, V(q, i, d)
      PROVE  \/ m2.station[q][i].completed
             \/ \E p \in Queues : \E j \in Slot(p) : \E e \in 1..2 :
                  V(p, j, e) /\ m2.station[q][i].seq < m2.station[p][j].seq
  <2>1. W(q, i, d) /\ m2.station[q][i] = m.station[q][i]
    BY <1>4, <1>6
  <2>2. \/ m.station[q][i].completed
        \/ \E p \in Queues : \E j \in Slot(p) : \E e \in 1..2 :
             W(p, j, e) /\ m.station[q][i].seq < m.station[p][j].seq
    BY <1>6, <2>1 DEF Precise
  <2> HIDE DEF V, W
  <2> QED BY <1>4, <2>1, <2>2
<1> QED BY <1>5, <1>6 DEF Precise

\* Recovery brings back a state without speculation.
LEMMA RecoverSound ==
  ASSUME NEW m, NEW last, NEW list \in Seq(Links), NEW X, Work(m, last, list, {}, X, {}),
         NEW b \in Slot("RUU"), In(m, "RUU", b), ~m.station["RUU"][b].ea_comp,
         Mispredicted(m, b), NEW m2, m2 = ruu_recover(m, b)
  PROVE  /\ Sound(m2, FALSE, last, list, {}, X, {}) /\ m2.use_spec_cv = {}
         /\ m.station["RUU"][b].completed => m2.station["RUU"][b].completed
<1>1. CoreOK(m) /\ Ring(m) /\ Ordered(m, last) /\ Paired(m) /\ ChainsOK(m, X, {})
  BY DEF Work
<1>2. PICK G : G = Younger(m, b)
  OBVIOUS
<1>3. Cut(m, m2, G) /\ m2.use_spec_cv = {} /\ m2.create_vector = m.create_vector
  BY <1>1, <1>2, RecoverCut
<1>4. \A q \in Queues : \A i \in Slot(q) :
        i \in G[q] <=> In(m, q, i) /\ m.station["RUU"][b].seq < m.station[q][i].seq
  BY <1>2 DEF Younger
<1>5. "RUU" \in Queues /\ "LSQ" \in Queues
  BY DEF Queues
<1>6. \A q \in Queues : \A i \in Slot(q) : m.station[q][i].seq \in Nat
  BY <1>1, StationType, StationFields
<1>7. CoreOK(m2) /\ Ring(m2) /\ Gone(m, m2, G)
  BY <1>3 DEF Cut
<1>8. Kinds(m2) /\ Ordered(m2, last) /\ FlagsOK(m2, {})
  BY <1>3, CutShape DEF Work
<1>9. Paired(m2)
  <2>1. ASSUME NEW i \in Slot("RUU"), NEW j \in Slot("LSQ"), In(m, "RUU", i),
               In(m, "LSQ", j), Pair(m, i, j)
        PROVE  i \in G["RUU"] <=> j \in G["LSQ"]
    <3>1. m.station["RUU"][i].ea_comp /\ m.station["LSQ"][j].seq = m.station["RUU"][i].seq + 1
      BY <2>1 DEF Pair
    <3>2. m.station["RUU"][i].seq # m.station["RUU"][b].seq
      BY <1>1, <1>5, <2>1, <3>1, SeqOrder
    <3>3. m.station["RUU"][b].seq < m.station["RUU"][i].seq
            <=> m.station["RUU"][b].seq < m.station["LSQ"][j].seq
      BY <1>5, <1>6, <3>1, <3>2
    <3> QED BY <1>4, <1>5, <2>1, <3>3
  <2> QED BY <1>1, <1>3, <2>1, CutPaired
<1>10. ReadyOK(m2, list) /\ EventsOK(m2) /\ LoadsOK(m2)
  BY <1>1, <1>3, CutReady, CutEvents, CutLoads DEF Work
<1>11. ChainsOK(m2, X, {})
  <2>1. ASSUME NEW q \in Queues, NEW i \in Slot(q), NEW d \in 1..2, i \in G[q],
               NEW k \in 1..Len(Chain(m, q, i, d)), RSLINK_VALID(m, Chain(m, q, i, d)[k])
        PROVE  Chain(m, q, i, d)[k].i \in G[Chain(m, q, i, d)[k].q]
    <3>1. PICK l \in Links : l = Chain(m, q, i, d)[k]
      BY <1>1, ChainType
    <3>2. l.q \in Queues /\ l.i \in Slot(l.q)
      BY <3>1 DEF Links
    <3>3. ChainLinks(m, {})
      BY <1>1, ChainsParts
    <3>4. LinkOK(m, l) /\ m.station[q][i].seq < RS(m, l).seq
      BY <2>1, <3>1, <3>3 DEF ChainLinks
    <3>5. In(m, l.q, l.i) /\ m.station[q][i].seq < m.station[l.q][l.i].seq
      BY <2>1, <3>1, <3>4 DEF LinkOK, RSLINK_VALID, RS
    <3>6. m.station["RUU"][b].seq < m.station[q][i].seq
      BY <1>4, <2>1
    <3>7. m.station["RUU"][b].seq < m.station[l.q][l.i].seq
      BY <1>5, <1>6, <3>2, <3>5, <3>6
    <3> QED BY <1>4, <3>1, <3>2, <3>5, <3>7
  <2>2. \A q \in Queues : \A i \in Slot(q) : \A d \in 1..2 :
          i \in G[q] => \A k \in 1..Len(Chain(m, q, i, d)) :
            LET l == Chain(m, q, i, d)[k] IN RSLINK_VALID(m, l) => l.i \in G[l.q]
    BY <2>1
  <2> QED BY <1>1, <1>3, <2>2, CutChains
<1>12. Boundary(m2, FALSE)
  <2> SUFFICES ASSUME NEW q \in Queues, NEW i \in Slot(q), In(m2, q, i)
               PROVE  ~m2.station[q][i].spec_mode
                      /\ (m2.station[q][i].recover_inst => m2.station[q][i].completed)
    BY DEF Boundary
  <2>1. In(m, q, i) /\ i \notin G[q] /\ m2.station[q][i] = m.station[q][i]
    BY <1>7, CutLeft
  <2> QED BY <1>4, <2>1 DEF Mispredicted
<1>13. CreatorsOK(m2, X)
  <2> SUFFICES ASSUME NEW name \in Names
               PROVE  /\ Precise(m2, m2.create_vector[name], name, FALSE, X)
                      /\ Precise(m2, CREATE_VECTOR(m2, name), name, TRUE, X)
                      /\ name \notin m2.use_spec_cv
    BY DEF CreatorsOK
  <2>1. CREATE_VECTOR(m2, name) = m.create_vector[name] /\ m2.create_vector[name] = m.create_vector[name]
    BY <1>3 DEF CREATE_VECTOR
  <2>2. m.create_vector[name] \in Creators \cup {NONE}
    BY <1>1, VectorType
  <2>3. Precise(m, m.create_vector[name], name, FALSE, X)
    BY DEF Work, CreatorsOK
  <2>4. \A all : Precise(m2, m.create_vector[name], name, all, X)
    BY <1>2, <1>7, <2>2, <2>3, RecoverPrecise
  <2> QED BY <1>3, <2>1, <2>4
<1>14. m2.station["RUU"][b].completed = m.station["RUU"][b].completed
  <2>1. b \notin G["RUU"]
    BY <1>4, <1>5, <1>6
  <2>2. m2.station["RUU"][b] = m.station["RUU"][b]
    BY <1>5, <1>7, <2>1 DEF Gone
  <2> QED BY <2>2
<1>15. Sound(m2, FALSE, last, list, {}, X, {})
  BY <1>7, <1>8, <1>9, <1>10, <1>11, <1>12, <1>13 DEF Sound
<1> QED BY <1>3, <1>14, <1>15

-----------------------------------------------------------------------------
(*****************************************************************************)
(* Writeback.                                                                *)
(*****************************************************************************)
\* The core after the event of r: r completes, what is younger goes if r was
\* mispredicted, and both outputs are broadcast.
Recovered(r) ==
  IF RS(core, r).recover_inst THEN ruu_recover(Completed(r), r.i) ELSE Completed(r)

\* A completion after which both outputs have been broadcast.
LEMMA BothBroadcast ==
  ASSUME NEW m, NEW mode, NEW last, NEW list \in Seq(Links),
         NEW r, r.q \in Queues, r.i \in Slot(r.q),
         Sound(m, mode, last, list, {}, Outputs(r), {}),
         m.station[r.q][r.i].completed,
         NEW m2, m2 = Broadcast(Broadcast(m, r, 1), r, 2)
  PROVE  Sound(m2, mode, last, list, {}, {}, {}) /\ m2.use_spec_cv = m.use_spec_cv
<1>1. PICK X : X = Outputs(r)
  OBVIOUS
<1>2. PICK m1 : m1 = Broadcast(m, r, 1)
  OBVIOUS
<1>3. PICK Y : Y = Less(X, r, 1)
  OBVIOUS
<1>4. 1 \in 1..2 /\ 2 \in 1..2
  OBVIOUS
<1>5. Sound(m, mode, last, list, {}, X, {})
  BY <1>1
<1>a. list \in Seq(Links) /\ r.q \in Queues /\ r.i \in Slot(r.q) /\ m.station[r.q][r.i].completed
  OBVIOUS
<1>6. /\ Sound(m1, mode, last, list, {}, Y, {})
      /\ Same(m, m1) /\ SameState(m, m1) /\ SameUse(m, m1)
  <2>1. PICK k \in 1..2 : k = 1
    BY <1>4
  <2>2. m1 = Broadcast(m, r, k) /\ Y = Less(X, r, k)
    BY <1>2, <1>3, <2>1
  <2>3. k \in 1..2
    OBVIOUS
  <2>4. Sound(m1, mode, last, list, {}, Y, {})
    BY ONLY <1>a, <1>5, <2>2, <2>3, BroadcastSound
  <2>5. Same(m, m1) /\ SameState(m, m1)
    BY ONLY <1>a, <1>5, <2>2, <2>3, BroadcastSound
  <2>6. SameUse(m, m1)
    BY ONLY <1>a, <1>5, <2>2, <2>3, BroadcastSound
  <2> QED BY <2>4, <2>5, <2>6
<1>7. m1.station[r.q][r.i].completed
  BY <1>6 DEF SameState
<1>8. m2 = Broadcast(m1, r, 2)
  BY <1>2
<1>9. /\ Sound(m2, mode, last, list, {}, Less(Y, r, 2), {})
      /\ SameUse(m1, m2)
  BY ONLY <1>a, <1>4, <1>6, <1>7, <1>8, BroadcastSound
<1>10. Less(Y, r, 2) = {}
  BY <1>1, <1>3 DEF Less, Outputs
<1> QED BY <1>6, <1>9, <1>10 DEF SameUse

\* ruu_writeback keeps the invariant; after a recovery nothing speculative is
\* left.
LEMMA WritebackSound ==
  ASSUME NEW mode \in BOOLEAN, NEW last, NEW list \in Seq(Links),
         Sound(core, mode, last, list, {}, {}, {}), core.event_queue # <<>>,
         NEW r, r = Head(core.event_queue), RSLINK_VALID(core, r),
         NEW m2, m2 = Broadcast(Broadcast(Recovered(r), r, 1), r, 2)
  PROVE  /\ RS(core, r).recover_inst =>
              Sound(m2, FALSE, last, list, {}, {}, {}) /\ m2.use_spec_cv = {}
         /\ ~RS(core, r).recover_inst =>
              Sound(m2, mode, last, list, {}, {}, {}) /\ m2.use_spec_cv = core.use_spec_cv
<1>1. PICK m : m = Completed(r)
  OBVIOUS
<1>2. PICK X : X = Outputs(r)
  OBVIOUS
<1>a. /\ list \in Seq(Links) /\ Sound(core, mode, last, list, {}, {}, {})
      /\ core.event_queue # <<>> /\ r = Head(core.event_queue) /\ RSLINK_VALID(core, r)
  OBVIOUS
<1>3. r \in Links /\ r.q \in Queues /\ r.i \in Slot(r.q) /\ In(core, r.q, r.i)
  BY <1>1, CompleteWork
<1>4. Same(core, m) /\ SameVectors(core, m) /\ ~core.station[r.q][r.i].completed
  BY <1>1, CompleteWork
<1>5. Finishes(core, m, r)
  BY ONLY <1>a, <1>1, CompleteWork
<1>6. Work(m, last, list, {}, X, {})
  BY <1>1, <1>2, CompleteWork
<1>7. RS(core, r) = core.station[r.q][r.i]
  BY DEF RS
<1>8. m.station[r.q][r.i].completed
  BY <1>3, <1>5 DEF Finishes
<1>9. CASE ~RS(core, r).recover_inst
  <2>1. Boundary(m, mode)
    BY ONLY <1>a, <1>1, <1>7, <1>9, CompleteWork
  <2>2. Sound(m, mode, last, list, {}, X, {})
    BY <1>6, <2>1, SoundWork
  <2>3. m2 = Broadcast(Broadcast(m, r, 1), r, 2)
    BY <1>1, <1>9 DEF Recovered
  <2>4. Sound(m2, mode, last, list, {}, {}, {}) /\ m2.use_spec_cv = m.use_spec_cv
    BY ONLY <1>a, <1>2, <1>3, <1>8, <2>2, <2>3, BothBroadcast
  <2> QED BY <1>4, <1>9, <2>4 DEF SameVectors
<1>10. CASE RS(core, r).recover_inst
  <2>1. CoreOK(core) /\ Kinds(core) /\ Boundary(core, mode)
    BY DEF Sound
  <2>2. r.q = "RUU" /\ ~core.station[r.q][r.i].ea_comp
    BY ONLY <1>3, <1>7, <1>10, <2>1 DEF Kinds, Kind
  <2>3. mode
    BY <1>3, <1>4, <1>7, <1>10, <2>1 DEF Boundary
  <2>4. PICK c \in Slot("RUU") : Culprit(core, c)
    BY <2>1, <2>3 DEF Boundary
  <2>5. c = r.i
    BY <1>3, <1>4, <1>7, <1>10, <2>4 DEF Culprit
  <2>6. r.i \in Slot("RUU") /\ In(m, "RUU", r.i) /\ ~m.station["RUU"][r.i].ea_comp
    <3>1. In(m, r.q, r.i)
      BY <1>3, <1>4, SameIn DEF Same
    <3>2. m.station[r.q][r.i].ea_comp = core.station[r.q][r.i].ea_comp
      BY <1>3, <1>4 DEF Same, SameStatic
    <3> QED BY <1>3, <2>2, <3>1, <3>2
  <2>7. Mispredicted(m, r.i)
    <3>1. ASSUME NEW q \in Queues, NEW i \in Slot(q), In(m, q, i)
          PROVE  /\ m.station[q][i].spec_mode <=>
                      m.station["RUU"][r.i].seq < m.station[q][i].seq
                 /\ m.station[q][i].recover_inst => m.station[q][i].completed
      <4>1. In(core, q, i)
        BY <1>4, <3>1, SameIn DEF Same
      <4>2. /\ m.station[q][i].spec_mode = core.station[q][i].spec_mode
            /\ m.station[q][i].recover_inst = core.station[q][i].recover_inst
            /\ m.station[q][i].seq = core.station[q][i].seq
            /\ m.station["RUU"][r.i].seq = core.station["RUU"][r.i].seq
        BY <1>4, <2>6 DEF Same, SameStatic, Queues
      <4>3. core.station[q][i].spec_mode <=>
              core.station["RUU"][r.i].seq < core.station[q][i].seq
        BY <2>4, <2>5, <4>1 DEF Culprit
      <4>4. core.station[q][i].recover_inst /\ ~core.station[q][i].completed =>
              q = "RUU" /\ i = r.i
        BY <2>4, <2>5, <4>1 DEF Culprit
      <4>5. m.station[q][i].completed <=> (core.station[q][i].completed \/ (q = r.q /\ i = r.i))
        BY <1>5 DEF Finishes
      <4>6. m.station[q][i].recover_inst => m.station[q][i].completed
        BY <2>2, <4>2, <4>4, <4>5
      <4> QED BY <4>2, <4>3, <4>6
    <3> QED BY ONLY <3>1 DEF Mispredicted
  <2>a. PICK b : b = r.i
    OBVIOUS
  <2>b. b \in Slot("RUU") /\ In(m, "RUU", b) /\ ~m.station["RUU"][b].ea_comp /\ Mispredicted(m, b)
    BY <2>a, <2>6, <2>7
  <2>8. PICK m1 : m1 = ruu_recover(m, b)
    OBVIOUS
  <2>9. /\ Sound(m1, FALSE, last, list, {}, X, {}) /\ m1.use_spec_cv = {}
        /\ m.station["RUU"][b].completed => m1.station["RUU"][b].completed
    <3>1. Sound(m1, FALSE, last, list, {}, X, {})
      BY ONLY <1>a, <1>6, <2>b, <2>8, RecoverSound
    <3>2. m1.use_spec_cv = {}
      BY ONLY <1>a, <1>6, <2>b, <2>8, RecoverSound
    <3>3. m.station["RUU"][b].completed => m1.station["RUU"][b].completed
      BY ONLY <1>a, <1>6, <2>b, <2>8, RecoverSound
    <3> QED BY <3>1, <3>2, <3>3
  <2>10. m2 = Broadcast(Broadcast(m1, r, 1), r, 2)
    BY <1>1, <1>10, <2>a, <2>8 DEF Recovered
  <2>11. m1.station[r.q][r.i].completed
    BY <1>8, <2>a, <2>2, <2>9
  <2>12. Sound(m2, FALSE, last, list, {}, {}, {}) /\ m2.use_spec_cv = m1.use_spec_cv
    BY ONLY <1>a, <1>2, <1>3, <2>9, <2>10, <2>11, BothBroadcast
  <2> QED BY <1>10, <2>9, <2>12
<1> QED BY <1>9, <1>10

-----------------------------------------------------------------------------
(*****************************************************************************)
(* Filling a slot.                                                           *)
(*****************************************************************************)
\* The station a new operation starts from.
Filled(a, q, op, addr, f, npc, seq) ==
  [a EXCEPT !.op = op, !.PC = f.PC, !.next_PC = npc,
            !.in_LSQ = (q = "LSQ"), !.recover_inst = FALSE,
            !.ea_comp = (op = "agen"), !.spec_mode = spec_mode,
            !.addr = addr, !.seq = seq, !.queued = FALSE,
            !.issued = FALSE, !.completed = FALSE]

\* What a new operation is.
Fresh(rs, q, op, addr, pc, seq) ==
  /\ rs.op = op /\ rs.PC = pc /\ (rs.in_LSQ <=> q = "LSQ") /\ ~rs.recover_inst
  /\ (rs.ea_comp <=> op = "agen") /\ (rs.spec_mode <=> spec_mode)
  /\ rs.addr = addr /\ rs.seq = seq
  /\ ~rs.queued /\ ~rs.issued /\ ~rs.completed

\* The fields Fill leaves alone.
Carried(a, b) ==
  b.tag = a.tag /\ b.onames = a.onames /\ b.odep_list = a.odep_list

\* A filled station is a new operation.
LEMMA FilledIs ==
  ASSUME NEW a \in Station, NEW q \in Queues, NEW op \in Ops, NEW addr \in Nat, NEW f,
         f.PC \in Nat, NEW npc \in Nat, NEW seq \in Nat, spec_mode \in BOOLEAN,
         NEW b, b = Filled(a, q, op, addr, f, npc, seq)
  PROVE  b \in Station /\ Fresh(b, q, op, addr, f.PC, seq) /\ Carried(a, b)
<1>1. PICK x \in BOOLEAN : x <=> q = "LSQ"
  OBVIOUS
<1>2. PICK y \in BOOLEAN : y <=> op = "agen"
  OBVIOUS
<1>3. PICK pc \in Nat : pc = f.PC
  OBVIOUS
<1>4. b = [a EXCEPT !.op = op, !.PC = pc, !.next_PC = npc,
            !.in_LSQ = x, !.recover_inst = FALSE,
            !.ea_comp = y, !.spec_mode = spec_mode,
            !.addr = addr, !.seq = seq, !.queued = FALSE,
            !.issued = FALSE, !.completed = FALSE]
  BY <1>1, <1>2, <1>3 DEF Filled
<1>5. b \in Station
  <2>1. PICK c \in Station : c = [a EXCEPT !.op = op, !.PC = pc, !.next_PC = npc, !.in_LSQ = x]
    BY ONLY a \in Station, op \in Ops, pc \in Nat, npc \in Nat, x \in BOOLEAN DEF Station
  <2>2. PICK e \in Station : e = [c EXCEPT !.recover_inst = FALSE, !.ea_comp = y,
                                         !.spec_mode = spec_mode, !.addr = addr]
    BY ONLY c \in Station, y \in BOOLEAN, spec_mode \in BOOLEAN, addr \in Nat DEF Station
  <2>3. PICK g \in Station : g = [e EXCEPT !.seq = seq, !.queued = FALSE,
                                         !.issued = FALSE, !.completed = FALSE]
    BY ONLY e \in Station, seq \in Nat DEF Station
  <2>4. b = g
    BY ONLY <1>4, <2>1, <2>2, <2>3, a \in Station DEF Station
  <2> QED BY <2>3, <2>4
<1>6. /\ b.op = op /\ b.PC = pc /\ b.in_LSQ = x /\ b.recover_inst = FALSE
      /\ b.ea_comp = y /\ b.spec_mode = spec_mode /\ b.addr = addr /\ b.seq = seq
      /\ b.queued = FALSE /\ b.issued = FALSE /\ b.completed = FALSE
  BY <1>4 DEF Station
<1>7. Carried(a, b)
  BY <1>4 DEF Station, Carried
<1>8. Fresh(b, q, op, addr, f.PC, seq)
  BY <1>1, <1>2, <1>3, <1>6 DEF Fresh
<1> QED BY <1>5, <1>7, <1>8

\* Slot r is taken at the tail of its queue.
Taking(m, m2, r) ==
  /\ m2.head = m.head
  /\ \A q \in Queues : m2.num[q] = IF q = r.q THEN m.num[q] + 1 ELSE m.num[q]

\* What filling the slot at the tail does.
LEMMA FillIs ==
  ASSUME NEW m, CoreOK(m), Ring(m), NEW r, r.q \in Queues, r.i = m.tail[r.q],
         m.num[r.q] < Size[r.q], NEW op \in Ops, NEW addr \in Nat, NEW f,
         f.PC \in Nat, NEW npc \in Nat, NEW seq \in Nat, spec_mode \in BOOLEAN,
         NEW m2, m2 = Fill(m, r, op, addr, f, npc, seq)
  PROVE  /\ CoreOK(m2) /\ Ring(m2) /\ SameLists(m, m2) /\ SameVectors(m, m2)
         /\ Taking(m, m2, r) /\ r.i \in Slot(r.q)
         /\ Put(m, m2, r.q, r.i, Filled(m.station[r.q][r.i], r.q, op, addr, f, npc, seq))
<1> DEFINE q == r.q
           t == r.i
<1>0. PICK s : s = Filled(m.station[q][t], q, op, addr, f, npc, seq)
  OBVIOUS
<1>1. t \in Slot(q) /\ m.station[q][t] \in Station
  <2>1. t \in Slot(q)
    BY DEF CoreOK
  <2> QED BY <2>1, StationType
<1>2. s \in Station
  BY <1>0, <1>1, FilledIs
<1>3. PICK tt : tt = (m.tail[q] + 1) % Size[q]
  OBVIOUS
<1>4. m2 = [m EXCEPT !.station[q][t] = s, !.tail[q] = tt, !.num[q] = @ + 1]
  BY <1>0, <1>3 DEF Fill, Filled
<1>5. Put(m, m2, q, t, s)
  BY ONLY <1>1, <1>4, CoreOK(m), q \in Queues DEF CoreOK, Put
<1>6. SameVectors(m, m2) /\ SameLists(m, m2) /\ m2.head = m.head
  BY ONLY <1>4, CoreOK(m), q \in Queues DEF CoreOK, SameVectors, SameLists
<1>7. Record(m2)
  BY ONLY <1>4, CoreOK(m), q \in Queues DEF CoreOK, Record
<1>8. m2.station = [p \in Queues |-> m2.station[p]]
  BY ONLY <1>4, CoreOK(m), q \in Queues DEF CoreOK
<1>9. \A p \in Queues : m2.station[p] = [j \in Slot(p) |-> m2.station[p][j]]
  BY ONLY <1>4, CoreOK(m), q \in Queues DEF CoreOK
<1>10. /\ m2.tail = [m.tail EXCEPT ![q] = tt]
       /\ m2.num = [m.num EXCEPT ![q] = m.num[q] + 1]
  BY ONLY <1>4, CoreOK(m), q \in Queues DEF CoreOK
<1>11. m.tail \in [Queues -> Nat] /\ m.num \in [Queues -> Nat] /\ m.head \in [Queues -> Nat]
  BY DEF CoreOK
<1>12. /\ \A p \in Queues : m2.tail[p] = IF p = q THEN tt ELSE m.tail[p]
       /\ \A p \in Queues : m2.num[p] = IF p = q THEN m.num[p] + 1 ELSE m.num[p]
  BY <1>10, <1>11
<1>13. \A p \in Queues : \A j \in Slot(p) : m2.station[p][j] \in Station
  <2> SUFFICES ASSUME NEW p \in Queues, NEW j \in Slot(p) PROVE m2.station[p][j] \in Station
    OBVIOUS
  <2>1. m.station[p][j] \in Station
    BY StationType
  <2>2. m2.station[p][j] = IF p = q /\ j = t THEN s ELSE m.station[p][j]
    BY <1>5 DEF Put
  <2> QED BY ONLY <1>2, <2>1, <2>2, Zenon
<1>14. tt \in Slot(q) /\ tt \in Nat
  <2>1. m.tail[q] + 1 \in Int /\ Size[q] \in Nat /\ Size[q] > 0
    BY Pointers
  <2>2. tt \in 0..(Size[q] - 1)
    BY <1>3, <2>1, Mod
  <2> QED BY <2>1, <2>2 DEF Slot
<1>15. m.num[q] + 1 \in Nat /\ m.num[q] + 1 <= Size[q] /\ m.num[q] \in Nat
  BY Pointers
<1>16. m2.head \in [Queues -> Nat] /\ m2.tail \in [Queues -> Nat] /\ m2.num \in [Queues -> Nat]
  BY ONLY <1>6, <1>10, <1>11, <1>14, <1>15
<1>17. \A p \in Queues : /\ m2.head[p] \in Slot(p) /\ m2.tail[p] \in Slot(p)
                         /\ m2.num[p] <= Size[p]
  <2>1. \A p \in Queues : m.head[p] \in Slot(p) /\ m.tail[p] \in Slot(p) /\ m.num[p] <= Size[p]
    BY DEF CoreOK
  <2>2. ASSUME NEW p \in Queues
        PROVE  m2.head[p] \in Slot(p) /\ m2.tail[p] \in Slot(p) /\ m2.num[p] <= Size[p]
    <3>1. CASE p = q
      BY ONLY <1>6, <1>12, <1>14, <1>15, <2>1, <3>1, p \in Queues
    <3>2. CASE p # q
      BY ONLY <1>6, <1>12, <2>1, <3>2, p \in Queues
    <3> QED BY <3>1, <3>2
  <2> QED BY <2>2
<1>18. /\ m2.ready_queue \in Seq(Links) /\ m2.event_queue \in Seq(Links)
       /\ m2.create_vector \in [Names -> Creators \cup {NONE}]
       /\ m2.spec_create_vector \in [Names -> Creators \cup {NONE}]
       /\ m2.use_spec_cv \subseteq Names
  BY ONLY <1>6, CoreOK(m) DEF CoreOK, SameVectors, SameLists
<1>19. CoreOK(m2)
  BY ONLY <1>7, <1>8, <1>9, <1>13, <1>16, <1>17, <1>18, CoreIs
<1>20. Ring(m2)
  <2>1. ASSUME NEW p \in Queues
        PROVE  m2.tail[p] = (m2.head[p] + m2.num[p]) % Size[p]
    <3>1. m.tail[p] = (m.head[p] + m.num[p]) % Size[p]
      BY DEF Ring
    <3>2. CASE p # q
      BY ONLY <1>6, <1>12, <3>1, <3>2, p \in Queues
    <3>3. CASE p = q
      <4>1. PICK h : h = m.head[q]
        OBVIOUS
      <4>2. PICK c : c = m.num[q]
        OBVIOUS
      <4>3. PICK S : S = Size[q]
        OBVIOUS
      <4>4. h \in 0..(S - 1) /\ S \in Nat /\ S > 0 /\ c \in Nat /\ c < S
        BY <4>1, <4>2, <4>3, Pointers
      <4>5. m.tail[q] = (h + c) % S /\ tt = (m.tail[q] + 1) % S
        BY <1>3, <3>1, <3>3, <4>1, <4>2, <4>3
      <4>6. (((h + c) % S) + 1) % S = (h + (c + 1)) % S
        <5>1. CASE h + c < S
          <6>1. (h + c) % S = h + c
            BY ONLY <4>4, <5>1, Mod
          <6> QED BY <4>4, <6>1
        <5>2. CASE h + c >= S
          <6>1. (h + c) % S = h + c - S
            BY ONLY <4>4, <5>2, Mod
          <6>2. (h + c - S) + 1 = h + (c + 1) - S
            BY <4>4
          <6>3. CASE h + (c + 1) < 2 * S
            <7>1. (h + (c + 1)) % S = h + (c + 1) - S
              BY ONLY <4>4, <5>2, <6>3, Mod
            <7>2. (h + (c + 1) - S) % S = h + (c + 1) - S
              BY ONLY <4>4, <5>2, <6>3, Mod
            <7> QED BY <6>1, <6>2, <7>1, <7>2
          <6>4. h + (c + 1) < 2 * S
            BY <4>4
          <6> QED BY <6>3, <6>4
        <5> QED BY <4>4, <5>1, <5>2
      <4>7. m2.tail[q] = tt /\ m2.head[q] = h /\ m2.num[q] = c + 1
        BY <1>6, <1>12, <4>1, <4>2
      <4> QED BY <3>3, <4>3, <4>5, <4>6, <4>7
    <3> QED BY <3>2, <3>3
  <2> QED BY ONLY <2>1 DEF Ring
<1>21. Taking(m, m2, r)
  BY ONLY <1>6, <1>12 DEF Taking
<1> QED BY <1>0, <1>1, <1>5, <1>6, <1>19, <1>20, <1>21

-----------------------------------------------------------------------------
(*****************************************************************************)
(* Linking an input.                                                         *)
(*****************************************************************************)
Blocked(m, r, k) == [m EXCEPT !.station[r.q][r.i].idep_ready[k] = FALSE]

Chained(m, v, l) ==
  [m EXCEPT !.station[v.q][v.i].odep_list[v.odep] = <<l>> \o @, !.free_links = @ - 1]

\* What marking an input as missing does.
LEMMA BlockedIs ==
  ASSUME NEW m, CoreOK(m), NEW r, r.q \in Queues, r.i \in Slot(r.q), NEW k \in 1..3,
         NEW m2, m2 = Blocked(m, r, k)
  PROVE  /\ CoreOK(m2) /\ SameRing(m, m2) /\ SameVectors(m, m2)
         /\ SameLists(m, m2)
         /\ Put(m, m2, r.q, r.i, [m.station[r.q][r.i] EXCEPT !.idep_ready[k] = FALSE])
<1> DEFINE a == m.station[r.q][r.i]
           s == [m.station[r.q][r.i] EXCEPT !.idep_ready[k] = FALSE]
<1>1. a \in Station
  BY StationType
<1>2. s \in Station
  BY <1>1, StationUpdates
<1>3. Put(m, m2, r.q, r.i, s)
  BY DEF Blocked, CoreOK, Put
<1>4. SameRing(m, m2) /\ SameVectors(m, m2)
  BY DEF Blocked, CoreOK, SameRing, SameVectors
<1>5. SameLists(m, m2)
  BY DEF Blocked, CoreOK, SameLists
<1>6. Record(m2)
  BY DEF Blocked, CoreOK, Record
<1>7. m2.station = [q \in Queues |-> m2.station[q]]
  BY DEF Blocked, CoreOK
<1>8. \A q \in Queues : m2.station[q] \in [Slot(q) -> Station]
  <2>1. \A q \in Queues : m2.station[q] = [j \in Slot(q) |-> m2.station[q][j]]
    BY DEF Blocked, CoreOK
  <2> HIDE DEF s
  <2>2. ASSUME NEW q \in Queues, NEW j \in Slot(q) PROVE m2.station[q][j] \in Station
    <3>1. m.station[q][j] \in Station
      BY StationType
    <3>2. m2.station[q][j] = IF q = r.q /\ j = r.i THEN s ELSE m.station[q][j]
      BY <1>3 DEF Put
    <3> QED BY <1>2, <3>1, <3>2, Zenon
  <2> QED BY <2>1, <2>2
<1>9. CoreOK(m2)
  BY <1>4, <1>5, <1>6, <1>7, <1>8 DEF CoreOK, Record, SameRing, SameVectors, SameLists
<1> QED BY <1>3, <1>4, <1>5, <1>9

\* What putting a link on a chain does.
LEMMA ChainedIs ==
  ASSUME NEW m, CoreOK(m), NEW v, v.q \in Queues, v.i \in Slot(v.q), v.odep \in 1..2,
         NEW l \in Links, NEW m2, m2 = Chained(m, v, l)
  PROVE  /\ CoreOK(m2) /\ SameRing(m, m2) /\ SameVectors(m, m2)
         /\ SameLists(m, m2)
         /\ Put(m, m2, v.q, v.i, [m.station[v.q][v.i] EXCEPT !.odep_list[v.odep] =
                                    <<l>> \o m.station[v.q][v.i].odep_list[v.odep]])
<1> DEFINE a == m.station[v.q][v.i]
           s == [m.station[v.q][v.i] EXCEPT !.odep_list[v.odep] =
                                    <<l>> \o m.station[v.q][v.i].odep_list[v.odep]]
<1>1. a \in Station
  BY StationType
<1>2. s \in Station
  <2>0. a.odep_list[v.odep] \in Seq(Links)
    BY <1>1, StationFields
  <2> HIDE DEF a
  <2>1. <<l>> \o a.odep_list[v.odep] \in Seq(Links)
    BY ONLY <2>0, l \in Links, ConsInserts
  <2>2. [a EXCEPT !.odep_list[v.odep] = <<l>> \o a.odep_list[v.odep]] \in Station
    BY <1>1, <2>1, StationUpdates
  <2> QED BY <2>2 DEF a
<1>3. Put(m, m2, v.q, v.i, s)
  BY DEF Chained, CoreOK, Put
<1>4. SameRing(m, m2) /\ SameVectors(m, m2)
  BY DEF Chained, CoreOK, SameRing, SameVectors
<1>5. SameLists(m, m2)
  BY DEF Chained, CoreOK, SameLists
<1>6. Record(m2)
  BY DEF Chained, CoreOK, Record
<1>7. m2.station = [q \in Queues |-> m2.station[q]]
  BY DEF Chained, CoreOK
<1>8. \A q \in Queues : m2.station[q] \in [Slot(q) -> Station]
  <2>1. \A q \in Queues : m2.station[q] = [j \in Slot(q) |-> m2.station[q][j]]
    BY DEF Chained, CoreOK
  <2> HIDE DEF s
  <2>2. ASSUME NEW q \in Queues, NEW j \in Slot(q) PROVE m2.station[q][j] \in Station
    <3>1. m.station[q][j] \in Station
      BY StationType
    <3>2. m2.station[q][j] = IF q = v.q /\ j = v.i THEN s ELSE m.station[q][j]
      BY <1>3 DEF Put
    <3> QED BY <1>2, <3>1, <3>2, Zenon
  <2> QED BY <2>1, <2>2
<1>9. CoreOK(m2)
  BY <1>4, <1>5, <1>6, <1>7, <1>8 DEF CoreOK, Record, SameRing, SameVectors, SameLists
<1> QED BY <1>3, <1>4, <1>5, <1>9

\* The same by the creator of the value, NONE when nobody is going to create it.
IdepLinked(m, r, k, v) ==
  IF v = NONE THEN Woken(m, r, k) ELSE Chained(Blocked(m, r, k), v, Link(m, r, k))

\* An input is ready, or waits for its creator.
LEMMA LinkIdepIs ==
  ASSUME NEW m, CoreOK(m), NEW r, r.q \in Queues, r.i \in Slot(r.q), NEW k \in 1..3,
         NEW name \in Names \cup {NA}, NEW m2, m2 = ruu_link_idep(m, r, k, name)
  PROVE  \/ m2 = Woken(m, r, k)
         \/ /\ name \in Names
            /\ m2 = Chained(Blocked(m, r, k), CREATE_VECTOR(m, name), Link(m, r, k))
            /\ CREATE_VECTOR(m, name) # NONE
<1>1. m2 = IdepLinked(m, r, k, IF name = NA THEN NONE ELSE CREATE_VECTOR(m, name))
  BY ONLY m2 = ruu_link_idep(m, r, k, name), ZenonT(60)
     DEF ruu_link_idep, IdepLinked, Woken, Blocked, Chained
<1>2. PICK v : /\ v = IF name = NA THEN NONE ELSE CREATE_VECTOR(m, name)
               /\ m2 = IdepLinked(m, r, k, v)
  BY ONLY <1>1
<1>3. CASE v = NONE
  BY ONLY <1>2, <1>3 DEF IdepLinked
<1>4. CASE v # NONE
  <2>1. name \in Names /\ CREATE_VECTOR(m, name) = v
    BY ONLY <1>2, <1>4, name \in Names \cup {NA}
  <2>2. m2 = Chained(Blocked(m, r, k), v, Link(m, r, k))
    BY ONLY <1>2, <1>4 DEF IdepLinked
  <2> QED BY ONLY <1>4, <2>1, <2>2
<1> QED BY ONLY <1>3, <1>4

\* The inputs of r from the k-th on.
Unlinked(r, k) == {<<r.q, r.i, o>> : o \in k..3}

\* The inputs that are still to be linked.
LEMMA UnlinkedIs ==
  ASSUME NEW r, NEW k \in 1..4, NEW q, NEW i, NEW o \in 1..3
  PROVE  <<q, i, o>> \in Unlinked(r, k) <=> q = r.q /\ i = r.i /\ o >= k
BY DEF Unlinked

\* After the third none is.
LEMMA NoneUnlinked ==
  ASSUME NEW r
  PROVE  Unlinked(r, 4) = {}
BY DEF Unlinked

\* Only input k of r changes, to b.
OneInput(m, m2, r, k, b) ==
  \A q \in Queues : \A i \in Slot(q) : \A o \in 1..3 :
    m2.station[q][i].idep_ready[o] = IF q = r.q /\ i = r.i /\ o = k THEN b
                                     ELSE m.station[q][i].idep_ready[o]

\* The input that was set has its value.
LEMMA ThisInput ==
  ASSUME NEW m, NEW m2, NEW r, r.q \in Queues, r.i \in Slot(r.q), NEW k \in 1..3, NEW b,
         OneInput(m, m2, r, k, b)
  PROVE  m2.station[r.q][r.i].idep_ready[k] = b
BY DEF OneInput

\* A link that was on a chain before input k of r was linked.
LEMMA OldLink ==
  ASSUME NEW m, CoreOK(m), NEW m2, Same(m, m2), NEW r, NEW k \in 1..3, NEW b,
         OneInput(m, m2, r, k, b), ChainLinks(m, Unlinked(r, k)),
         NEW q \in Queues, NEW i \in Slot(q), NEW d \in 1..2,
         NEW h \in 1..Len(Chain(m, q, i, d)), NEW e, e = Chain(m, q, i, d)[h]
  PROVE  /\ LinkOK(m2, e) /\ e.x \in 1..3
         /\ RSLINK_VALID(m2, e) =>
              /\ ~RS(m2, e).idep_ready[e.x] /\ <<e.q, e.i, e.x>> \notin Unlinked(r, k + 1)
              /\ m2.station[q][i].seq < RS(m2, e).seq
              /\ ~(e.q = r.q /\ e.i = r.i /\ e.x = k)
<1>1. e \in Links
  BY ChainType
<1>2. /\ LinkOK(m, e) /\ e.x \in 1..3
      /\ RSLINK_VALID(m, e) =>
           /\ ~RS(m, e).idep_ready[e.x] /\ <<e.q, e.i, e.x>> \notin Unlinked(r, k)
           /\ m.station[q][i].seq < RS(m, e).seq
  BY DEF ChainLinks
<1>3. LinkOK(m2, e) /\ (RSLINK_VALID(m2, e) <=> RSLINK_VALID(m, e))
  BY <1>1, <1>2, SameAlike, SameLink
<1>4. e.q \in Queues /\ e.i \in Slot(e.q)
  BY <1>1 DEF Links
<1>5. /\ m2.station[q][i].seq = m.station[q][i].seq
      /\ m2.station[e.q][e.i].seq = m.station[e.q][e.i].seq
  BY <1>4 DEF Same, SameStatic
<1>6. ASSUME RSLINK_VALID(m, e)
      PROVE  /\ ~RS(m2, e).idep_ready[e.x] /\ <<e.q, e.i, e.x>> \notin Unlinked(r, k + 1)
             /\ ~(e.q = r.q /\ e.i = r.i /\ e.x = k)
  <2>1. <<e.q, e.i, e.x>> \notin Unlinked(r, k) /\ ~m.station[e.q][e.i].idep_ready[e.x]
    BY <1>2, <1>6 DEF RS
  <2>2. k \in 1..4 /\ k + 1 \in 1..4 /\ e.x \in 1..3
    BY <1>2
  <2>3. ~(e.q = r.q /\ e.i = r.i /\ e.x >= k)
    BY <2>1, <2>2, UnlinkedIs
  <2>4. <<e.q, e.i, e.x>> \notin Unlinked(r, k + 1)
    <3>1. PICK j \in 1..4 : j = k + 1
      BY <2>2
    <3>2. ~(e.q = r.q /\ e.i = r.i /\ e.x >= j)
      BY ONLY <2>2, <2>3, <3>1, k \in 1..3
    <3>3. <<e.q, e.i, e.x>> \notin Unlinked(r, j)
      BY ONLY <2>2, <3>2, UnlinkedIs, j \in 1..4
    <3> QED BY <3>1, <3>3
  <2>5. ~(e.q = r.q /\ e.i = r.i /\ e.x = k)
    BY <2>2, <2>3
  <2>6. m2.station[e.q][e.i].idep_ready[e.x] = m.station[e.q][e.i].idep_ready[e.x]
    BY ONLY <1>4, <2>2, <2>5, OneInput(m, m2, r, k, b) DEF OneInput
  <2> QED BY <2>1, <2>4, <2>5, <2>6 DEF RS
<1> QED BY <1>2, <1>3, <1>5, <1>6 DEF RS

\* Input k needs no link.
LEMMA ReadyInput ==
  ASSUME NEW m, CoreOK(m), NEW m2, Same(m, m2), SameState(m, m2),
         NEW r, r.q \in Queues, r.i \in Slot(r.q), NEW k \in 1..3,
         SameChainsIn(m, m2), OneInput(m, m2, r, k, TRUE),
         ChainsOK(m, {}, Unlinked(r, k))
  PROVE  ChainsOK(m2, {}, Unlinked(r, k + 1))
<1>1. /\ ChainsInFlight(m, {}) /\ ChainLinks(m, Unlinked(r, k)) /\ LinkedOnce(m)
      /\ AllLinked(m, Unlinked(r, k))
  BY ChainsParts
<1>2. \A q \in Queues : \A i \in Slot(q) : \A d \in 1..2 : Chain(m2, q, i, d) = Chain(m, q, i, d)
  BY DEF SameChainsIn
<1>3. \A q, i : In(m2, q, i) <=> In(m, q, i)
  BY SameIn DEF Same
<1>4. ChainsInFlight(m2, {})
  <2>1. \A q \in Queues : \A i \in Slot(q) :
          /\ m2.station[q][i].onames = m.station[q][i].onames
          /\ m2.station[q][i].completed = m.station[q][i].completed
    BY DEF Same, SameStatic, SameState
  <2> QED BY <1>1, <1>2, <1>3, <2>1 DEF ChainsInFlight
<1>5. ChainLinks(m2, Unlinked(r, k + 1))
  <2>1. ASSUME NEW q \in Queues, NEW i \in Slot(q), NEW d \in 1..2,
               NEW h \in 1..Len(Chain(m2, q, i, d))
        PROVE  LET e == Chain(m2, q, i, d)[h] IN
               /\ LinkOK(m2, e) /\ e.x \in 1..3
               /\ RSLINK_VALID(m2, e) =>
                    /\ ~RS(m2, e).idep_ready[e.x] /\ <<e.q, e.i, e.x>> \notin Unlinked(r, k + 1)
                    /\ m2.station[q][i].seq < RS(m2, e).seq
    <3>1. PICK e : e = Chain(m2, q, i, d)[h]
      OBVIOUS
    <3>2. h \in 1..Len(Chain(m, q, i, d)) /\ e = Chain(m, q, i, d)[h]
      BY <1>2, <3>1
    <3>3. /\ LinkOK(m2, e) /\ e.x \in 1..3
          /\ RSLINK_VALID(m2, e) =>
               /\ ~RS(m2, e).idep_ready[e.x] /\ <<e.q, e.i, e.x>> \notin Unlinked(r, k + 1)
               /\ m2.station[q][i].seq < RS(m2, e).seq
      BY <1>1, <3>2, OldLink
    <3> QED BY ONLY <3>1, <3>3
  <2> QED BY ONLY <2>1 DEF ChainLinks
<1>6. LinkedOnce(m2)
  BY <1>1, <1>2, SameOnce
<1>7. AllLinked(m2, Unlinked(r, k + 1))
  <2>1. ASSUME NEW q \in Queues, NEW i \in Slot(q), NEW o \in 1..3, Linked(m, q, i, o)
        PROVE  Linked(m2, q, i, o)
    BY <1>2, <2>1, ChainType, SameAlike, SameLink DEF Linked
  <2>2. ASSUME NEW q \in Queues, NEW i \in Slot(q), NEW o \in 1..3,
               In(m2, q, i), ~m2.station[q][i].idep_ready[o],
               <<q, i, o>> \notin Unlinked(r, k + 1)
        PROVE  Linked(m2, q, i, o)
    <3>1. ~(q = r.q /\ i = r.i /\ o = k) /\ ~m.station[q][i].idep_ready[o]
      <4>1. m2.station[r.q][r.i].idep_ready[k] = TRUE
        BY ThisInput
      <4>2. ~(q = r.q /\ i = r.i /\ o = k)
        BY ONLY <2>2, <4>1
      <4>3. m2.station[q][i].idep_ready[o] = m.station[q][i].idep_ready[o]
        BY ONLY <4>2, OneInput(m, m2, r, k, TRUE), q \in Queues, i \in Slot(q), o \in 1..3 DEF OneInput
      <4> QED BY ONLY <2>2, <4>2, <4>3
    <3>2. k \in 1..4 /\ k + 1 \in 1..4
      OBVIOUS
    <3>3. <<q, i, o>> \notin Unlinked(r, k)
      <4>1. PICK j \in 1..4 : j = k + 1
        BY <3>2
      <4>2. <<q, i, o>> \notin Unlinked(r, j)
        BY ONLY <2>2, <4>1
      <4>3. ~(q = r.q /\ i = r.i /\ o >= j)
        BY ONLY <4>2, UnlinkedIs, j \in 1..4, o \in 1..3
      <4>4. ~(q = r.q /\ i = r.i /\ o >= k)
        BY ONLY <3>1, <4>1, <4>3, o \in 1..3, k \in 1..3
      <4> QED BY ONLY <3>2, <4>4, UnlinkedIs, o \in 1..3
    <3>4. Linked(m, q, i, o)
      BY <1>1, <1>3, <2>2, <3>1, <3>3 DEF AllLinked
    <3> QED BY <2>1, <3>4
  <2> QED BY ONLY <2>2 DEF AllLinked
<1> QED BY <1>4, <1>5, <1>6, <1>7, ChainsParts

\* The chain of output v.odep of slot v.i has a new first link.
Prepended(m, m2, v, l) ==
  \A q \in Queues : \A i \in Slot(q) : \A d \in 1..2 :
    Chain(m2, q, i, d) = IF q = v.q /\ i = v.i /\ d = v.odep THEN <<l>> \o Chain(m, q, i, d)
                                                             ELSE Chain(m, q, i, d)

\* The elements of a list with one more in front.
LEMMA ConsElements ==
  ASSUME NEW S, NEW s \in Seq(S), NEW e \in S
  PROVE  /\ Len(<<e>> \o s) = Len(s) + 1 /\ (<<e>> \o s)[1] = e
         /\ \A h \in 1..Len(s) : (<<e>> \o s)[h + 1] = s[h]
OBVIOUS

\* Where a link of the new chains comes from.
NewLink(v, q, i, d, h) == q = v.q /\ i = v.i /\ d = v.odep /\ h = 1
OldPlace(v, q, i, d, h) == IF q = v.q /\ i = v.i /\ d = v.odep THEN h - 1 ELSE h

\* A link of the longer chain is the new one, or was there before.
LEMMA PrependedLinks ==
  ASSUME NEW m, CoreOK(m), NEW m2, NEW v, NEW l \in Links, Prepended(m, m2, v, l),
         NEW q \in Queues, NEW i \in Slot(q), NEW d \in 1..2,
         NEW h \in 1..Len(Chain(m2, q, i, d))
  PROVE  /\ h \in Nat /\ h >= 1
         /\ NewLink(v, q, i, d, h) => Chain(m2, q, i, d)[h] = l
         /\ ~NewLink(v, q, i, d, h) =>
              /\ OldPlace(v, q, i, d, h) \in 1..Len(Chain(m, q, i, d))
              /\ Chain(m2, q, i, d)[h] = Chain(m, q, i, d)[OldPlace(v, q, i, d, h)]
<1>1. PICK s : s = Chain(m, q, i, d)
  OBVIOUS
<1>2. PICK t : t = Chain(m2, q, i, d)
  OBVIOUS
<1>3. s \in Seq(Links)
  BY <1>1, ChainType
<1>4. h \in 1..Len(t)
  BY <1>2
<1>5. CASE q = v.q /\ i = v.i /\ d = v.odep
  <2>1. t = <<l>> \o s
    BY <1>1, <1>2, <1>5 DEF Prepended
  <2>2. /\ Len(t) = Len(s) + 1 /\ t[1] = l
        /\ \A g \in 1..Len(s) : t[g + 1] = s[g]
    BY ONLY <1>3, <2>1, ConsElements, l \in Links
  <2>3. Len(s) \in Nat
    BY <1>3
  <2>4. h # 1 => h - 1 \in 1..Len(s) /\ t[h] = s[h - 1]
    BY ONLY <1>4, <2>2, <2>3
  <2>5. h \in Nat /\ h >= 1
    BY ONLY <1>4, <2>2, <2>3
  <2>6. OldPlace(v, q, i, d, h) = h - 1
    BY <1>5 DEF OldPlace
  <2>7. NewLink(v, q, i, d, h) <=> h = 1
    BY <1>5 DEF NewLink
  <2> QED BY ONLY <1>1, <1>2, <2>2, <2>4, <2>5, <2>6, <2>7
<1>6. CASE ~(q = v.q /\ i = v.i /\ d = v.odep)
  <2>1. t = s
    BY <1>1, <1>2, <1>6 DEF Prepended
  <2>2. OldPlace(v, q, i, d, h) = h /\ ~NewLink(v, q, i, d, h)
    BY <1>6 DEF OldPlace, NewLink
  <2>3. h \in Nat /\ h >= 1
    BY ONLY <1>3, <1>4, <2>1
  <2> QED BY ONLY <1>1, <1>2, <1>4, <2>1, <2>2, <2>3
<1> QED BY <1>5, <1>6

\* Every old link is still there.
LEMMA PrependedKeeps ==
  ASSUME NEW m, CoreOK(m), NEW m2, NEW v, NEW l \in Links, Prepended(m, m2, v, l),
         NEW q \in Queues, NEW i \in Slot(q), NEW d \in 1..2,
         NEW h \in 1..Len(Chain(m, q, i, d))
  PROVE  \E g \in 1..Len(Chain(m2, q, i, d)) : Chain(m2, q, i, d)[g] = Chain(m, q, i, d)[h]
<1>1. PICK s : s = Chain(m, q, i, d)
  OBVIOUS
<1>2. PICK t : t = Chain(m2, q, i, d)
  OBVIOUS
<1>3. s \in Seq(Links)
  BY <1>1, ChainType
<1>4. h \in 1..Len(s)
  BY <1>1
<1>5. CASE q = v.q /\ i = v.i /\ d = v.odep
  <2>1. t = <<l>> \o s
    BY <1>1, <1>2, <1>5 DEF Prepended
  <2>2. /\ Len(t) = Len(s) + 1 /\ t[1] = l
        /\ \A g \in 1..Len(s) : t[g + 1] = s[g]
    BY ONLY <1>3, <2>1, ConsElements, l \in Links
  <2>3. Len(s) \in Nat
    BY <1>3
  <2>4. h + 1 \in 1..Len(t) /\ t[h + 1] = s[h]
    BY ONLY <1>4, <2>2, <2>3
  <2> QED BY ONLY <1>1, <1>2, <2>4
<1>6. CASE ~(q = v.q /\ i = v.i /\ d = v.odep)
  <2>1. t = s
    BY <1>1, <1>2, <1>6 DEF Prepended
  <2> QED BY ONLY <1>1, <1>2, <1>4, <2>1
<1> QED BY <1>5, <1>6

\* l names input k of r as it is now, and v is an older creator.
LinkFor(m, l, r, k) ==
  l.q = r.q /\ l.i = r.i /\ l.x = k /\ l.tag = m.station[r.q][r.i].tag

OlderCreator(m, v, r) ==
  /\ v.q \in Queues /\ v.i \in Slot(v.q) /\ v.odep \in 1..2
  /\ In(m, v.q, v.i) /\ ~m.station[v.q][v.i].completed
  /\ m.station[v.q][v.i].onames[v.odep] # NA
  /\ m.station[v.q][v.i].seq < m.station[r.q][r.i].seq
  /\ ~(v.q = r.q /\ v.i = r.i)

\* Input k waits for v.
LEMMA WaitingInput ==
  ASSUME NEW m, CoreOK(m), NEW m2, CoreOK(m2), Same(m, m2), SameState(m, m2),
         NEW r, r.q \in Queues, r.i \in Slot(r.q), In(m, r.q, r.i), NEW k \in 1..3,
         NEW v, OlderCreator(m, v, r), NEW l \in Links, LinkFor(m, l, r, k),
         Prepended(m, m2, v, l), OneInput(m, m2, r, k, FALSE),
         ChainsOK(m, {}, Unlinked(r, k))
  PROVE  ChainsOK(m2, {}, Unlinked(r, k + 1))
<1>1. /\ ChainsInFlight(m, {}) /\ ChainLinks(m, Unlinked(r, k)) /\ LinkedOnce(m)
      /\ AllLinked(m, Unlinked(r, k))
  BY ChainsParts
<1>2. v.q \in Queues /\ v.i \in Slot(v.q) /\ v.odep \in 1..2
  BY DEF OlderCreator
<1>3. \A q, i : In(m2, q, i) <=> In(m, q, i)
  BY SameIn DEF Same
<1>4. \A q \in Queues : \A i \in Slot(q) :
        /\ m2.station[q][i].seq = m.station[q][i].seq
        /\ m2.station[q][i].tag = m.station[q][i].tag
        /\ m2.station[q][i].onames = m.station[q][i].onames
        /\ m2.station[q][i].completed = m.station[q][i].completed
  BY DEF Same, SameStatic, SameState
<1>5. ChainsInFlight(m2, {})
  <2>1. ASSUME NEW q \in Queues, NEW i \in Slot(q), NEW d \in 1..2,
               Chain(m2, q, i, d) # <<>>
        PROVE  /\ In(m2, q, i) /\ m2.station[q][i].onames[d] # NA
               /\ m2.station[q][i].completed => <<q, i, d>> \in {}
    <3>1. CASE q = v.q /\ i = v.i /\ d = v.odep
      BY ONLY <1>2, <1>3, <1>4, <3>1, OlderCreator(m, v, r) DEF OlderCreator
    <3>2. CASE ~(q = v.q /\ i = v.i /\ d = v.odep)
      <4>1. Chain(m, q, i, d) # <<>>
        BY <2>1, <3>2 DEF Prepended
      <4>2. /\ In(m, q, i) /\ m.station[q][i].onames[d] # NA
            /\ m.station[q][i].completed => <<q, i, d>> \in {}
        BY <1>1, <4>1 DEF ChainsInFlight
      <4> QED BY ONLY <1>3, <1>4, <4>2, q \in Queues, i \in Slot(q)
    <3> QED BY <3>1, <3>2
  <2> QED BY ONLY <2>1 DEF ChainsInFlight
<1>6. /\ l.q = r.q /\ l.i = r.i /\ l.x = k /\ l.tag = m.station[r.q][r.i].tag
      /\ m2.station[r.q][r.i].idep_ready[k] = FALSE
  <2>1. l.q = r.q /\ l.i = r.i /\ l.x = k /\ l.tag = m.station[r.q][r.i].tag
    BY ONLY LinkFor(m, l, r, k) DEF LinkFor
  <2>2. m2.station[r.q][r.i].idep_ready[k] = FALSE
    BY ONLY OneInput(m, m2, r, k, FALSE), r.q \in Queues, r.i \in Slot(r.q), k \in 1..3
       DEF OneInput
  <2> QED BY ONLY <2>1, <2>2
<1>7. k \in 1..4 /\ k + 1 \in 1..4 /\ <<r.q, r.i, k>> \notin Unlinked(r, k + 1)
  <2>1. PICK j \in 1..4 : j = k + 1
    OBVIOUS
  <2>2. ~(k >= j)
    BY <2>1
  <2>3. <<r.q, r.i, k>> \notin Unlinked(r, j)
    BY ONLY <2>2, UnlinkedIs, j \in 1..4, k \in 1..3
  <2> QED BY <2>1, <2>3
<1>8. ChainLinks(m2, Unlinked(r, k + 1))
  <2>1. ASSUME NEW q \in Queues, NEW i \in Slot(q), NEW d \in 1..2,
               NEW h \in 1..Len(Chain(m2, q, i, d))
        PROVE  LET e == Chain(m2, q, i, d)[h] IN
               /\ LinkOK(m2, e) /\ e.x \in 1..3
               /\ RSLINK_VALID(m2, e) =>
                    /\ ~RS(m2, e).idep_ready[e.x] /\ <<e.q, e.i, e.x>> \notin Unlinked(r, k + 1)
                    /\ m2.station[q][i].seq < RS(m2, e).seq
    <3>1. PICK e : e = Chain(m2, q, i, d)[h]
      OBVIOUS
    <3>2. CASE NewLink(v, q, i, d, h)
      <4>1. e = l
        BY <3>1, <3>2, PrependedLinks
      <4>2. q = v.q /\ i = v.i
        BY <3>2 DEF NewLink
      <4>3. LinkOK(m2, e)
        <5>1. e.tag = m2.station[e.q][e.i].tag /\ In(m2, e.q, e.i)
          BY <1>3, <1>4, <1>6, <4>1
        <5>2. e.tag \in Nat
          BY <4>1 DEF Links
        <5> QED BY ONLY <5>1, <5>2 DEF LinkOK
      <4>4. e.x \in 1..3 /\ <<e.q, e.i, e.x>> \notin Unlinked(r, k + 1)
        BY ONLY <1>6, <1>7, <4>1, k \in 1..3
      <4>5. ~RS(m2, e).idep_ready[e.x]
        BY ONLY <1>6, <4>1 DEF RS
      <4>6. m2.station[q][i].seq < RS(m2, e).seq
        <5>1. m.station[v.q][v.i].seq < m.station[r.q][r.i].seq
          BY DEF OlderCreator
        <5> QED BY ONLY <1>4, <1>6, <4>1, <4>2, <5>1, r.q \in Queues, r.i \in Slot(r.q),
                        q \in Queues, i \in Slot(q) DEF RS
      <4> QED BY ONLY <3>1, <4>3, <4>4, <4>5, <4>6
    <3>3. CASE ~NewLink(v, q, i, d, h)
      <4>1. PICK g \in 1..Len(Chain(m, q, i, d)) : e = Chain(m, q, i, d)[g]
        BY <3>1, <3>3, PrependedLinks
      <4>2. /\ LinkOK(m2, e) /\ e.x \in 1..3
            /\ RSLINK_VALID(m2, e) =>
                 /\ ~RS(m2, e).idep_ready[e.x] /\ <<e.q, e.i, e.x>> \notin Unlinked(r, k + 1)
                 /\ m2.station[q][i].seq < RS(m2, e).seq
        BY <1>1, <4>1, OldLink
      <4> QED BY ONLY <3>1, <4>2
    <3> QED BY <3>2, <3>3
  <2> QED BY ONLY <2>1 DEF ChainLinks
<1>9. ASSUME NEW q \in Queues, NEW i \in Slot(q), NEW d \in 1..2,
             NEW h \in 1..Len(Chain(m2, q, i, d)), ~NewLink(v, q, i, d, h),
             SameTarget(l, Chain(m2, q, i, d)[h]), l.x = Chain(m2, q, i, d)[h].x
      PROVE  FALSE
  <2>1. PICK e : e = Chain(m2, q, i, d)[h]
    OBVIOUS
  <2>2. PICK g \in 1..Len(Chain(m, q, i, d)) : e = Chain(m, q, i, d)[g]
    BY <1>9, <2>1, PrependedLinks
  <2>3. RSLINK_VALID(m2, e) => ~(e.q = r.q /\ e.i = r.i /\ e.x = k)
    BY <1>1, <2>2, OldLink, ZenonT(40)
  <2>4. e.q = r.q /\ e.i = r.i /\ e.x = k /\ e.tag = m.station[r.q][r.i].tag
    BY ONLY <1>6, <1>9, <2>1 DEF SameTarget
  <2>5. RSLINK_VALID(m2, e)
    BY <1>4, <2>4 DEF RSLINK_VALID, RS
  <2> QED BY ONLY <2>3, <2>4, <2>5
<1>10. LinkedOnce(m2)
  <2>0. ASSUME NEW q \in Queues, NEW p \in Queues, NEW i \in Slot(q), NEW j \in Slot(p),
               NEW d \in 1..2, NEW e \in 1..2,
               NEW g \in 1..Len(Chain(m2, q, i, d)), NEW h \in 1..Len(Chain(m2, p, j, e)),
               SameTarget(Chain(m2, q, i, d)[g], Chain(m2, p, j, e)[h]),
               Chain(m2, q, i, d)[g].x = Chain(m2, p, j, e)[h].x
        PROVE  q = p /\ i = j /\ d = e /\ g = h
    <3>1. CASE NewLink(v, q, i, d, g) /\ NewLink(v, p, j, e, h)
      BY ONLY <3>1 DEF NewLink
    <3>2. CASE NewLink(v, q, i, d, g) /\ ~NewLink(v, p, j, e, h)
      <4>1. Chain(m2, q, i, d)[g] = l
        BY <3>2, PrependedLinks
      <4>2. SameTarget(l, Chain(m2, p, j, e)[h]) /\ l.x = Chain(m2, p, j, e)[h].x
        BY ONLY <2>0, <4>1
      <4> QED BY <1>9, <3>2, <4>2
    <3>3. CASE ~NewLink(v, q, i, d, g) /\ NewLink(v, p, j, e, h)
      <4>1. Chain(m2, p, j, e)[h] = l
        BY <3>3, PrependedLinks
      <4>2. SameTarget(l, Chain(m2, q, i, d)[g]) /\ l.x = Chain(m2, q, i, d)[g].x
        BY ONLY <2>0, <4>1 DEF SameTarget
      <4> QED BY <1>9, <3>3, <4>2
    <3>4. CASE ~NewLink(v, q, i, d, g) /\ ~NewLink(v, p, j, e, h)
      <4>1. PICK g2 \in 1..Len(Chain(m, q, i, d)) :
              g2 = OldPlace(v, q, i, d, g) /\ Chain(m2, q, i, d)[g] = Chain(m, q, i, d)[g2]
        <5>1. ~NewLink(v, q, i, d, g)
          BY <3>4
        <5>2. OldPlace(v, q, i, d, g) \in 1..Len(Chain(m, q, i, d))
          BY ONLY <5>1, PrependedLinks, CoreOK(m), l \in Links, Prepended(m, m2, v, l),
                  q \in Queues, i \in Slot(q), d \in 1..2, g \in 1..Len(Chain(m2, q, i, d))
        <5>3. Chain(m2, q, i, d)[g] = Chain(m, q, i, d)[OldPlace(v, q, i, d, g)]
          BY ONLY <5>1, PrependedLinks, CoreOK(m), l \in Links, Prepended(m, m2, v, l),
                  q \in Queues, i \in Slot(q), d \in 1..2, g \in 1..Len(Chain(m2, q, i, d))
        <5> QED BY ONLY <5>2, <5>3
      <4>2. PICK h2 \in 1..Len(Chain(m, p, j, e)) :
              h2 = OldPlace(v, p, j, e, h) /\ Chain(m2, p, j, e)[h] = Chain(m, p, j, e)[h2]
        BY <3>4, PrependedLinks, SMTT(30)
      <4>3. /\ SameTarget(Chain(m, q, i, d)[g2], Chain(m, p, j, e)[h2])
            /\ Chain(m, q, i, d)[g2].x = Chain(m, p, j, e)[h2].x
        BY ONLY <2>0, <4>1, <4>2
      <4>4. LinkedOnce(m)
        BY <1>1
      <4>5. q = p /\ i = j /\ d = e /\ g2 = h2
        BY ONLY <4>3, <4>4, OnceElim, q \in Queues, p \in Queues, i \in Slot(q), j \in Slot(p),
           d \in 1..2, e \in 1..2, g2 \in 1..Len(Chain(m, q, i, d)),
           h2 \in 1..Len(Chain(m, p, j, e))
      <4>6. g \in Nat /\ h \in Nat
        BY PrependedLinks
      <4>7. OldPlace(v, q, i, d, g) = OldPlace(v, q, i, d, h)
        BY ONLY <4>1, <4>2, <4>5
      <4>8. g = h
        BY ONLY <4>6, <4>7 DEF OldPlace
      <4> QED BY ONLY <4>5, <4>8
    <3> QED BY <3>1, <3>2, <3>3, <3>4
  <2> QED BY ONLY <2>0 DEF LinkedOnce
<1>11. AllLinked(m2, Unlinked(r, k + 1))
  <2>1. ASSUME NEW q \in Queues, NEW i \in Slot(q), NEW o \in 1..3, Linked(m, q, i, o)
        PROVE  Linked(m2, q, i, o)
    <3>a. PICK p \in Queues : \E j \in Slot(p) : \E d \in 1..2 :
            \E h \in 1..Len(Chain(m, p, j, d)) :
              Targets(m, Chain(m, p, j, d)[h], q, i) /\ Chain(m, p, j, d)[h].x = o
      BY <2>1 DEF Linked
    <3>b. PICK j \in Slot(p), d \in 1..2 : \E h \in 1..Len(Chain(m, p, j, d)) :
            Targets(m, Chain(m, p, j, d)[h], q, i) /\ Chain(m, p, j, d)[h].x = o
      BY <3>a
    <3>2. PICK h \in 1..Len(Chain(m, p, j, d)) :
            Targets(m, Chain(m, p, j, d)[h], q, i) /\ Chain(m, p, j, d)[h].x = o
      BY <3>b
    <3>4. PICK g \in 1..Len(Chain(m2, p, j, d)) : Chain(m2, p, j, d)[g] = Chain(m, p, j, d)[h]
      BY PrependedKeeps
    <3>5. Targets(m2, Chain(m2, p, j, d)[g], q, i) /\ Chain(m2, p, j, d)[g].x = o
      BY <1>4, <3>2, <3>4 DEF Targets
    <3> QED BY <3>5 DEF Linked
  <2>2. Linked(m2, r.q, r.i, k)
    <3>1. PICK s : s = Chain(m, v.q, v.i, v.odep)
      OBVIOUS
    <3>2. Chain(m2, v.q, v.i, v.odep) = <<l>> \o s
      BY <1>2, <3>1 DEF Prepended
    <3>3. s \in Seq(Links)
      BY <1>2, <3>1, ChainType
    <3>4. 1 \in 1..Len(<<l>> \o s) /\ (<<l>> \o s)[1] = l
      BY ONLY <3>3, ConsElements, l \in Links
    <3>5. Targets(m2, l, r.q, r.i)
      BY <1>4, <1>6 DEF Targets
    <3>6. 1 \in 1..Len(Chain(m2, v.q, v.i, v.odep)) /\ Chain(m2, v.q, v.i, v.odep)[1] = l
      BY ONLY <3>2, <3>4
    <3> QED BY ONLY <1>2, <1>6, <3>5, <3>6 DEF Linked
  <2>3. ASSUME NEW q \in Queues, NEW i \in Slot(q), NEW o \in 1..3,
               In(m2, q, i), ~m2.station[q][i].idep_ready[o],
               <<q, i, o>> \notin Unlinked(r, k + 1)
        PROVE  Linked(m2, q, i, o)
    <3>1. CASE q = r.q /\ i = r.i /\ o = k
      BY ONLY <2>2, <3>1
    <3>2. CASE ~(q = r.q /\ i = r.i /\ o = k)
      <4>0. m2.station[q][i].idep_ready[o] = m.station[q][i].idep_ready[o]
        BY ONLY <3>2, OneInput(m, m2, r, k, FALSE), q \in Queues, i \in Slot(q), o \in 1..3
           DEF OneInput
      <4>1. PICK j \in 1..4 : j = k + 1
        BY <1>7
      <4>2. <<q, i, o>> \notin Unlinked(r, j)
        BY ONLY <2>3, <4>1
      <4>3. ~(q = r.q /\ i = r.i /\ o >= j)
        BY ONLY <4>2, UnlinkedIs, j \in 1..4, o \in 1..3
      <4>4. ~(q = r.q /\ i = r.i /\ o >= k)
        BY ONLY <3>2, <4>1, <4>3, o \in 1..3, k \in 1..3
      <4>5. <<q, i, o>> \notin Unlinked(r, k)
        BY ONLY <1>7, <4>4, UnlinkedIs, o \in 1..3
      <4>6. ~m.station[q][i].idep_ready[o] /\ In(m, q, i)
        BY ONLY <1>3, <2>3, <4>0
      <4>7. Linked(m, q, i, o)
        BY <1>1, <4>5, <4>6 DEF AllLinked
      <4> QED BY <2>1, <4>7
    <3> QED BY <3>1, <3>2
  <2> QED BY ONLY <2>3 DEF AllLinked
<1> QED BY <1>5, <1>8, <1>10, <1>11, ChainsParts

\* Linking r to its producers leaves everything alone but the chains of older
\* operations and the inputs of r.
Joins(m, m2, r) ==
  /\ Same(m, m2) /\ SameState(m, m2) /\ SameVectors(m, m2) /\ SameLists(m, m2)
  /\ \A q \in Queues : \A i \in Slot(q) :
       /\ m2.station[q][i].queued = m.station[q][i].queued
       /\ q # r.q \/ i # r.i => m2.station[q][i].idep_ready = m.station[q][i].idep_ready
  /\ m2.station[r.q][r.i].odep_list = m.station[r.q][r.i].odep_list

\* Two steps of linking are one.
LEMMA JoinsTrans ==
  ASSUME NEW m, NEW m1, NEW m2, NEW r, r.q \in Queues, r.i \in Slot(r.q),
         Joins(m, m1, r), Joins(m1, m2, r)
  PROVE  Joins(m, m2, r)
<1>1. Same(m, m2)
  BY SameTrans DEF Joins
<1>2. SameState(m, m2) /\ SameVectors(m, m2) /\ SameLists(m, m2)
  BY DEF Joins, SameState, SameVectors, SameLists
<1>3. ASSUME NEW q \in Queues, NEW i \in Slot(q)
      PROVE  /\ m2.station[q][i].queued = m.station[q][i].queued
             /\ q # r.q \/ i # r.i => m2.station[q][i].idep_ready = m.station[q][i].idep_ready
  BY DEF Joins
<1>4. m2.station[r.q][r.i].odep_list = m.station[r.q][r.i].odep_list
  BY DEF Joins
<1> QED BY ONLY <1>1, <1>2, <1>3, <1>4 DEF Joins

\* A station whose input k is set to b.
InputSet(a, s, k, b) ==
  \A o \in 1..3 : s.idep_ready[o] = IF o = k THEN b ELSE a.idep_ready[o]

\* What setting an input does to a station.
LEMMA InputIs ==
  ASSUME NEW a \in Station, NEW k \in 1..3, NEW b \in BOOLEAN,
         NEW s, s = [a EXCEPT !.idep_ready[k] = b]
  PROVE  /\ SameStatic(a, s) /\ s.issued = a.issued /\ s.completed = a.completed
         /\ s.queued = a.queued /\ s.odep_list = a.odep_list
         /\ InputSet(a, s, k, b)
<1>1. SameStatic(a, s)
  BY DEF Station, SameStatic
<1>2. s.issued = a.issued /\ s.completed = a.completed /\ s.queued = a.queued
  BY DEF Station
<1>3. s.odep_list = a.odep_list
  BY DEF Station
<1>4. \A o \in 1..3 : s.idep_ready[o] = IF o = k THEN b ELSE a.idep_ready[o]
  <2>1. a.idep_ready \in [1..3 -> BOOLEAN]
    BY StationFields
  <2>2. s.idep_ready = [a.idep_ready EXCEPT ![k] = b]
    BY DEF Station
  <2> QED BY <2>1, <2>2
<1>5. InputSet(a, s, k, b)
  BY ONLY <1>4 DEF InputSet
<1> QED BY <1>1, <1>2, <1>3, <1>5

\* What it does to the core.
LEMMA PutInput ==
  ASSUME NEW m, CoreOK(m), NEW m2, SameRing(m, m2), SameVectors(m, m2), SameLists(m, m2),
         NEW r, r.q \in Queues, r.i \in Slot(r.q), NEW k \in 1..3, NEW b \in BOOLEAN,
         Put(m, m2, r.q, r.i, [m.station[r.q][r.i] EXCEPT !.idep_ready[k] = b])
  PROVE  Joins(m, m2, r) /\ OneInput(m, m2, r, k, b) /\ SameChainsIn(m, m2)
<1>1. PICK a : a = m.station[r.q][r.i]
  OBVIOUS
<1>2. PICK s : s = [a EXCEPT !.idep_ready[k] = b]
  OBVIOUS
<1>3. a \in Station
  BY <1>1, StationType
<1>4. /\ SameStatic(a, s) /\ s.issued = a.issued /\ s.completed = a.completed
      /\ s.queued = a.queued /\ s.odep_list = a.odep_list
      /\ InputSet(a, s, k, b)
  BY ONLY <1>2, <1>3, InputIs, k \in 1..3, b \in BOOLEAN
<1>5. Put(m, m2, r.q, r.i, s)
  BY <1>1, <1>2
<1>6. Same(m, m2)
  BY <1>1, <1>4, <1>5, PutSame
<1>7. /\ m2.station[r.q][r.i] = s
      /\ \A q \in Queues : \A i \in Slot(q) : q # r.q \/ i # r.i => m2.station[q][i] = m.station[q][i]
  BY ONLY <1>5, r.q \in Queues, r.i \in Slot(r.q) DEF Put
<1>8. ASSUME NEW q \in Queues, NEW i \in Slot(q)
      PROVE  /\ m2.station[q][i].issued = m.station[q][i].issued
             /\ m2.station[q][i].completed = m.station[q][i].completed
             /\ m2.station[q][i].queued = m.station[q][i].queued
             /\ m2.station[q][i].odep_list = m.station[q][i].odep_list
             /\ q # r.q \/ i # r.i => m2.station[q][i].idep_ready = m.station[q][i].idep_ready
             /\ \A o \in 1..3 :
                  m2.station[q][i].idep_ready[o] = IF q = r.q /\ i = r.i /\ o = k THEN b
                                                   ELSE m.station[q][i].idep_ready[o]
  <2>1. CASE q = r.q /\ i = r.i
    BY ONLY <1>1, <1>4, <1>7, <2>1 DEF InputSet
  <2>2. CASE q # r.q \/ i # r.i
    <3>1. m2.station[q][i] = m.station[q][i]
      BY <1>7, <2>2
    <3> QED BY ONLY <2>2, <3>1
  <2> QED BY <2>1, <2>2
<1>9. SameState(m, m2)
  BY ONLY <1>8 DEF SameState
<1>10. OneInput(m, m2, r, k, b)
  BY ONLY <1>8 DEF OneInput
<1>11. SameChainsIn(m, m2)
  BY ONLY <1>8 DEF SameChainsIn, Chain
<1>12. Joins(m, m2, r)
  BY ONLY <1>6, <1>8, <1>9, SameVectors(m, m2), SameLists(m, m2), r.q \in Queues,
          r.i \in Slot(r.q) DEF Joins
<1> QED BY <1>10, <1>11, <1>12

\* A station with a new link on the chain of output d.
LEMMA ChainIs ==
  ASSUME NEW a \in Station, NEW d \in 1..2, NEW t, NEW s, s = [a EXCEPT !.odep_list[d] = t]
  PROVE  /\ SameStatic(a, s) /\ s.issued = a.issued /\ s.completed = a.completed
         /\ s.queued = a.queued /\ s.idep_ready = a.idep_ready
         /\ \A o \in 1..2 : s.odep_list[o] = IF o = d THEN t ELSE a.odep_list[o]
<1>1. SameStatic(a, s)
  BY DEF Station, SameStatic
<1>2. s.issued = a.issued /\ s.completed = a.completed /\ s.queued = a.queued
  BY DEF Station
<1>3. s.idep_ready = a.idep_ready
  BY DEF Station
<1>4. \A o \in 1..2 : s.odep_list[o] = IF o = d THEN t ELSE a.odep_list[o]
  <2>1. a.odep_list \in [1..2 -> Seq(Links)]
    BY StationFields
  <2>2. s.odep_list = [a.odep_list EXCEPT ![d] = t]
    BY DEF Station
  <2> QED BY <2>1, <2>2
<1> QED BY <1>1, <1>2, <1>3, <1>4

SameInputs(m, m2) ==
  \A q \in Queues : \A i \in Slot(q) :
    m2.station[q][i].idep_ready = m.station[q][i].idep_ready

\* Putting a link on a chain of another operation changes nothing else.
LEMMA PutChain ==
  ASSUME NEW m, CoreOK(m), NEW m2, SameRing(m, m2), SameVectors(m, m2), SameLists(m, m2),
         NEW r, r.q \in Queues, r.i \in Slot(r.q),
         NEW v, v.q \in Queues, v.i \in Slot(v.q), v.odep \in 1..2,
         ~(v.q = r.q /\ v.i = r.i), NEW l,
         Put(m, m2, v.q, v.i, [m.station[v.q][v.i] EXCEPT !.odep_list[v.odep] =
                                    <<l>> \o m.station[v.q][v.i].odep_list[v.odep]])
  PROVE  Joins(m, m2, r) /\ Prepended(m, m2, v, l) /\ SameInputs(m, m2)
<1>1. PICK a : a = m.station[v.q][v.i]
  OBVIOUS
<1>2. PICK d \in 1..2 : d = v.odep
  OBVIOUS
<1>3. PICK t : t = <<l>> \o a.odep_list[d]
  OBVIOUS
<1>4. PICK s : s = [a EXCEPT !.odep_list[d] = t]
  OBVIOUS
<1>5. a \in Station
  BY <1>1, StationType
<1>6. /\ SameStatic(a, s) /\ s.issued = a.issued /\ s.completed = a.completed
      /\ s.queued = a.queued /\ s.idep_ready = a.idep_ready
      /\ \A o \in 1..2 : s.odep_list[o] = IF o = d THEN t ELSE a.odep_list[o]
  BY ONLY <1>4, <1>5, ChainIs, d \in 1..2, SMTT(30)
<1>7. Put(m, m2, v.q, v.i, s)
  BY <1>1, <1>2, <1>3, <1>4
<1>8. Same(m, m2)
  BY <1>1, <1>6, <1>7, PutSame
<1>9. /\ m2.station[v.q][v.i] = s
      /\ \A q \in Queues : \A i \in Slot(q) : q # v.q \/ i # v.i => m2.station[q][i] = m.station[q][i]
  BY ONLY <1>7, v.q \in Queues, v.i \in Slot(v.q) DEF Put
<1>10. ASSUME NEW q \in Queues, NEW i \in Slot(q)
      PROVE  /\ m2.station[q][i].issued = m.station[q][i].issued
             /\ m2.station[q][i].completed = m.station[q][i].completed
             /\ m2.station[q][i].queued = m.station[q][i].queued
             /\ m2.station[q][i].idep_ready = m.station[q][i].idep_ready
             /\ q # v.q \/ i # v.i => m2.station[q][i].odep_list = m.station[q][i].odep_list
             /\ \A o \in 1..2 :
                  m2.station[q][i].odep_list[o] =
                    IF q = v.q /\ i = v.i /\ o = v.odep THEN <<l>> \o m.station[q][i].odep_list[o]
                                                        ELSE m.station[q][i].odep_list[o]
  <2>1. CASE q = v.q /\ i = v.i
    BY ONLY <1>1, <1>2, <1>3, <1>6, <1>9, <2>1
  <2>2. CASE q # v.q \/ i # v.i
    <3>1. m2.station[q][i] = m.station[q][i]
      BY <1>9, <2>2
    <3> QED BY ONLY <2>2, <3>1
  <2> QED BY <2>1, <2>2
<1>11. SameState(m, m2)
  BY ONLY <1>10 DEF SameState
<1>12. SameInputs(m, m2)
  BY ONLY <1>10 DEF SameInputs
<1>13. Prepended(m, m2, v, l)
  BY ONLY <1>10 DEF Prepended, Chain
<1>14. Joins(m, m2, r)
  BY ONLY <1>8, <1>10, <1>11, SameVectors(m, m2), SameLists(m, m2), r.q \in Queues,
          r.i \in Slot(r.q), ~(v.q = r.q /\ v.i = r.i) DEF Joins
<1> QED BY <1>12, <1>13, <1>14

\* Whoever creates a register is older than r.
CreatorsOlder(m, r) ==
  \A name \in Names :
    CREATE_VECTOR(m, name) # NONE => OlderCreator(m, CREATE_VECTOR(m, name), r)

\* The creators stay older than the new operation while it is linked.
LEMMA SameOlder ==
  ASSUME NEW m, NEW m2, NEW r, r.q \in Queues, r.i \in Slot(r.q), Joins(m, m2, r),
         CreatorsOlder(m, r)
  PROVE  CreatorsOlder(m2, r)
<1>1. ASSUME NEW name \in Names, CREATE_VECTOR(m2, name) # NONE
      PROVE  OlderCreator(m2, CREATE_VECTOR(m2, name), r)
  <2>1. PICK v : v = CREATE_VECTOR(m2, name)
    OBVIOUS
  <2>2. v = CREATE_VECTOR(m, name)
    BY <2>1 DEF Joins, SameVectors, CREATE_VECTOR
  <2>3. OlderCreator(m, v, r)
    BY <1>1, <2>1, <2>2 DEF CreatorsOlder
  <2>4. In(m2, v.q, v.i) <=> In(m, v.q, v.i)
    BY SameIn DEF Joins, Same
  <2>5. v.q \in Queues /\ v.i \in Slot(v.q)
    BY <2>3 DEF OlderCreator
  <2>6. /\ SameStatic(m.station[v.q][v.i], m2.station[v.q][v.i])
        /\ SameStatic(m.station[r.q][r.i], m2.station[r.q][r.i])
        /\ m2.station[v.q][v.i].completed = m.station[v.q][v.i].completed
    BY <2>5 DEF Joins, Same, SameState
  <2>7. OlderCreator(m2, v, r)
    BY ONLY <2>3, <2>4, <2>6 DEF OlderCreator, SameStatic
  <2> QED BY <2>1, <2>7
<1> QED BY ONLY <1>1 DEF CreatorsOlder

\* One input is linked.
LEMMA LinkStep ==
  ASSUME NEW m, CoreOK(m), NEW r, r.q \in Queues, r.i \in Slot(r.q), In(m, r.q, r.i),
         NEW k \in 1..3, NEW name \in Names \cup {NA}, CreatorsOlder(m, r),
         ChainsOK(m, {}, Unlinked(r, k)), NEW m2, m2 = ruu_link_idep(m, r, k, name)
  PROVE  /\ CoreOK(m2) /\ Joins(m, m2, r) /\ CreatorsOlder(m2, r) /\ In(m2, r.q, r.i)
         /\ ChainsOK(m2, {}, Unlinked(r, k + 1))
<1>0. SUFFICES /\ CoreOK(m2) /\ Joins(m, m2, r)
               /\ ChainsOK(m2, {}, Unlinked(r, k + 1))
  <2>1. ASSUME Joins(m, m2, r) PROVE CreatorsOlder(m2, r) /\ In(m2, r.q, r.i)
    <3>1. CreatorsOlder(m2, r)
      BY <2>1, SameOlder
    <3>2. In(m2, r.q, r.i)
      BY <2>1, SameIn DEF Joins, Same
    <3> QED BY <3>1, <3>2
  <2> QED BY <2>1
<1>1. CASE m2 = Woken(m, r, k)
  <2>1. /\ CoreOK(m2) /\ SameRing(m, m2) /\ SameVectors(m, m2) /\ SameLists(m, m2)
        /\ Put(m, m2, r.q, r.i, [m.station[r.q][r.i] EXCEPT !.idep_ready[k] = TRUE])
    BY <1>1, WokenIs
  <2>2. Joins(m, m2, r) /\ OneInput(m, m2, r, k, TRUE) /\ SameChainsIn(m, m2)
    BY <2>1, PutInput
  <2>3. Same(m, m2) /\ SameState(m, m2)
    BY <2>2 DEF Joins
  <2>4. ChainsOK(m2, {}, Unlinked(r, k + 1))
    BY <2>2, <2>3, ReadyInput
  <2> QED BY <2>1, <2>2, <2>4
<1>2. CASE /\ name \in Names
           /\ m2 = Chained(Blocked(m, r, k), CREATE_VECTOR(m, name), Link(m, r, k))
           /\ CREATE_VECTOR(m, name) # NONE
  <2>1. PICK v : v = CREATE_VECTOR(m, name)
    OBVIOUS
  <2>2. PICK l : l = Link(m, r, k)
    OBVIOUS
  <2>3. PICK m1 : m1 = Blocked(m, r, k)
    OBVIOUS
  <2>4. m2 = Chained(m1, v, l)
    BY <1>2, <2>1, <2>2, <2>3
  <2>5. OlderCreator(m, v, r)
    BY <1>2, <2>1 DEF CreatorsOlder
  <2>6. v.q \in Queues /\ v.i \in Slot(v.q) /\ v.odep \in 1..2 /\ ~(v.q = r.q /\ v.i = r.i)
    BY <2>5 DEF OlderCreator
  <2>7. l \in Links /\ LinkFor(m, l, r, k)
    <3>1. k \in Int
      OBVIOUS
    <3> QED BY <2>2, <3>1, LinkType DEF LinkFor
  <2>8. /\ CoreOK(m1) /\ SameRing(m, m1) /\ SameVectors(m, m1) /\ SameLists(m, m1)
        /\ Put(m, m1, r.q, r.i, [m.station[r.q][r.i] EXCEPT !.idep_ready[k] = FALSE])
    BY <2>3, BlockedIs
  <2>9. Joins(m, m1, r) /\ OneInput(m, m1, r, k, FALSE) /\ SameChainsIn(m, m1)
    BY <2>8, PutInput
  <2>10. /\ CoreOK(m2) /\ SameRing(m1, m2) /\ SameVectors(m1, m2) /\ SameLists(m1, m2)
         /\ Put(m1, m2, v.q, v.i, [m1.station[v.q][v.i] EXCEPT !.odep_list[v.odep] =
                                     <<l>> \o m1.station[v.q][v.i].odep_list[v.odep]])
    BY ONLY <2>4, <2>6, <2>7, <2>8, ChainedIs
  <2>11. Joins(m1, m2, r) /\ Prepended(m1, m2, v, l) /\ SameInputs(m1, m2)
    BY ONLY <2>6, <2>8, <2>10, PutChain, r.q \in Queues, r.i \in Slot(r.q)
  <2>12. Joins(m, m2, r)
    BY <2>9, <2>11, JoinsTrans
  <2>13. Prepended(m, m2, v, l)
    BY ONLY <2>9, <2>11 DEF Prepended, SameChainsIn
  <2>14. OneInput(m, m2, r, k, FALSE)
    <3>1. ASSUME NEW q \in Queues, NEW i \in Slot(q), NEW o \in 1..3
          PROVE  m2.station[q][i].idep_ready[o] = IF q = r.q /\ i = r.i /\ o = k THEN FALSE
                                                  ELSE m.station[q][i].idep_ready[o]
      <4>1. m2.station[q][i].idep_ready = m1.station[q][i].idep_ready
        BY ONLY <2>11, q \in Queues, i \in Slot(q) DEF SameInputs
      <4>2. m1.station[q][i].idep_ready[o] = IF q = r.q /\ i = r.i /\ o = k THEN FALSE
                                             ELSE m.station[q][i].idep_ready[o]
        BY ONLY <2>9, q \in Queues, i \in Slot(q), o \in 1..3 DEF OneInput
      <4> QED BY ONLY <4>1, <4>2
    <3> QED BY ONLY <3>1 DEF OneInput
  <2>15. Same(m, m2) /\ SameState(m, m2)
    BY <2>12 DEF Joins
  <2>16. ChainsOK(m2, {}, Unlinked(r, k + 1))
    BY <2>5, <2>7, <2>10, <2>13, <2>14, <2>15, WaitingInput
  <2> QED BY <2>10, <2>12, <2>16
<1> QED BY <1>1, <1>2, LinkIdepIs

-----------------------------------------------------------------------------
(*****************************************************************************)
(* One more operation.                                                       *)
(*****************************************************************************)
\* The slot at the tail of a queue that is not full.
Free(m, r) == r.q \in Queues /\ r.i = m.tail[r.q] /\ m.num[r.q] < Size[r.q]

Elsewhere(r, q, i) == q # r.q \/ i # r.i

\* m2 is m with one more operation, in slot r.
Grows(m, m2, r) ==
  /\ SameLists(m, m2) /\ Taking(m, m2, r)
  /\ \A q \in Queues : \A i \in Slot(q) : Elsewhere(r, q, i) =>
       /\ SameStatic(m.station[q][i], m2.station[q][i])
       /\ m2.station[q][i].queued = m.station[q][i].queued
       /\ m2.station[q][i].issued = m.station[q][i].issued
       /\ m2.station[q][i].completed = m.station[q][i].completed
       /\ m2.station[q][i].idep_ready = m.station[q][i].idep_ready
  /\ m2.station[r.q][r.i].tag = m.station[r.q][r.i].tag

\* The slot at the tail is not in flight.
LEMMA FreeSlot ==
  ASSUME NEW m, CoreOK(m), Ring(m), NEW r, Free(m, r)
  PROVE  /\ r.q \in Queues /\ r.i \in Slot(r.q) /\ ~In(m, r.q, r.i)
         /\ Distance(m, r.q, r.i) = m.num[r.q]
BY TailIs DEF Free

\* Afterwards exactly it is in flight too.
LEMMA GrowIn ==
  ASSUME NEW m, CoreOK(m), Ring(m), NEW r, Free(m, r), NEW m2, Taking(m, m2, r),
         NEW q \in Queues, NEW i \in Slot(q)
  PROVE  /\ Distance(m2, q, i) = Distance(m, q, i)
         /\ In(m2, q, i) <=> In(m, q, i) \/ ~Elsewhere(r, q, i)
<1>1. Distance(m2, q, i) = Distance(m, q, i)
  BY DEF Distance, Taking
<1>2. /\ r.q \in Queues /\ r.i \in Slot(r.q) /\ ~In(m, r.q, r.i)
      /\ Distance(m, r.q, r.i) = m.num[r.q]
  BY FreeSlot
<1>3. m2.num[q] = IF q = r.q THEN m.num[q] + 1 ELSE m.num[q]
  BY DEF Taking
<1>4. Distance(m, q, i) \in 0..(Size[q] - 1) /\ m.num[q] \in Nat /\ Size[q] \in Nat
  BY DistanceIs, Pointers
<1>5. CASE q # r.q
  BY <1>1, <1>3, <1>5 DEF In, Elsewhere
<1>6. CASE q = r.q
  <2>1. In(m2, q, i) <=> Distance(m, q, i) < m.num[q] + 1
    BY <1>1, <1>3, <1>6 DEF In
  <2>2. In(m2, q, i) <=> In(m, q, i) \/ Distance(m, q, i) = m.num[q]
    BY <1>4, <2>1 DEF In
  <2>3. Distance(m, q, i) = m.num[q] <=> i = r.i
    BY <1>2, <1>6, DistanceInjective
  <2> QED BY <1>1, <1>6, <2>2, <2>3 DEF Elsewhere
<1> QED BY <1>5, <1>6

\* The links there were before r.
LEMMA GrowLink ==
  ASSUME NEW m, CoreOK(m), Ring(m), NEW r, Free(m, r), NEW m2, Grows(m, m2, r),
         NEW l \in Links, LinkOK(m, l)
  PROVE  /\ LinkOK(m2, l) /\ (RSLINK_VALID(m2, l) <=> RSLINK_VALID(m, l))
         /\ RSLINK_VALID(m, l) => Elsewhere(r, l.q, l.i) /\ In(m, l.q, l.i)
         /\ l.q \in Queues /\ l.i \in Slot(l.q)
<1>1. l.q \in Queues /\ l.i \in Slot(l.q)
  BY DEF Links
<1>2. /\ r.q \in Queues /\ r.i \in Slot(r.q) /\ ~In(m, r.q, r.i)
  BY FreeSlot
<1>3. m2.station[l.q][l.i].tag = m.station[l.q][l.i].tag
  <2>1. CASE Elsewhere(r, l.q, l.i)
    BY <1>1, <2>1 DEF Grows, SameStatic
  <2>2. CASE ~Elsewhere(r, l.q, l.i)
    BY <2>2 DEF Grows, Elsewhere
  <2> QED BY <2>1, <2>2
<1>4. In(m2, l.q, l.i) <=> In(m, l.q, l.i) \/ ~Elsewhere(r, l.q, l.i)
  BY <1>1, GrowIn DEF Grows
<1>5. RSLINK_VALID(m, l) => In(m, l.q, l.i)
  BY DEF RSLINK_VALID, LinkOK, RS
<1>6. LinkOK(m2, l)
  BY <1>3, <1>4 DEF LinkOK
<1>7. RSLINK_VALID(m2, l) <=> RSLINK_VALID(m, l)
  BY <1>3 DEF RSLINK_VALID, RS
<1>8. RSLINK_VALID(m, l) => Elsewhere(r, l.q, l.i)
  BY <1>2, <1>5 DEF Elsewhere
<1> QED BY ONLY <1>1, <1>5, <1>6, <1>7, <1>8

\* Links name the other operations as before.
LEMMA GrowTargets ==
  ASSUME NEW m, NEW r, NEW m2, Grows(m, m2, r),
         NEW l, NEW q \in Queues, NEW i \in Slot(q), Elsewhere(r, q, i)
  PROVE  Targets(m2, l, q, i) <=> Targets(m, l, q, i)
BY DEF Targets, Grows, SameStatic

\* What Fill does.
LEMMA FillGrows ==
  ASSUME NEW m, CoreOK(m), Ring(m), NEW r, Free(m, r), NEW op \in Ops, NEW addr \in Nat, NEW f,
         f.PC \in Nat, NEW npc \in Nat, NEW seq \in Nat, spec_mode \in BOOLEAN,
         NEW m2, m2 = Fill(m, r, op, addr, f, npc, seq)
  PROVE  /\ CoreOK(m2) /\ Ring(m2) /\ SameVectors(m, m2) /\ Grows(m, m2, r)
         /\ SameChainsIn(m, m2)
         /\ Fresh(m2.station[r.q][r.i], r.q, op, addr, f.PC, seq)
<1>a. r.q \in Queues /\ r.i = m.tail[r.q] /\ m.num[r.q] < Size[r.q]
  BY DEF Free
<1>0. PICK s : s = Filled(m.station[r.q][r.i], r.q, op, addr, f, npc, seq)
  OBVIOUS
<1>1. /\ CoreOK(m2) /\ Ring(m2) /\ SameLists(m, m2) /\ SameVectors(m, m2)
      /\ Taking(m, m2, r) /\ r.i \in Slot(r.q) /\ Put(m, m2, r.q, r.i, s)
  BY <1>a, <1>0, FillIs
<1>2. m.station[r.q][r.i] \in Station
  BY <1>a, <1>1, StationType
<1>3. Fresh(s, r.q, op, addr, f.PC, seq) /\ Carried(m.station[r.q][r.i], s)
  BY <1>a, <1>0, <1>2, FilledIs
<1>4. /\ m2.station[r.q][r.i] = s
      /\ \A q \in Queues : \A i \in Slot(q) :
           Elsewhere(r, q, i) => m2.station[q][i] = m.station[q][i]
  BY ONLY <1>a, <1>1 DEF Put, Elsewhere
<1>5. Grows(m, m2, r)
  <2>1. ASSUME NEW q \in Queues, NEW i \in Slot(q), Elsewhere(r, q, i)
        PROVE  /\ SameStatic(m.station[q][i], m2.station[q][i])
               /\ m2.station[q][i].queued = m.station[q][i].queued
               /\ m2.station[q][i].issued = m.station[q][i].issued
               /\ m2.station[q][i].completed = m.station[q][i].completed
               /\ m2.station[q][i].idep_ready = m.station[q][i].idep_ready
    <3>1. m2.station[q][i] = m.station[q][i]
      BY <1>4, <2>1
    <3> QED BY ONLY <3>1 DEF SameStatic
  <2>2. m2.station[r.q][r.i].tag = m.station[r.q][r.i].tag
    BY ONLY <1>3, <1>4 DEF Carried
  <2> QED BY ONLY <1>1, <2>1, <2>2 DEF Grows
<1>6. SameChainsIn(m, m2)
  <2>1. ASSUME NEW q \in Queues, NEW i \in Slot(q), NEW d \in 1..2
        PROVE  Chain(m2, q, i, d) = Chain(m, q, i, d)
    <3>1. CASE Elsewhere(r, q, i)
      BY <1>4, <3>1 DEF Chain
    <3>2. CASE ~Elsewhere(r, q, i)
      BY ONLY <1>3, <1>4, <3>2 DEF Chain, Carried, Elsewhere
    <3> QED BY <3>1, <3>2
  <2> QED BY ONLY <2>1 DEF SameChainsIn
<1> QED BY <1>1, <1>3, <1>4, <1>5, <1>6

\* A filled slot waits to be linked.
LEMMA FillChains ==
  ASSUME NEW m, CoreOK(m), Ring(m), NEW r, Free(m, r), NEW m2, Grows(m, m2, r),
         SameChainsIn(m, m2), ChainsOK(m, {}, {})
  PROVE  /\ ChainsOK(m2, {}, Unlinked(r, 1))
         /\ \A d \in 1..2 : Chain(m2, r.q, r.i, d) = <<>>
<1>1. ChainsInFlight(m, {}) /\ ChainLinks(m, {}) /\ LinkedOnce(m) /\ AllLinked(m, {})
  BY ChainsParts
<1>2. r.q \in Queues /\ r.i \in Slot(r.q) /\ ~In(m, r.q, r.i)
  BY FreeSlot
<1>3. \A q \in Queues : \A i \in Slot(q) : \A d \in 1..2 : Chain(m2, q, i, d) = Chain(m, q, i, d)
  BY DEF SameChainsIn
<1>4. \A q \in Queues : \A i \in Slot(q) :
        In(m2, q, i) <=> In(m, q, i) \/ ~Elsewhere(r, q, i)
  BY GrowIn DEF Grows
<1>5. \A d \in 1..2 : Chain(m, r.q, r.i, d) = <<>>
  BY <1>1, <1>2 DEF ChainsInFlight
<1>6. ASSUME NEW q \in Queues, NEW i \in Slot(q), Elsewhere(r, q, i)
      PROVE  /\ m2.station[q][i].onames = m.station[q][i].onames
             /\ m2.station[q][i].completed = m.station[q][i].completed
             /\ m2.station[q][i].seq = m.station[q][i].seq
             /\ m2.station[q][i].idep_ready = m.station[q][i].idep_ready
  BY <1>6 DEF Grows, SameStatic
<1>7. ASSUME NEW q \in Queues, NEW i \in Slot(q), NEW d \in 1..2, Chain(m, q, i, d) # <<>>
      PROVE  Elsewhere(r, q, i)
  BY ONLY <1>5, <1>7 DEF Elsewhere
<1>8. ChainsInFlight(m2, {})
  <2>1. ASSUME NEW q \in Queues, NEW i \in Slot(q), NEW d \in 1..2, Chain(m2, q, i, d) # <<>>
        PROVE  /\ In(m2, q, i) /\ m2.station[q][i].onames[d] # NA
               /\ m2.station[q][i].completed => <<q, i, d>> \in {}
    <3>1. Chain(m, q, i, d) # <<>>
      BY <1>3, <2>1
    <3>2. Elsewhere(r, q, i)
      BY <1>7, <3>1
    <3>3. /\ In(m, q, i) /\ m.station[q][i].onames[d] # NA
          /\ m.station[q][i].completed => <<q, i, d>> \in {}
      BY <1>1, <3>1 DEF ChainsInFlight
    <3>4. /\ m2.station[q][i].onames = m.station[q][i].onames
          /\ m2.station[q][i].completed = m.station[q][i].completed
      BY <1>6, <3>2
    <3> QED BY ONLY <1>4, <3>3, <3>4, q \in Queues, i \in Slot(q)
  <2> QED BY ONLY <2>1 DEF ChainsInFlight
<1>9. ChainLinks(m2, Unlinked(r, 1))
  <2>1. ASSUME NEW q \in Queues, NEW i \in Slot(q), NEW d \in 1..2,
               NEW h \in 1..Len(Chain(m2, q, i, d))
        PROVE  LET e == Chain(m2, q, i, d)[h] IN
               /\ LinkOK(m2, e) /\ e.x \in 1..3
               /\ RSLINK_VALID(m2, e) =>
                    /\ ~RS(m2, e).idep_ready[e.x] /\ <<e.q, e.i, e.x>> \notin Unlinked(r, 1)
                    /\ m2.station[q][i].seq < RS(m2, e).seq
    <3>1. PICK e : e = Chain(m2, q, i, d)[h]
      OBVIOUS
    <3>2. h \in 1..Len(Chain(m, q, i, d)) /\ e = Chain(m, q, i, d)[h]
      BY <1>3, <3>1
    <3>3. e \in Links /\ Chain(m, q, i, d) \in Seq(Links)
      BY <3>2, ChainType
    <3>4. /\ LinkOK(m, e) /\ e.x \in 1..3
          /\ RSLINK_VALID(m, e) =>
               ~RS(m, e).idep_ready[e.x] /\ m.station[q][i].seq < RS(m, e).seq
      BY <1>1, <3>2 DEF ChainLinks
    <3>5. Chain(m, q, i, d) # <<>>
      BY ONLY <3>2
    <3>6. Elsewhere(r, q, i)
      BY <1>7, <3>5
    <3>7. /\ LinkOK(m2, e) /\ (RSLINK_VALID(m2, e) <=> RSLINK_VALID(m, e))
          /\ RSLINK_VALID(m, e) => Elsewhere(r, e.q, e.i)
          /\ e.q \in Queues /\ e.i \in Slot(e.q)
      BY <3>3, <3>4, GrowLink
    <3>8. ASSUME RSLINK_VALID(m2, e)
          PROVE  /\ ~RS(m2, e).idep_ready[e.x] /\ <<e.q, e.i, e.x>> \notin Unlinked(r, 1)
                 /\ m2.station[q][i].seq < RS(m2, e).seq
      <4>1. Elsewhere(r, e.q, e.i) /\ RSLINK_VALID(m, e)
        BY <3>7, <3>8
      <4>2. /\ m2.station[e.q][e.i].seq = m.station[e.q][e.i].seq
            /\ m2.station[e.q][e.i].idep_ready = m.station[e.q][e.i].idep_ready
            /\ m2.station[q][i].seq = m.station[q][i].seq
        BY <1>6, <3>6, <3>7, <4>1
      <4>3. <<e.q, e.i, e.x>> \notin Unlinked(r, 1)
        BY ONLY <3>4, <4>1, UnlinkedIs, 1 \in 1..4 DEF Elsewhere
      <4> QED BY ONLY <3>4, <4>1, <4>2, <4>3 DEF RS
    <3> QED BY ONLY <3>1, <3>4, <3>7, <3>8
  <2> QED BY ONLY <2>1 DEF ChainLinks
<1>10. LinkedOnce(m2)
  BY <1>1, <1>3, SameOnce
<1>11. AllLinked(m2, Unlinked(r, 1))
  <2>1. ASSUME NEW q \in Queues, NEW i \in Slot(q), NEW o \in 1..3,
               In(m2, q, i), ~m2.station[q][i].idep_ready[o],
               <<q, i, o>> \notin Unlinked(r, 1)
        PROVE  Linked(m2, q, i, o)
    <3>1. ~(q = r.q /\ i = r.i /\ o >= 1)
      BY ONLY <2>1, UnlinkedIs, 1 \in 1..4, o \in 1..3
    <3>2. Elsewhere(r, q, i)
      BY ONLY <3>1, o \in 1..3 DEF Elsewhere
    <3>3. In(m, q, i) /\ ~m.station[q][i].idep_ready[o]
      BY <1>4, <1>6, <2>1, <3>2
    <3>4. Linked(m, q, i, o)
      BY <1>1, <3>3 DEF AllLinked
    <3>5. ASSUME NEW l PROVE Targets(m2, l, q, i) <=> Targets(m, l, q, i)
      BY <3>2, GrowTargets
    <3> QED BY ONLY <1>3, <3>4, <3>5 DEF Linked
  <2> QED BY ONLY <2>1 DEF AllLinked
<1>12. \A d \in 1..2 : Chain(m2, r.q, r.i, d) = <<>>
  BY <1>2, <1>3, <1>5
<1> QED BY <1>8, <1>9, <1>10, <1>11, <1>12, ChainsParts

\* Every operation in flight is older than seq.
AllOlder(m, seq) ==
  \A q \in Queues : \A i \in Slot(q) : In(m, q, i) => m.station[q][i].seq < seq

\* The creators of m are older than the operation that fills slot r.
LEMMA FillOlder ==
  ASSUME NEW m, CoreOK(m), Ring(m), NEW r, Free(m, r), NEW m2, Grows(m, m2, r),
         SameVectors(m, m2), CreatorsOK(m, {}), AllOlder(m, m2.station[r.q][r.i].seq)
  PROVE  CreatorsOlder(m2, r)
<1>1. ASSUME NEW name \in Names, CREATE_VECTOR(m2, name) # NONE
      PROVE  OlderCreator(m2, CREATE_VECTOR(m2, name), r)
  <2>1. PICK v : v = CREATE_VECTOR(m2, name)
    OBVIOUS
  <2>2. v = CREATE_VECTOR(m, name) /\ v # NONE
    BY <1>1, <2>1 DEF SameVectors, CREATE_VECTOR
  <2>3. v \in Creators
    BY <2>2, VectorType
  <2>4. v.q \in Queues /\ v.i \in Slot(v.q) /\ v.odep \in 1..2
    BY <2>3, CreatorType
  <2>5. Precise(m, v, name, TRUE, {})
    BY <2>2 DEF CreatorsOK
  <2>6. /\ In(m, v.q, v.i) /\ m.station[v.q][v.i].onames[v.odep] = name
        /\ ~m.station[v.q][v.i].completed
    BY <2>2, <2>5 DEF Precise, Writes
  <2>7. r.q \in Queues /\ r.i \in Slot(r.q) /\ ~In(m, r.q, r.i)
    BY FreeSlot
  <2>8. Elsewhere(r, v.q, v.i)
    BY ONLY <2>6, <2>7 DEF Elsewhere
  <2>9. /\ SameStatic(m.station[v.q][v.i], m2.station[v.q][v.i])
        /\ m2.station[v.q][v.i].completed = m.station[v.q][v.i].completed
    BY <2>4, <2>8 DEF Grows
  <2>10. In(m2, v.q, v.i)
    BY <2>4, <2>6, GrowIn DEF Grows
  <2>11. m.station[v.q][v.i].seq < m2.station[r.q][r.i].seq
    BY <2>4, <2>6 DEF AllOlder
  <2>12. name # NA
    BY NoName
  <2>13. OlderCreator(m2, v, r)
    BY ONLY <2>4, <2>6, <2>8, <2>9, <2>10, <2>11, <2>12 DEF OlderCreator, Elsewhere, SameStatic
  <2> QED BY <2>1, <2>13
<1> QED BY ONLY <1>1 DEF CreatorsOlder

\* Filling and then linking is still adding one operation.
LEMMA GrowJoins ==
  ASSUME NEW m, NEW m1, NEW m2, NEW r, r.q \in Queues, r.i \in Slot(r.q),
         Grows(m, m1, r), Joins(m1, m2, r)
  PROVE  Grows(m, m2, r)
<1>1. SameLists(m, m2)
  BY DEF Grows, Joins, SameLists
<1>2. Taking(m, m2, r)
  BY DEF Grows, Joins, Taking, Same, SameRing
<1>3. ASSUME NEW q \in Queues, NEW i \in Slot(q), Elsewhere(r, q, i)
      PROVE  /\ SameStatic(m.station[q][i], m2.station[q][i])
             /\ m2.station[q][i].queued = m.station[q][i].queued
             /\ m2.station[q][i].issued = m.station[q][i].issued
             /\ m2.station[q][i].completed = m.station[q][i].completed
             /\ m2.station[q][i].idep_ready = m.station[q][i].idep_ready
  <2>1. /\ SameStatic(m.station[q][i], m1.station[q][i])
        /\ m1.station[q][i].queued = m.station[q][i].queued
        /\ m1.station[q][i].issued = m.station[q][i].issued
        /\ m1.station[q][i].completed = m.station[q][i].completed
        /\ m1.station[q][i].idep_ready = m.station[q][i].idep_ready
    BY <1>3 DEF Grows
  <2>2. SameStatic(m1.station[q][i], m2.station[q][i])
    BY DEF Joins, Same
  <2>3. /\ m2.station[q][i].queued = m1.station[q][i].queued
        /\ m2.station[q][i].idep_ready = m1.station[q][i].idep_ready
    BY <1>3 DEF Joins, Elsewhere
  <2>4. /\ m2.station[q][i].issued = m1.station[q][i].issued
        /\ m2.station[q][i].completed = m1.station[q][i].completed
    BY DEF Joins, SameState
  <2>5. SameStatic(m.station[q][i], m2.station[q][i])
    BY ONLY <2>1, <2>2 DEF SameStatic
  <2> QED BY ONLY <2>1, <2>3, <2>4, <2>5
<1>4. m2.station[r.q][r.i].tag = m.station[r.q][r.i].tag
  BY DEF Grows, Joins, Same, SameStatic
<1> QED BY ONLY <1>1, <1>2, <1>3, <1>4 DEF Grows

\* Linking leaves the new operation what it is.
LEMMA JoinsFresh ==
  ASSUME NEW m, NEW m2, NEW r, r.q \in Queues, r.i \in Slot(r.q), Joins(m, m2, r),
         NEW op, NEW addr, NEW pc, NEW seq,
         Fresh(m.station[r.q][r.i], r.q, op, addr, pc, seq)
  PROVE  Fresh(m2.station[r.q][r.i], r.q, op, addr, pc, seq)
<1>1. SameStatic(m.station[r.q][r.i], m2.station[r.q][r.i])
  BY DEF Joins, Same
<1>2. /\ m2.station[r.q][r.i].issued = m.station[r.q][r.i].issued
      /\ m2.station[r.q][r.i].completed = m.station[r.q][r.i].completed
      /\ m2.station[r.q][r.i].queued = m.station[r.q][r.i].queued
  BY DEF Joins, SameState
<1> QED BY ONLY <1>1, <1>2, Fresh(m.station[r.q][r.i], r.q, op, addr, pc, seq)
           DEF SameStatic, Fresh

NoChains(m, r) == \A d \in 1..2 : Chain(m, r.q, r.i, d) = <<>>

\* The three inputs are linked.
LEMMA LinkIdepsIs ==
  ASSUME NEW m, CoreOK(m), Ring(m), NEW r, r.q \in Queues, r.i \in Slot(r.q), In(m, r.q, r.i),
         CreatorsOlder(m, r), ChainsOK(m, {}, Unlinked(r, 1)), NoChains(m, r),
         NEW in, \A k \in 1..3 : in[k] \in Names \cup {NA},
         NEW m2, m2 = LinkIdeps(m, r, in)
  PROVE  CoreOK(m2) /\ Ring(m2) /\ Joins(m, m2, r) /\ ChainsOK(m2, {}, {}) /\ NoChains(m2, r)
<1>1. PICK ma : ma = ruu_link_idep(m, r, 1, in[1])
  OBVIOUS
<1>2. PICK mb : mb = ruu_link_idep(ma, r, 2, in[2])
  OBVIOUS
<1>3. m2 = ruu_link_idep(mb, r, 3, in[3])
  BY <1>1, <1>2 DEF LinkIdeps
<1>a. in[1] \in Names \cup {NA} /\ in[2] \in Names \cup {NA} /\ in[3] \in Names \cup {NA}
  OBVIOUS
<1>b. 1 \in 1..3 /\ 2 \in 1..3 /\ 3 \in 1..3 /\ 1 + 1 = 2 /\ 2 + 1 = 3 /\ 3 + 1 = 4
  OBVIOUS
<1>4. /\ CoreOK(ma) /\ Joins(m, ma, r) /\ CreatorsOlder(ma, r) /\ In(ma, r.q, r.i)
      /\ ChainsOK(ma, {}, Unlinked(r, 2))
  BY <1>1, <1>a, <1>b, LinkStep
<1>5. /\ CoreOK(mb) /\ Joins(ma, mb, r) /\ CreatorsOlder(mb, r) /\ In(mb, r.q, r.i)
      /\ ChainsOK(mb, {}, Unlinked(r, 3))
  BY <1>2, <1>4, <1>a, <1>b, LinkStep
<1>6. CoreOK(m2) /\ Joins(mb, m2, r) /\ ChainsOK(m2, {}, Unlinked(r, 4))
  BY <1>3, <1>5, <1>a, <1>b, LinkStep
<1>7. Joins(m, m2, r)
  <2>1. Joins(m, mb, r)
    BY <1>4, <1>5, JoinsTrans
  <2> QED BY <1>6, <2>1, JoinsTrans
<1>8. ChainsOK(m2, {}, {})
  BY <1>6, NoneUnlinked
<1>9. Ring(m2)
  BY <1>7 DEF Joins, Same, SameRing, Ring
<1>10. NoChains(m2, r)
  BY <1>7 DEF Joins, NoChains, Chain
<1> QED BY <1>6, <1>7, <1>8, <1>9, <1>10

\* A slot is filled and linked.
LEMMA FillLinkIs ==
  ASSUME NEW m, CoreOK(m), Ring(m), NEW r, Free(m, r), NEW op \in Ops, NEW addr \in Nat, NEW f,
         f.PC \in Nat, NEW npc \in Nat, NEW seq \in Nat, spec_mode \in BOOLEAN,
         AllOlder(m, seq), CreatorsOK(m, {}), ChainsOK(m, {}, {}),
         NEW in, \A k \in 1..3 : in[k] \in Names \cup {NA},
         NEW m2, m2 = LinkIdeps(Fill(m, r, op, addr, f, npc, seq), r, in)
  PROVE  /\ CoreOK(m2) /\ Ring(m2) /\ SameVectors(m, m2) /\ Grows(m, m2, r)
         /\ ChainsOK(m2, {}, {}) /\ NoChains(m2, r)
         /\ Fresh(m2.station[r.q][r.i], r.q, op, addr, f.PC, seq)
<1>1. PICK m1 : m1 = Fill(m, r, op, addr, f, npc, seq)
  OBVIOUS
<1>2. /\ CoreOK(m1) /\ Ring(m1) /\ SameVectors(m, m1) /\ Grows(m, m1, r)
      /\ SameChainsIn(m, m1)
      /\ Fresh(m1.station[r.q][r.i], r.q, op, addr, f.PC, seq)
  BY <1>1, FillGrows
<1>3. r.q \in Queues /\ r.i \in Slot(r.q)
  BY FreeSlot
<1>4. In(m1, r.q, r.i)
  BY <1>2, <1>3, GrowIn DEF Grows, Elsewhere
<1>5. ChainsOK(m1, {}, Unlinked(r, 1)) /\ NoChains(m1, r)
  BY <1>2, FillChains DEF NoChains
<1>6. CreatorsOlder(m1, r)
  <2>1. m1.station[r.q][r.i].seq = seq
    BY <1>2 DEF Fresh
  <2> QED BY <1>2, <2>1, FillOlder
<1>7. m2 = LinkIdeps(m1, r, in)
  BY <1>1
<1>8. CoreOK(m2) /\ Ring(m2) /\ Joins(m1, m2, r) /\ ChainsOK(m2, {}, {}) /\ NoChains(m2, r)
  BY <1>2, <1>3, <1>4, <1>5, <1>6, <1>7, LinkIdepsIs
<1>9. Grows(m, m2, r)
  BY <1>2, <1>3, <1>8, GrowJoins
<1>10. SameVectors(m, m2)
  BY <1>2, <1>8 DEF Joins, SameVectors
<1>11. Fresh(m2.station[r.q][r.i], r.q, op, addr, f.PC, seq)
  BY <1>2, <1>3, <1>8, JoinsFresh
<1> QED BY <1>8, <1>9, <1>10, <1>11

-----------------------------------------------------------------------------
(*****************************************************************************)
(* Installing the outputs.                                                   *)
(*****************************************************************************)
\* An output is named, and its chain is empty.
NamedOutput(m, r, k, name) == [m EXCEPT !.station[r.q][r.i].onames[k] = name]

Emptied(m, r, k) == [m EXCEPT !.station[r.q][r.i].odep_list[k] = <<>>]

\* What naming an output does.
LEMMA NamedIs ==
  ASSUME NEW m, CoreOK(m), NEW r, r.q \in Queues, r.i \in Slot(r.q), NEW k \in 1..2,
         NEW name \in Names \cup {NA}, NEW m2, m2 = NamedOutput(m, r, k, name)
  PROVE  /\ CoreOK(m2) /\ SameRing(m, m2) /\ SameVectors(m, m2)
         /\ SameLists(m, m2)
         /\ Put(m, m2, r.q, r.i, [m.station[r.q][r.i] EXCEPT !.onames[k] = name])
<1> DEFINE a == m.station[r.q][r.i]
           s == [m.station[r.q][r.i] EXCEPT !.onames[k] = name]
<1>1. a \in Station
  BY StationType
<1>2. s \in Station
  BY <1>1, StationUpdates
<1>3. Put(m, m2, r.q, r.i, s)
  BY DEF NamedOutput, CoreOK, Put
<1>4. SameRing(m, m2) /\ SameVectors(m, m2)
  BY DEF NamedOutput, CoreOK, SameRing, SameVectors
<1>5. SameLists(m, m2)
  BY DEF NamedOutput, CoreOK, SameLists
<1>6. Record(m2)
  BY DEF NamedOutput, CoreOK, Record
<1>7. m2.station = [q \in Queues |-> m2.station[q]]
  BY DEF NamedOutput, CoreOK
<1>8. \A q \in Queues : m2.station[q] \in [Slot(q) -> Station]
  <2>1. \A q \in Queues : m2.station[q] = [j \in Slot(q) |-> m2.station[q][j]]
    BY DEF NamedOutput, CoreOK
  <2> HIDE DEF s
  <2>2. ASSUME NEW q \in Queues, NEW j \in Slot(q) PROVE m2.station[q][j] \in Station
    <3>1. m.station[q][j] \in Station
      BY StationType
    <3>2. m2.station[q][j] = IF q = r.q /\ j = r.i THEN s ELSE m.station[q][j]
      BY <1>3 DEF Put
    <3> QED BY <1>2, <3>1, <3>2, Zenon
  <2> QED BY <2>1, <2>2
<1>9. CoreOK(m2)
  BY <1>4, <1>5, <1>6, <1>7, <1>8 DEF CoreOK, Record, SameRing, SameVectors, SameLists
<1> QED BY <1>3, <1>4, <1>5, <1>9

\* What emptying a chain does.
LEMMA EmptiedIs ==
  ASSUME NEW m, CoreOK(m), NEW r, r.q \in Queues, r.i \in Slot(r.q), NEW k \in 1..2,
         NEW m2, m2 = Emptied(m, r, k)
  PROVE  /\ CoreOK(m2) /\ SameRing(m, m2) /\ SameVectors(m, m2)
         /\ SameLists(m, m2)
         /\ Put(m, m2, r.q, r.i, [m.station[r.q][r.i] EXCEPT !.odep_list[k] = <<>>])
<1> DEFINE a == m.station[r.q][r.i]
           s == [m.station[r.q][r.i] EXCEPT !.odep_list[k] = <<>>]
<1>1. a \in Station
  BY StationType
<1>2. s \in Station
  <2>1. <<>> \in Seq(Links)
    OBVIOUS
  <2> QED BY <1>1, <2>1, StationUpdates
<1>3. Put(m, m2, r.q, r.i, s)
  BY DEF Emptied, CoreOK, Put
<1>4. SameRing(m, m2) /\ SameVectors(m, m2)
  BY DEF Emptied, CoreOK, SameRing, SameVectors
<1>5. SameLists(m, m2)
  BY DEF Emptied, CoreOK, SameLists
<1>6. Record(m2)
  BY DEF Emptied, CoreOK, Record
<1>7. m2.station = [q \in Queues |-> m2.station[q]]
  BY DEF Emptied, CoreOK
<1>8. \A q \in Queues : m2.station[q] \in [Slot(q) -> Station]
  <2>1. \A q \in Queues : m2.station[q] = [j \in Slot(q) |-> m2.station[q][j]]
    BY DEF Emptied, CoreOK
  <2> HIDE DEF s
  <2>2. ASSUME NEW q \in Queues, NEW j \in Slot(q) PROVE m2.station[q][j] \in Station
    <3>1. m.station[q][j] \in Station
      BY StationType
    <3>2. m2.station[q][j] = IF q = r.q /\ j = r.i THEN s ELSE m.station[q][j]
      BY <1>3 DEF Put
    <3> QED BY <1>2, <3>1, <3>2, Zenon
  <2> QED BY <2>1, <2>2
<1>9. CoreOK(m2)
  BY <1>4, <1>5, <1>6, <1>7, <1>8 DEF CoreOK, Record, SameRing, SameVectors, SameLists
<1> QED BY <1>3, <1>4, <1>5, <1>9

\* The create vectors name output k of r.
Creator(r, k) == [q |-> r.q, i |-> r.i, odep |-> k]

Creates(m, m2, r, k, name) ==
  /\ \A x \in Names :
       /\ m2.create_vector[x] = IF x = name /\ ~spec_mode THEN Creator(r, k)
                                                          ELSE m.create_vector[x]
       /\ m2.spec_create_vector[x] = IF x = name /\ spec_mode THEN Creator(r, k)
                                                              ELSE m.spec_create_vector[x]
       /\ x \in m2.use_spec_cv <=> x \in m.use_spec_cv \/ (x = name /\ spec_mode)
  /\ ~spec_mode => SameUse(m, m2)

Entered(m, r, k, name) ==
  SET_CREATE_VECTOR(m, name, Creator(r, k))

\* An output of a slot is a creator.
LEMMA CreatorIn ==
  ASSUME NEW r, r.q \in Queues, r.i \in Slot(r.q), NEW k \in 1..2
  PROVE  Creator(r, k) \in Creators
<1>1. r.i \in Nat
  BY SizeType DEF Slot
<1> QED BY <1>1 DEF Creator, Creators

\* What entering it into the create vector of the current path does.
LEMMA EnteredIs ==
  ASSUME NEW m, CoreOK(m), NEW r, r.q \in Queues, r.i \in Slot(r.q), NEW k \in 1..2,
         NEW name \in Names, spec_mode \in BOOLEAN, NEW m2, m2 = Entered(m, r, k, name)
  PROVE  /\ CoreOK(m2) /\ SameRing(m, m2) /\ SameLists(m, m2)
         /\ m2.station = m.station /\ Creates(m, m2, r, k, name)
<1>1. PICK c : c = Creator(r, k)
  OBVIOUS
<1>2. c \in Creators
  BY <1>1, CreatorIn
<1>a. /\ m.create_vector \in [Names -> Creators \cup {NONE}]
      /\ m.spec_create_vector \in [Names -> Creators \cup {NONE}]
      /\ m.use_spec_cv \subseteq Names
  BY DEF CoreOK
<1>3. CASE spec_mode
  <2>1. m2 = [m EXCEPT !.use_spec_cv = m.use_spec_cv \cup {name},
                       !.spec_create_vector = [m.spec_create_vector EXCEPT ![name] = c]]
    BY <1>1, <1>3 DEF Entered, SET_CREATE_VECTOR, CoreOK
  <2>2. /\ m2.use_spec_cv = m.use_spec_cv \cup {name} /\ m2.create_vector = m.create_vector
        /\ m2.spec_create_vector = [m.spec_create_vector EXCEPT ![name] = c]
    BY ONLY <2>1, CoreOK(m) DEF CoreOK
  <2>3. /\ m2.station = m.station /\ SameRing(m, m2) /\ SameLists(m, m2) /\ Record(m2)
    BY ONLY <2>1, CoreOK(m) DEF CoreOK, SameRing, SameLists, Record
  <2>4. /\ m2.spec_create_vector \in [Names -> Creators \cup {NONE}]
        /\ m2.use_spec_cv \subseteq Names
    BY ONLY <1>2, <1>a, <2>2, name \in Names
  <2>5. CoreOK(m2)
    BY ONLY <2>2, <2>3, <2>4, CoreOK(m) DEF CoreOK, SameRing, SameLists, Record
  <2>6. Creates(m, m2, r, k, name)
    BY ONLY <1>1, <1>3, <1>a, <2>2, name \in Names DEF Creates
  <2> QED BY <2>3, <2>5, <2>6
<1>4. CASE ~spec_mode
  <2>1. m2 = [m EXCEPT !.create_vector = [m.create_vector EXCEPT ![name] = c]]
    BY <1>1, <1>4 DEF Entered, SET_CREATE_VECTOR, CoreOK
  <2>2. /\ m2.use_spec_cv = m.use_spec_cv /\ m2.spec_create_vector = m.spec_create_vector
        /\ m2.create_vector = [m.create_vector EXCEPT ![name] = c]
    BY ONLY <2>1, CoreOK(m) DEF CoreOK
  <2>3. /\ m2.station = m.station /\ SameRing(m, m2) /\ SameLists(m, m2) /\ Record(m2)
    BY ONLY <2>1, CoreOK(m) DEF CoreOK, SameRing, SameLists, Record
  <2>4. m2.create_vector \in [Names -> Creators \cup {NONE}]
    BY ONLY <1>2, <1>a, <2>2, name \in Names
  <2>5. CoreOK(m2)
    BY ONLY <2>2, <2>3, <2>4, CoreOK(m) DEF CoreOK, SameRing, SameLists, Record
  <2>6. Creates(m, m2, r, k, name)
    BY ONLY <1>1, <1>4, <1>a, <2>2, name \in Names DEF Creates, SameUse
  <2> QED BY <2>3, <2>5, <2>6
<1> QED BY <1>3, <1>4

\* What naming an output leaves of a station.
Renamed(a, b, k, name) ==
  /\ b.op = a.op /\ b.PC = a.PC /\ b.in_LSQ = a.in_LSQ
  /\ b.ea_comp = a.ea_comp /\ b.recover_inst = a.recover_inst
  /\ b.spec_mode = a.spec_mode /\ b.addr = a.addr /\ b.tag = a.tag
  /\ b.seq = a.seq /\ b.queued = a.queued /\ b.issued = a.issued
  /\ b.completed = a.completed /\ b.idep_ready = a.idep_ready
  /\ \A d \in 1..2 : b.onames[d] = IF d = k THEN name ELSE a.onames[d]
  /\ \A d \in 1..2 : b.odep_list[d] = a.odep_list[d]

\* Naming an output changes no other field.
LEMMA NamedStation ==
  ASSUME NEW a \in Station, NEW k \in 1..2, NEW name, NEW b, b = [a EXCEPT !.onames[k] = name]
  PROVE  Renamed(a, b, k, name)
<1>1. a.onames \in [1..2 -> Names \cup {NA}]
  BY StationFields
<1>2. b.onames = [a.onames EXCEPT ![k] = name] /\ b.odep_list = a.odep_list
  BY DEF Station
<1>3. /\ b.op = a.op /\ b.PC = a.PC /\ b.in_LSQ = a.in_LSQ
      /\ b.ea_comp = a.ea_comp /\ b.recover_inst = a.recover_inst
      /\ b.spec_mode = a.spec_mode /\ b.addr = a.addr /\ b.tag = a.tag
      /\ b.seq = a.seq /\ b.queued = a.queued /\ b.issued = a.issued
      /\ b.completed = a.completed /\ b.idep_ready = a.idep_ready
  BY DEF Station
<1> QED BY ONLY <1>1, <1>2, <1>3 DEF Renamed

\* Emptying an empty chain changes nothing.
LEMMA EmptiedStation ==
  ASSUME NEW a \in Station, NEW k \in 1..2, a.odep_list[k] = <<>>,
         NEW b, b = [a EXCEPT !.odep_list[k] = <<>>]
  PROVE  SameStatic(a, b) /\ b.queued = a.queued /\ b.issued = a.issued
         /\ b.completed = a.completed /\ b.idep_ready = a.idep_ready
         /\ b.odep_list = a.odep_list
<1>1. a.odep_list \in [1..2 -> Seq(Links)]
  BY StationFields
<1>2. b.odep_list = [a.odep_list EXCEPT ![k] = <<>>]
  BY DEF Station
<1>3. b.odep_list = a.odep_list
  BY ONLY <1>1, <1>2, a.odep_list[k] = <<>>
<1>4. SameStatic(a, b)
  BY DEF Station, SameStatic
<1>5. /\ b.queued = a.queued /\ b.issued = a.issued
      /\ b.completed = a.completed /\ b.idep_ready = a.idep_ready
  BY DEF Station
<1> QED BY <1>3, <1>4, <1>5

\* Output k of r is named; nothing else changes in the stations.
Outputs1(m, m2, r, k, name) ==
  /\ Renamed(m.station[r.q][r.i], m2.station[r.q][r.i], k, name)
  /\ \A q \in Queues : \A i \in Slot(q) :
       Elsewhere(r, q, i) => m2.station[q][i] = m.station[q][i]

\* What ruu_install_odep does.
LEMMA InstallIs ==
  ASSUME NEW m, CoreOK(m), NEW r, r.q \in Queues, r.i \in Slot(r.q), NEW k \in 1..2,
         NEW name \in Names \cup {NA}, spec_mode \in BOOLEAN, NoChains(m, r),
         NEW m2, m2 = ruu_install_odep(m, r, k, name)
  PROVE  /\ CoreOK(m2) /\ SameRing(m, m2) /\ SameLists(m, m2)
         /\ Outputs1(m, m2, r, k, name) /\ Creates(m, m2, r, k, name)
<1>1. PICK a : a = m.station[r.q][r.i]
  OBVIOUS
<1>2. a \in Station
  BY <1>1, StationType
<1>3. PICK b : b = [a EXCEPT !.onames[k] = name]
  OBVIOUS
<1>4. Renamed(a, b, k, name)
  BY <1>2, <1>3, NamedStation
<1>5. PICK m1 : m1 = NamedOutput(m, r, k, name)
  OBVIOUS
<1>6. /\ CoreOK(m1) /\ SameRing(m, m1) /\ SameVectors(m, m1) /\ SameLists(m, m1)
      /\ Put(m, m1, r.q, r.i, b)
  BY <1>1, <1>3, <1>5, NamedIs
<1>7. /\ m1.station[r.q][r.i] = b
      /\ \A q \in Queues : \A i \in Slot(q) :
           Elsewhere(r, q, i) => m1.station[q][i] = m.station[q][i]
  BY ONLY <1>6, r.q \in Queues, r.i \in Slot(r.q) DEF Put, Elsewhere
<1>8. CASE name = NA
  <2>1. m2 = m1
    BY <1>5, <1>8 DEF ruu_install_odep, NamedOutput
  <2>2. Creates(m, m2, r, k, name)
    <3>1. \A x \in Names : x # name
      BY <1>8, NoName
    <3> QED BY ONLY <1>6, <2>1, <3>1 DEF Creates, SameVectors, SameUse
  <2>3. Outputs1(m, m2, r, k, name)
    BY ONLY <1>1, <1>4, <1>7, <2>1 DEF Outputs1
  <2> QED BY <1>6, <2>1, <2>2, <2>3
<1>9. CASE name # NA
  <2>0. name \in Names
    BY <1>9
  <2>1. PICK mc : mc = Emptied(m1, r, k)
    OBVIOUS
  <2>2. m2 = Entered(mc, r, k, name)
    BY <1>5, <1>9, <2>1 DEF ruu_install_odep, NamedOutput, Emptied, Entered, Creator
  <2>3. PICK c : c = [b EXCEPT !.odep_list[k] = <<>>]
    OBVIOUS
  <2>4. /\ CoreOK(mc) /\ SameRing(m1, mc) /\ SameVectors(m1, mc) /\ SameLists(m1, mc)
        /\ Put(m1, mc, r.q, r.i, c)
    BY <1>6, <1>7, <2>1, <2>3, EmptiedIs
  <2>5. b \in Station
    BY <1>6, <1>7, StationType
  <2>6. b.odep_list[k] = <<>>
    BY <1>1, <1>4 DEF Renamed, NoChains, Chain
  <2>7. SameStatic(b, c) /\ c.queued = b.queued /\ c.issued = b.issued
         /\ c.completed = b.completed /\ c.idep_ready = b.idep_ready
         /\ c.odep_list = b.odep_list
    BY ONLY <2>3, <2>5, <2>6, EmptiedStation, k \in 1..2
  <2>8. Renamed(a, c, k, name)
    BY ONLY <1>4, <2>7 DEF Renamed, SameStatic
  <2>9. /\ mc.station[r.q][r.i] = c
        /\ \A q \in Queues : \A i \in Slot(q) :
             Elsewhere(r, q, i) => mc.station[q][i] = m1.station[q][i]
    BY ONLY <2>4, r.q \in Queues, r.i \in Slot(r.q) DEF Put, Elsewhere
  <2>10. /\ CoreOK(m2) /\ SameRing(mc, m2) /\ SameLists(mc, m2)
         /\ m2.station = mc.station /\ Creates(mc, m2, r, k, name)
    BY ONLY <2>0, <2>2, <2>4, EnteredIs, r.q \in Queues, r.i \in Slot(r.q), k \in 1..2,
            spec_mode \in BOOLEAN
  <2>11. SameRing(m, m2) /\ SameLists(m, m2)
    BY ONLY <1>6, <2>4, <2>10 DEF SameRing, SameLists
  <2>12. Creates(m, m2, r, k, name)
    <3>1. SameVectors(m, mc)
      BY ONLY <1>6, <2>4 DEF SameVectors
    <3> QED BY ONLY <2>10, <3>1 DEF Creates, SameVectors, SameUse
  <2>13. Outputs1(m, m2, r, k, name)
    BY ONLY <1>1, <1>7, <2>8, <2>9, <2>10 DEF Outputs1
  <2> QED BY <2>10, <2>11, <2>12, <2>13
<1> QED BY <1>8, <1>9

\* Both outputs of r are named.
Made(out, x) == out[1] = x \/ out[2] = x

NewCreator(r, out, x) == Creator(r, IF out[2] = x THEN 2 ELSE 1)

Vectors(m, m2, r, out) ==
  /\ \A x \in Names :
       /\ m2.create_vector[x] = IF Made(out, x) /\ ~spec_mode THEN NewCreator(r, out, x)
                                                              ELSE m.create_vector[x]
       /\ m2.spec_create_vector[x] = IF Made(out, x) /\ spec_mode THEN NewCreator(r, out, x)
                                                                  ELSE m.spec_create_vector[x]
       /\ x \in m2.use_spec_cv <=> x \in m.use_spec_cv \/ (Made(out, x) /\ spec_mode)
  /\ ~spec_mode => SameUse(m, m2)

OnamesAre(b, out) == b.onames[1] = out[1] /\ b.onames[2] = out[2]

\* Nothing changes but the names of the outputs of r.
OnlyNames(m, m2, r) ==
  /\ SameRing(m, m2) /\ SameLists(m, m2)
  /\ \A q \in Queues : \A i \in Slot(q) :
       Elsewhere(r, q, i) => m2.station[q][i] = m.station[q][i]
  /\ LET a == m.station[r.q][r.i]
         b == m2.station[r.q][r.i]
     IN  /\ b.op = a.op /\ b.PC = a.PC /\ b.in_LSQ = a.in_LSQ
         /\ b.ea_comp = a.ea_comp /\ b.recover_inst = a.recover_inst
         /\ b.spec_mode = a.spec_mode /\ b.addr = a.addr /\ b.tag = a.tag
         /\ b.seq = a.seq /\ b.queued = a.queued /\ b.issued = a.issued
         /\ b.completed = a.completed /\ b.idep_ready = a.idep_ready
         /\ \A d \in 1..2 : b.odep_list[d] = a.odep_list[d]

\* What installing both outputs does.
LEMMA InstallOdepsIs ==
  ASSUME NEW m, CoreOK(m), NEW r, r.q \in Queues, r.i \in Slot(r.q),
         NEW out, out[1] \in Names \cup {NA}, out[2] \in Names \cup {NA},
         out[1] = out[2] => out[1] = NA, spec_mode \in BOOLEAN, NoChains(m, r),
         NEW m2, m2 = InstallOdeps(m, r, out)
  PROVE  /\ CoreOK(m2) /\ OnlyNames(m, m2, r) /\ OnamesAre(m2.station[r.q][r.i], out)
         /\ Vectors(m, m2, r, out)
<1>1. PICK x : x = out[1]
  OBVIOUS
<1>2. PICK y : y = out[2]
  OBVIOUS
<1>a. 1 \in 1..2 /\ 2 \in 1..2 /\ x \in Names \cup {NA} /\ y \in Names \cup {NA}
  BY <1>1, <1>2
<1>3. PICK m1 : m1 = ruu_install_odep(m, r, 1, x)
  OBVIOUS
<1>4. m2 = ruu_install_odep(m1, r, 2, y)
  BY <1>1, <1>2, <1>3 DEF InstallOdeps
<1>5. /\ CoreOK(m1) /\ SameRing(m, m1) /\ SameLists(m, m1)
      /\ Outputs1(m, m1, r, 1, x) /\ Creates(m, m1, r, 1, x)
  BY <1>3, <1>a, InstallIs
<1>6. NoChains(m1, r)
  BY <1>5 DEF Outputs1, Renamed, NoChains, Chain
<1>7. /\ CoreOK(m2) /\ SameRing(m1, m2) /\ SameLists(m1, m2)
      /\ Outputs1(m1, m2, r, 2, y) /\ Creates(m1, m2, r, 2, y)
  BY <1>4, <1>5, <1>6, <1>a, InstallIs
<1>8. OnlyNames(m, m2, r)
  <2>1. SameRing(m, m2) /\ SameLists(m, m2)
    BY ONLY <1>5, <1>7 DEF SameRing, SameLists
  <2>2. ASSUME NEW q \in Queues, NEW i \in Slot(q), Elsewhere(r, q, i)
        PROVE  m2.station[q][i] = m.station[q][i]
    BY ONLY <1>5, <1>7, <2>2 DEF Outputs1
  <2>3. PICK a : a = m.station[r.q][r.i]
    OBVIOUS
  <2>4. PICK b : b = m1.station[r.q][r.i]
    OBVIOUS
  <2>5. PICK c : c = m2.station[r.q][r.i]
    OBVIOUS
  <2>6. Renamed(a, b, 1, x) /\ Renamed(b, c, 2, y)
    BY ONLY <1>5, <1>7, <2>3, <2>4, <2>5 DEF Outputs1
  <2>7. /\ c.op = a.op /\ c.PC = a.PC /\ c.in_LSQ = a.in_LSQ
        /\ c.ea_comp = a.ea_comp /\ c.recover_inst = a.recover_inst
        /\ c.spec_mode = a.spec_mode /\ c.addr = a.addr /\ c.tag = a.tag
        /\ c.seq = a.seq /\ c.queued = a.queued /\ c.issued = a.issued
        /\ c.completed = a.completed /\ c.idep_ready = a.idep_ready
        /\ \A d \in 1..2 : c.odep_list[d] = a.odep_list[d]
    BY ONLY <2>6 DEF Renamed
  <2> QED BY ONLY <2>1, <2>2, <2>3, <2>5, <2>7 DEF OnlyNames
<1>9. OnamesAre(m2.station[r.q][r.i], out)
  <2>1. m1.station[r.q][r.i].onames[1] = x
    BY ONLY <1>5, <1>a DEF Outputs1, Renamed
  <2>2. /\ m2.station[r.q][r.i].onames[2] = y
        /\ m2.station[r.q][r.i].onames[1] = m1.station[r.q][r.i].onames[1]
    <3>1. PICK b : b = m1.station[r.q][r.i]
      OBVIOUS
    <3>2. PICK c : c = m2.station[r.q][r.i]
      OBVIOUS
    <3>3. Renamed(b, c, 2, y)
      BY ONLY <1>7, <3>1, <3>2 DEF Outputs1
    <3>4. c.onames[2] = y /\ c.onames[1] = b.onames[1]
      BY ONLY <3>3 DEF Renamed
    <3> QED BY ONLY <3>1, <3>2, <3>4
  <2> QED BY ONLY <1>1, <1>2, <2>1, <2>2 DEF OnamesAre
<1>10. ASSUME NEW z \in Names
       PROVE  /\ m2.create_vector[z] = IF Made(out, z) /\ ~spec_mode THEN NewCreator(r, out, z)
                                                              ELSE m.create_vector[z]
              /\ m2.spec_create_vector[z] = IF Made(out, z) /\ spec_mode
                                            THEN NewCreator(r, out, z)
                                            ELSE m.spec_create_vector[z]
              /\ z \in m2.use_spec_cv <=> z \in m.use_spec_cv \/ (Made(out, z) /\ spec_mode)
  <2>1. /\ m1.create_vector[z] = IF z = x /\ ~spec_mode THEN Creator(r, 1)
                                                        ELSE m.create_vector[z]
        /\ m1.spec_create_vector[z] = IF z = x /\ spec_mode THEN Creator(r, 1)
                                                            ELSE m.spec_create_vector[z]
        /\ z \in m1.use_spec_cv <=> z \in m.use_spec_cv \/ (z = x /\ spec_mode)
    BY ONLY <1>5, z \in Names DEF Creates
  <2>2. /\ m2.create_vector[z] = IF z = y /\ ~spec_mode THEN Creator(r, 2)
                                                        ELSE m1.create_vector[z]
        /\ m2.spec_create_vector[z] = IF z = y /\ spec_mode THEN Creator(r, 2)
                                                            ELSE m1.spec_create_vector[z]
        /\ z \in m2.use_spec_cv <=> z \in m1.use_spec_cv \/ (z = y /\ spec_mode)
    BY ONLY <1>7, z \in Names DEF Creates
  <2>3. Made(out, z) <=> z = x \/ z = y
    BY ONLY <1>1, <1>2 DEF Made
  <2>4. NewCreator(r, out, z) = IF z = y THEN Creator(r, 2) ELSE Creator(r, 1)
    BY ONLY <1>2 DEF NewCreator
  <2> QED BY ONLY <2>1, <2>2, <2>3, <2>4
<1>11. ~spec_mode => SameUse(m, m2)
  BY ONLY <1>5, <1>7 DEF Creates, SameUse
<1>12. Vectors(m, m2, r, out)
  BY ONLY <1>10, <1>11 DEF Vectors
<1> QED BY <1>7, <1>8, <1>9, <1>12

\* Names of outputs without a chain do not matter to the chains.
LEMMA InstallChains ==
  ASSUME NEW m, CoreOK(m), NEW r, r.q \in Queues, r.i \in Slot(r.q), NEW m2,
         OnlyNames(m, m2, r), NoChains(m, r), ChainsOK(m, {}, {})
  PROVE  ChainsOK(m2, {}, {})
<1>1. ChainsInFlight(m, {}) /\ ChainLinks(m, {}) /\ LinkedOnce(m) /\ AllLinked(m, {})
  BY ChainsParts
<1>2. ASSUME NEW q \in Queues, NEW i \in Slot(q)
      PROVE  /\ m2.station[q][i].tag = m.station[q][i].tag
             /\ m2.station[q][i].seq = m.station[q][i].seq
             /\ m2.station[q][i].completed = m.station[q][i].completed
             /\ m2.station[q][i].idep_ready = m.station[q][i].idep_ready
             /\ \A d \in 1..2 : Chain(m2, q, i, d) = Chain(m, q, i, d)
  <2>1. CASE Elsewhere(r, q, i)
    <3>1. m2.station[q][i] = m.station[q][i]
      BY <2>1 DEF OnlyNames
    <3> QED BY ONLY <3>1 DEF Chain
  <2>2. CASE ~Elsewhere(r, q, i)
    BY ONLY <2>2, OnlyNames(m, m2, r) DEF Elsewhere, OnlyNames, Chain
  <2> QED BY <2>1, <2>2
<1>3. \A q, i : In(m2, q, i) <=> In(m, q, i)
  BY SameIn DEF OnlyNames
<1>4. ChainsInFlight(m2, {})
  <2>1. ASSUME NEW q \in Queues, NEW i \in Slot(q), NEW d \in 1..2, Chain(m2, q, i, d) # <<>>
        PROVE  /\ In(m2, q, i) /\ m2.station[q][i].onames[d] # NA
               /\ m2.station[q][i].completed => <<q, i, d>> \in {}
    <3>1. Chain(m, q, i, d) # <<>>
      BY <1>2, <2>1
    <3>2. Elsewhere(r, q, i)
      BY ONLY <3>1, NoChains(m, r), d \in 1..2 DEF Elsewhere, NoChains
    <3>3. m2.station[q][i] = m.station[q][i]
      BY <3>2 DEF OnlyNames
    <3>4. /\ In(m, q, i) /\ m.station[q][i].onames[d] # NA
          /\ m.station[q][i].completed => <<q, i, d>> \in {}
      BY <1>1, <3>1 DEF ChainsInFlight
    <3> QED BY ONLY <1>3, <3>3, <3>4
  <2> QED BY ONLY <2>1 DEF ChainsInFlight
<1>5. ASSUME NEW l \in Links
      PROVE  /\ LinkOK(m2, l) <=> LinkOK(m, l)
             /\ RSLINK_VALID(m2, l) <=> RSLINK_VALID(m, l)
             /\ l.q \in Queues /\ l.i \in Slot(l.q)
  <2>1. l.q \in Queues /\ l.i \in Slot(l.q)
    BY DEF Links
  <2>2. m2.station[l.q][l.i].tag = m.station[l.q][l.i].tag
    BY <1>2, <2>1
  <2> QED BY <1>3, <2>1, <2>2 DEF LinkOK, RSLINK_VALID, RS
<1>6. ChainLinks(m2, {})
  <2>1. ASSUME NEW q \in Queues, NEW i \in Slot(q), NEW d \in 1..2,
               NEW h \in 1..Len(Chain(m2, q, i, d))
        PROVE  LET e == Chain(m2, q, i, d)[h] IN
               /\ LinkOK(m2, e) /\ e.x \in 1..3
               /\ RSLINK_VALID(m2, e) =>
                    /\ ~RS(m2, e).idep_ready[e.x] /\ <<e.q, e.i, e.x>> \notin {}
                    /\ m2.station[q][i].seq < RS(m2, e).seq
    <3>1. PICK e : e = Chain(m2, q, i, d)[h]
      OBVIOUS
    <3>2. h \in 1..Len(Chain(m, q, i, d)) /\ e = Chain(m, q, i, d)[h]
      BY <1>2, <3>1
    <3>3. e \in Links
      BY <3>2, ChainType
    <3>4. /\ LinkOK(m, e) /\ e.x \in 1..3
          /\ RSLINK_VALID(m, e) =>
               ~RS(m, e).idep_ready[e.x] /\ m.station[q][i].seq < RS(m, e).seq
      BY <1>1, <3>2 DEF ChainLinks
    <3>5. /\ LinkOK(m2, e) <=> LinkOK(m, e)
          /\ RSLINK_VALID(m2, e) <=> RSLINK_VALID(m, e)
          /\ e.q \in Queues /\ e.i \in Slot(e.q)
      BY <1>5, <3>3
    <3>6. /\ m2.station[e.q][e.i].seq = m.station[e.q][e.i].seq
          /\ m2.station[e.q][e.i].idep_ready = m.station[e.q][e.i].idep_ready
          /\ m2.station[q][i].seq = m.station[q][i].seq
      BY <1>2, <3>5
    <3> QED BY ONLY <3>1, <3>4, <3>5, <3>6 DEF RS
  <2> QED BY ONLY <2>1 DEF ChainLinks
<1>7. LinkedOnce(m2)
  BY <1>1, <1>2, SameOnce
<1>8. AllLinked(m2, {})
  <2>1. ASSUME NEW q \in Queues, NEW i \in Slot(q), NEW o \in 1..3,
               In(m2, q, i), ~m2.station[q][i].idep_ready[o]
        PROVE  Linked(m2, q, i, o)
    <3>1. In(m, q, i) /\ ~m.station[q][i].idep_ready[o]
      BY <1>2, <1>3, <2>1
    <3>2. Linked(m, q, i, o)
      BY <1>1, <3>1 DEF AllLinked
    <3>3. ASSUME NEW l PROVE Targets(m2, l, q, i) <=> Targets(m, l, q, i)
      BY <1>2 DEF Targets
    <3> QED BY ONLY <1>2, <3>2, <3>3 DEF Linked
  <2> QED BY ONLY <2>1 DEF AllLinked
<1> QED BY <1>4, <1>6, <1>7, <1>8, ChainsParts

\* What Allocate does.
LEMMA AllocateIs ==
  ASSUME NEW m, CoreOK(m), Ring(m), NEW r, Free(m, r), NEW op \in Ops, NEW addr \in Nat, NEW f,
         f.PC \in Nat, NEW npc \in Nat, NEW seq \in Nat, spec_mode \in BOOLEAN,
         AllOlder(m, seq), CreatorsOK(m, {}), ChainsOK(m, {}, {}),
         NEW in, \A k \in 1..3 : in[k] \in Names \cup {NA},
         NEW out, out[1] \in Names \cup {NA}, out[2] \in Names \cup {NA},
         out[1] = out[2] => out[1] = NA,
         NEW m2, m2 = Allocate(m, r, op, addr, f, npc, seq, in, out)
  PROVE  /\ CoreOK(m2) /\ Ring(m2) /\ Grows(m, m2, r) /\ ChainsOK(m2, {}, {})
         /\ Fresh(m2.station[r.q][r.i], r.q, op, addr, f.PC, seq)
         /\ OnamesAre(m2.station[r.q][r.i], out) /\ Vectors(m, m2, r, out)
<1>1. PICK m1 : m1 = LinkIdeps(Fill(m, r, op, addr, f, npc, seq), r, in)
  OBVIOUS
<1>2. /\ CoreOK(m1) /\ Ring(m1) /\ SameVectors(m, m1) /\ Grows(m, m1, r)
      /\ ChainsOK(m1, {}, {}) /\ NoChains(m1, r)
      /\ Fresh(m1.station[r.q][r.i], r.q, op, addr, f.PC, seq)
  BY <1>1, FillLinkIs
<1>3. r.q \in Queues /\ r.i \in Slot(r.q)
  BY FreeSlot
<1>4. m2 = InstallOdeps(m1, r, out)
  BY <1>1 DEF Allocate
<1>5. /\ CoreOK(m2) /\ OnlyNames(m1, m2, r) /\ OnamesAre(m2.station[r.q][r.i], out)
      /\ Vectors(m1, m2, r, out)
  BY <1>2, <1>3, <1>4, InstallOdepsIs
<1>6. ChainsOK(m2, {}, {})
  BY <1>2, <1>3, <1>5, InstallChains
<1>7. Ring(m2)
  BY <1>2, <1>5 DEF OnlyNames, SameRing, Ring
<1>8. Grows(m, m2, r)
  <2>1. SameLists(m, m2) /\ Taking(m, m2, r)
    BY ONLY <1>2, <1>5, ZenonT(40) DEF Grows, OnlyNames, SameLists, SameRing, Taking
  <2>2. ASSUME NEW q \in Queues, NEW i \in Slot(q), Elsewhere(r, q, i)
        PROVE  /\ SameStatic(m.station[q][i], m2.station[q][i])
               /\ m2.station[q][i].queued = m.station[q][i].queued
               /\ m2.station[q][i].issued = m.station[q][i].issued
               /\ m2.station[q][i].completed = m.station[q][i].completed
               /\ m2.station[q][i].idep_ready = m.station[q][i].idep_ready
    <3>1. m2.station[q][i] = m1.station[q][i]
      BY ONLY <1>5, <2>2 DEF OnlyNames
    <3>2. /\ SameStatic(m.station[q][i], m1.station[q][i])
          /\ m1.station[q][i].queued = m.station[q][i].queued
          /\ m1.station[q][i].issued = m.station[q][i].issued
          /\ m1.station[q][i].completed = m.station[q][i].completed
          /\ m1.station[q][i].idep_ready = m.station[q][i].idep_ready
      BY ONLY <1>2, <2>2 DEF Grows
    <3> QED BY ONLY <3>1, <3>2
  <2>3. m2.station[r.q][r.i].tag = m.station[r.q][r.i].tag
    BY ONLY <1>2, <1>5 DEF Grows, OnlyNames
  <2> QED BY ONLY <2>1, <2>2, <2>3 DEF Grows
<1>9. Fresh(m2.station[r.q][r.i], r.q, op, addr, f.PC, seq)
  BY ONLY <1>2, <1>5 DEF OnlyNames, Fresh
<1>10. Vectors(m, m2, r, out)
  BY ONLY <1>2, <1>5 DEF Vectors, SameVectors, SameUse
<1> QED BY <1>5, <1>6, <1>7, <1>8, <1>9, <1>10

=============================================================================
