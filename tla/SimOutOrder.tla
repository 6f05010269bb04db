---------------------------- MODULE SimOutOrder ----------------------------
(***************************************************************************)
(* The out-of-order core of sim-outorder.c: instruction fetch, dispatch,   *)
(* issue, writeback and commit over a register update unit (RUU) and a     *)
(* load/store queue (LSQ), with execution down mispredicted paths.         *)
(*                                                                         *)
(* One pass of the main loop is one cycle; the stages run in the order     *)
(* commit, writeback, refresh, issue, dispatch, fetch, and one iteration   *)
(* of a stage's loop is one step.  Register values and memory contents are *)
(* the subject of SpeculativeState; here an instruction is what it reads   *)
(* and writes.                                                             *)
(* Caches, TLBs and the branch predictor are external: a step takes any    *)
(* latency and any predicted target they can return.  Event times are      *)
(* kept relative to sim_cycle.                                             *)
(***************************************************************************)
EXTENDS Integers, FiniteSets, ResourcePool

CONSTANTS
  RUU_size, LSQ_size, ruu_ifq_size,                      \* queue capacities
  ruu_decode_width, ruu_issue_width, ruu_commit_width,   \* per cycle
  fetch_speed,          \* fetch bandwidth, in multiples of the decode width
  ruu_branch_penalty,   \* cycles fetch waits after a misprediction
  max_insts,            \* instructions to execute before the run ends
  MAX_RS_LINKS,         \* size of the pool of reservation station links
  Regs,                 \* architected registers
  Programs,             \* program texts: sequences of instructions
  Configs,              \* [inorder_issue, include_spec, bugcompat, pred_perfect]
  LoadLats, TlbLats,    \* latencies the data cache and its TLB return
  FetchLats             \* latencies the instruction cache returns

DTMP == "DTMP"        \* the name that carries an address to its load or store
NA == "NA"            \* no register
NONE == [q |-> "NULL"] \* refers to no reservation station
MAX_IDEPS == 3
MAX_ODEPS == 2

\* sim_check_options(): the sizes the simulator accepts.
sim_check_options ==
  LET PowersOfTwo == {2 ^ k : k \in 0 .. 30}
  IN  /\ {ruu_ifq_size, ruu_decode_width, ruu_issue_width} \subseteq PowersOfTwo
      /\ {RUU_size, LSQ_size} \subseteq PowersOfTwo \ {1}
      /\ {ruu_commit_width, fetch_speed, ruu_branch_penalty} \subseteq Nat \ {0}

ASSUME SizesAssumption ==
  /\ sim_check_options
  /\ {RUU_size, LSQ_size, ruu_ifq_size, max_insts, MAX_RS_LINKS}
       \cup LoadLats \cup TlbLats \cup FetchLats \subseteq Nat \ {0}
  /\ DTMP \notin Regs /\ NA \notin Regs

\* What the instruction tables (pisa.def, alpha.def) give every instruction: two
\* outputs and three inputs.  Stores have no output, and the only instructions
\* with two write HI and LO.
Instructions ==
  [op : {"nop", "alu", "mult", "load", "store", "branch", "jump", "jr", "trap"},
   out : [1..MAX_ODEPS -> Regs \cup {NA}], in : [1..MAX_IDEPS -> Regs \cup {NA}],
   addr : Nat, target : Nat]

ASSUME ProgramsAssumption ==
  /\ \A p \in Programs :
       /\ p \in Seq(Instructions)
       /\ \A k \in 1..Len(p) :
            /\ p[k].op = "store" => p[k].out = <<NA, NA>>
            /\ p[k].out[1] = p[k].out[2] => p[k].out[1] = NA
  /\ Configs \subseteq [inorder_issue : BOOLEAN, include_spec : BOOLEAN,
                         bugcompat : BOOLEAN, pred_perfect : BOOLEAN]

VARIABLES
  text, config,         \* the program and the flags of the run
  core,                 \* RUU, LSQ, queues, create vectors, free links
  fu_busy,              \* unit -> cycles until it takes another operation
  spec_mode,            \* executing down a mispredicted path
  recover_PC,           \* where the correct path goes on
  ifq,                  \* IFETCH -> DISPATCH queue: [PC, pred_PC]
  fetch_pred_PC,        \* next address to fetch
  ruu_fetch_issue_delay,
  il1_block,            \* the block the last instruction cache miss brought in
  last_op,              \* last operation dispatched, for in-order issue
  inst_seq,             \* sequence number of the last operation
  sim_num_insn,         \* correct-path instructions executed
  stage, n, branch_cnt, \* stage of the cycle, its loop counters
  nodes                 \* ready list being issued from

vars == <<text, config, core, fu_busy, spec_mode, recover_PC, ifq,
          fetch_pred_PC, ruu_fetch_issue_delay, il1_block, last_op, inst_seq,
          sim_num_insn, stage, n, branch_cnt, nodes>>

frontend == <<ifq, fetch_pred_PC, ruu_fetch_issue_delay, il1_block>>
trace == <<text, config>>

-----------------------------------------------------------------------------
\* Instructions.  An address outside the text holds a NOP.

NOP == [op |-> "nop", out |-> <<NA, NA>>, in |-> <<NA, NA, NA>>,
        addr |-> 0, target |-> 0]

Bogus == Len(text) + 1

InstAt(pc) == IF pc \in DOMAIN text THEN text[pc] ELSE NOP

\* The address after pc; all addresses past the text are one.
After(pc) == IF pc \in DOMAIN text THEN pc + 1 ELSE Bogus

IsMem(op) == op \in {"load", "store"}
IsCtrl(op) == op \in {"branch", "jump", "jr"}
IsDirJmp(op) == op \in {"branch", "jump"}
IsLongLat(op) == op = "mult"
FuClass(op) == CASE op \in {"alu", "agen", "branch"} -> "IntALU"
                 [] op = "mult" -> "IntMULT"
                 [] op = "load" -> "RdPort"
                 [] op = "store" -> "WrPort"
                 [] OTHER -> NA

\* Where an instruction at pc can really go.
NextPCs(pc) ==
  LET i == InstAt(pc) IN
  CASE i.op = "branch" -> {After(pc), i.target}
    [] i.op = "jump" -> {i.target}
    [] i.op = "jr" -> {i.target, After(pc)}
    [] OTHER -> {After(pc)}

\* What bpred_lookup may answer for it: no taken target, its target, or an
\* address that is neither (a stale entry, or a direction without a target).
Predictions(pc) ==
  IF IsCtrl(InstAt(pc).op) THEN {After(pc), InstAt(pc).target, Bogus}
                           ELSE {After(pc)}

-----------------------------------------------------------------------------
\* Reservation stations.  A reference [q, i] names slot i of the RUU or LSQ;
\* a link is a reference with the tag its instruction had.

Size == [RUU |-> RUU_size, LSQ |-> LSQ_size]

IdleStation ==
  [op |-> "nop", PC |-> 0, next_PC |-> 0, in_LSQ |-> FALSE,
   ea_comp |-> FALSE, recover_inst |-> FALSE, spec_mode |-> FALSE,
   addr |-> 0, tag |-> 0, seq |-> 0, queued |-> FALSE, issued |-> FALSE,
   completed |-> FALSE, onames |-> <<NA, NA>>, odep_list |-> <<<<>>, <<>>>>,
   idep_ready |-> <<FALSE, FALSE, FALSE>>]

Ref(q, i) == [q |-> q, i |-> i]
RS(m, r) == m.station[r.q][r.i]
OPERANDS_READY(rs) == \A k \in 1..MAX_IDEPS : rs.idep_ready[k]
STORE_ADDR_READY(rs) == rs.idep_ready[2]
RSLINK_VALID(m, l) == RS(m, l).tag = l.tag
Link(m, r, x) == [q |-> r.q, i |-> r.i, tag |-> RS(m, r).tag, x |-> x]

Init ==
  /\ text \in Programs
  /\ config \in Configs
  /\ core = [station |-> [q \in {"RUU", "LSQ"} |->
                            [i \in 0..(Size[q] - 1) |-> IdleStation]],
             head |-> [RUU |-> 0, LSQ |-> 0],
             tail |-> [RUU |-> 0, LSQ |-> 0],
             num |-> [RUU |-> 0, LSQ |-> 0],
             ready_queue |-> <<>>, event_queue |-> <<>>,
             create_vector |-> [r \in Regs \cup {DTMP} |-> NONE],
             spec_create_vector |-> [r \in Regs \cup {DTMP} |-> NONE],
             use_spec_cv |-> {},
             free_links |-> MAX_RS_LINKS]
  /\ fu_busy = [u \in Units |-> 0]
  /\ spec_mode = FALSE /\ recover_PC = 0
  /\ ifq = <<>> /\ fetch_pred_PC = 1
  /\ ruu_fetch_issue_delay = 0 /\ il1_block = 0
  /\ last_op = NONE /\ inst_seq = 0 /\ sim_num_insn = 0
  /\ stage = "commit" /\ n = 0 /\ branch_cnt = 0 /\ nodes = <<>>

\* Insertion before the first element of a list that satisfies a test, at its
\* end if there is none.
InsertBefore(s, e, Test(_)) ==
  LET k == SelectInSeq(s, Test)
  IN InsertAt(s, IF k = 0 THEN Len(s) + 1 ELSE k, e)

\* Memory operations, long latency operations and branches go to the head of
\* the ready list, the others before the first younger one.
readyq_enqueue(m, r) ==
  LET rs == RS(m, r)
      node == Link(m, r, rs.seq)
      urgent == rs.in_LSQ \/ IsLongLat(rs.op) \/ IsCtrl(rs.op)
  IN [m EXCEPT !.station[r.q][r.i].queued = TRUE,
               !.free_links = @ - 1,
               !.ready_queue = IF urgent THEN <<node>> \o @
                               ELSE InsertBefore(@, node,
                                      LAMBDA e : e.x >= rs.seq)]

\* The event of r comes before every event that is not earlier.
eventq_queue_event(m, r, lat) ==
  [m EXCEPT !.free_links = @ - 1,
            !.event_queue = InsertBefore(@, Link(m, r, lat),
                                         LAMBDA e : e.x >= lat)]

-----------------------------------------------------------------------------
\* The create vector: which operation will produce a register.

CREATE_VECTOR(m, name) == IF name \in m.use_spec_cv
                          THEN m.spec_create_vector[name]
                          ELSE m.create_vector[name]

\* Input k of r waits for the operation that creates the register, or is
\* ready if there is none.
ruu_link_idep(m, r, k, name) ==
  LET creator == IF name = NA THEN NONE ELSE CREATE_VECTOR(m, name)
      waits == [m EXCEPT !.station[r.q][r.i].idep_ready[k] = FALSE]
  IN IF creator = NONE
     THEN [m EXCEPT !.station[r.q][r.i].idep_ready[k] = TRUE]
     ELSE [waits EXCEPT !.station[creator.q][creator.i].odep_list[creator.odep] =
                           <<Link(m, r, k)>> \o @,
                        !.free_links = @ - 1]

SET_CREATE_VECTOR(m, name, cv) ==
  IF spec_mode THEN [m EXCEPT !.use_spec_cv = @ \cup {name},
                              !.spec_create_vector[name] = cv]
               ELSE [m EXCEPT !.create_vector[name] = cv]

\* Output k of r becomes the creator of the register.
ruu_install_odep(m, r, k, name) ==
  LET cv == [q |-> r.q, i |-> r.i, odep |-> k]
      named == [m EXCEPT !.station[r.q][r.i].onames[k] = name]
      fresh == [named EXCEPT !.station[r.q][r.i].odep_list[k] = <<>>]
  IN IF name = NA THEN named ELSE SET_CREATE_VECTOR(fresh, name, cv)

-----------------------------------------------------------------------------
\* ruu_commit: the oldest operations retire once they, and the memory access
\* of a load or store, are complete; a store needs a port to the data cache.

HeadRS(q) == core.station[q][core.head[q]]

Retire(m, q) == [m EXCEPT !.station[q][m.head[q]].tag = @ + 1,
                          !.head[q] = (@ + 1) % Size[q],
                          !.num[q] = @ - 1]

RetiresStore == HeadRS("RUU").ea_comp /\ HeadRS("LSQ").op = "store"

CanCommit ==
  /\ core.num.RUU > 0 /\ n < ruu_commit_width
  /\ HeadRS("RUU").completed
  /\ HeadRS("RUU").ea_comp => HeadRS("LSQ").completed
  /\ RetiresStore => FreeUnits(fu_busy, "WrPort") # {}

Commit ==
  /\ stage = "commit" /\ CanCommit
  /\ n' = n + 1
  /\ core' = Retire(IF HeadRS("RUU").ea_comp THEN Retire(core, "LSQ")
                                             ELSE core, "RUU")
  /\ fu_busy' = IF RetiresStore
                THEN Reserve(fu_busy, res_get(fu_busy, "WrPort"), "WrPort")
                ELSE fu_busy
  /\ UNCHANGED <<trace, frontend, spec_mode, recover_PC, last_op, inst_seq,
                 sim_num_insn, stage, branch_cnt, nodes>>

\* The functional units are stepped between commit and writeback.
EndCommit ==
  /\ stage = "commit" /\ ~CanCommit
  /\ stage' = "writeback" /\ n' = 0
  /\ fu_busy' = ruu_release_fu(fu_busy)
  /\ UNCHANGED <<trace, frontend, core, spec_mode, recover_PC, last_op,
                 inst_seq, sim_num_insn, branch_cnt, nodes>>

-----------------------------------------------------------------------------
\* ruu_recover: the operations younger than the branch in slot b are squashed,
\* the LSQ giving up one entry for each address computation among them.

Distance(m, q, i) == (i - m.head[q]) % Size[q]

Youngest(m, q, k) == {(m.tail[q] - j) % Size[q] : j \in 1..k}

ChainLengths(rs) == Len(rs.odep_list[1]) + Len(rs.odep_list[2])

\* Mutant: the output chains of squashed stations are dropped, not freed.
Squash_leaks_links(m, q, k) ==
  LET gone == Youngest(m, q, k) IN
  [m EXCEPT
     !.station[q] = [i \in DOMAIN @ |->
        IF i \in gone
        THEN [m.station[q][i] EXCEPT !.tag = @ + 1,
                                        !.odep_list = <<<<>>, <<>>>>]
        ELSE @[i]],
     !.tail[q] = (@ - k) % Size[q],
     !.num[q] = @ - k]

Squash(m, q, k) ==
  LET gone == Youngest(m, q, k) IN
  [m EXCEPT
     !.station[q] = [i \in DOMAIN @ |->
        IF i \in gone
        THEN [m.station[q][i] EXCEPT !.tag = @ + 1,
                                        !.odep_list = <<<<>>, <<>>>>]
        ELSE @[i]],
     !.tail[q] = (@ - k) % Size[q],
     !.num[q] = @ - k,
     !.free_links = @ + MapThenSumSet(LAMBDA i : ChainLengths(m.station[q][i]),
                                     gone)]

\* Mutant: the LSQ is not synchronised with the RUU.
ruu_recover_only_RUU(m, b) ==
  LET k == m.num.RUU - 1 - Distance(m, "RUU", b)
  IN [Squash(m, "RUU", k) EXCEPT !.use_spec_cv = {}]

\* Mutant: the copied-on-write bits of the create vector stay set.
ruu_recover_keeps_cv(m, b) ==
  LET k == m.num.RUU - 1 - Distance(m, "RUU", b)
      l == Cardinality({i \in Youngest(m, "RUU", k) :
                          m.station.RUU[i].ea_comp})
  IN Squash(Squash(m, "LSQ", l), "RUU", k)

ruu_recover(m, b) ==
  LET k == m.num.RUU - 1 - Distance(m, "RUU", b)
      l == Cardinality({i \in Youngest(m, "RUU", k) :
                          m.station.RUU[i].ea_comp})
  IN [Squash(Squash(m, "LSQ", l), "RUU", k) EXCEPT !.use_spec_cv = {}]

\* Mutant: only operations of the RUU are scheduled when woken up.
Wakeup_not_LSQ(m, r, k) ==
  LET l == Head(RS(m, r).odep_list[k])
      taken == [m EXCEPT !.station[r.q][r.i].odep_list[k] = Tail(@),
                         !.free_links = @ + 1]
      woken == [taken EXCEPT !.station[l.q][l.i].idep_ready[l.x] = TRUE]
      rs == RS(woken, l)
  IN IF ~RSLINK_VALID(m, l) THEN taken
     ELSE IF OPERANDS_READY(rs) /\ ~rs.in_LSQ THEN readyq_enqueue(woken, l)
     ELSE woken

\* The first link of the chain of output k is taken off, and the operation it
\* names, if it is still there, has one more operand.
Wakeup(m, r, k) ==
  LET l == Head(RS(m, r).odep_list[k])
      taken == [m EXCEPT !.station[r.q][r.i].odep_list[k] = Tail(@),
                         !.free_links = @ + 1]
      woken == [taken EXCEPT !.station[l.q][l.i].idep_ready[l.x] = TRUE]
      rs == RS(woken, l)
  IN IF ~RSLINK_VALID(m, l) THEN taken
     ELSE IF OPERANDS_READY(rs) /\ (~rs.in_LSQ \/ rs.op = "store")
     THEN readyq_enqueue(woken, l)
     ELSE woken

\* Output k of r is broadcast: the register has no creator any more if r was
\* the latest one, and the operations waiting for it are woken up.
Broadcast(m, r, k) ==
  LET rs == RS(m, r)
      name == rs.onames[k]
      cv == [q |-> r.q, i |-> r.i, odep |-> k]
      done == IF rs.spec_mode
              THEN [m EXCEPT !.spec_create_vector[name] =
                               IF @ = cv THEN NONE ELSE @]
              ELSE [m EXCEPT !.create_vector[name] =
                               IF @ = cv THEN NONE ELSE @]
      woken[j \in 0..Len(rs.odep_list[k])] ==
        IF j = 0 THEN done ELSE Wakeup(woken[j - 1], r, k)
  IN IF name = NA THEN m ELSE woken[Len(rs.odep_list[k])]

\* eventq_next_event and the body of ruu_writeback.
EventDue == core.event_queue # <<>> /\ Head(core.event_queue).x <= 0

PopEvent == [core EXCEPT !.event_queue = Tail(@), !.free_links = @ + 1]

DropSquashedEvent ==
  /\ stage = "writeback" /\ EventDue
  /\ ~RSLINK_VALID(core, Head(core.event_queue))
  /\ core' = PopEvent
  /\ UNCHANGED <<trace, frontend, fu_busy, spec_mode, recover_PC, last_op,
                 inst_seq, sim_num_insn, stage, n, branch_cnt, nodes>>

\* Mutant: the instructions fetched down the wrong path stay in the queue.
tracer_recover_keeps_queue ==
  spec_mode' = FALSE /\ ifq' = ifq /\ fetch_pred_PC' = recover_PC

\* Execution goes back to the correct path.
tracer_recover ==
  spec_mode' = FALSE /\ ifq' = <<>> /\ fetch_pred_PC' = recover_PC

Writeback ==
  /\ stage = "writeback" /\ EventDue
  /\ LET r == Head(core.event_queue)
         m == [PopEvent EXCEPT !.station[r.q][r.i].completed = TRUE]
         recovers == RS(core, r).recover_inst
         recovered == IF recovers THEN ruu_recover(m, r.i) ELSE m
     IN /\ RSLINK_VALID(core, r)
        /\ core' = Broadcast(Broadcast(recovered, r, 1), r, 2)
        /\ IF recovers
           THEN /\ tracer_recover
                /\ ruu_fetch_issue_delay' = ruu_branch_penalty
           ELSE UNCHANGED <<spec_mode, ifq, fetch_pred_PC,
                            ruu_fetch_issue_delay>>
  /\ UNCHANGED <<trace, fu_busy, recover_PC, il1_block, last_op, inst_seq,
                 sim_num_insn, stage, n, branch_cnt, nodes>>

EndWriteback ==
  /\ stage = "writeback" /\ ~EventDue
  /\ stage' = IF config.bugcompat THEN "dispatch" ELSE "refresh"
  /\ UNCHANGED <<trace, frontend, core, fu_busy, spec_mode, recover_PC,
                 last_op, inst_seq, sim_num_insn, n, branch_cnt, nodes>>

-----------------------------------------------------------------------------
\* lsq_refresh: a load with its operands ready may execute when every older
\* store has its address, and no older store to the same address lacks its
\* data.  A younger store with data hides an older one without, whose address
\* is then replaced by address 0.

LSQAt(p) == core.station.LSQ[(core.head.LSQ + p) % LSQ_size]

StoreAt(p) == LSQAt(p).op = "store"

StdUnknown(s) == StoreAt(s) /\ ~OPERANDS_READY(LSQAt(s))

Hidden(s, p) == \E t \in (s + 1)..(p - 1) :
                  /\ StoreAt(t) /\ OPERANDS_READY(LSQAt(t))
                  /\ LSQAt(t).addr = LSQAt(s).addr

Conflict(p) == \E s \in 0..(p - 1) :
                 /\ StdUnknown(s)
                 /\ LSQAt(p).addr = IF Hidden(s, p) THEN 0 ELSE LSQAt(s).addr

\* Mutant: only stores without an address hold a load back.
ReadyLoad_ignores_data(p) ==
  /\ LSQAt(p).op = "load"
  /\ ~LSQAt(p).queued /\ ~LSQAt(p).issued /\ ~LSQAt(p).completed
  /\ OPERANDS_READY(LSQAt(p))
  /\ \A s \in 0..(p - 1) : StoreAt(s) => STORE_ADDR_READY(LSQAt(s))

ReadyLoad(p) ==
  /\ LSQAt(p).op = "load"
  /\ ~LSQAt(p).queued /\ ~LSQAt(p).issued /\ ~LSQAt(p).completed
  /\ OPERANDS_READY(LSQAt(p))
  /\ \A s \in 0..(p - 1) : StoreAt(s) => STORE_ADDR_READY(LSQAt(s))
  /\ ~Conflict(p)

ReadyLoads == {p \in 0..(core.num.LSQ - 1) : ReadyLoad(p)}

\* The loop releases one load after the other, the oldest first.
RefreshLoad ==
  /\ stage = "refresh" /\ ReadyLoads # {}
  /\ LET p == CHOOSE p \in ReadyLoads : \A o \in ReadyLoads : p <= o
     IN core' = readyq_enqueue(core, Ref("LSQ", (core.head.LSQ + p) % LSQ_size))
  /\ UNCHANGED <<trace, frontend, fu_busy, spec_mode, recover_PC, last_op,
                 inst_seq, sim_num_insn, stage, n, branch_cnt, nodes>>

\* The ready list is taken over by ruu_issue.
EndRefresh ==
  /\ stage = "refresh" /\ ReadyLoads = {}
  /\ nodes' = core.ready_queue
  /\ core' = [core EXCEPT !.ready_queue = <<>>]
  /\ stage' = "issue" /\ n' = 0
  /\ UNCHANGED <<trace, frontend, fu_busy, spec_mode, recover_PC, last_op,
                 inst_seq, sim_num_insn, branch_cnt>>

-----------------------------------------------------------------------------
\* ruu_issue: operations of the ready list start to execute.

IssueNext(m) == /\ core' = m
                /\ nodes' = Tail(nodes)
                /\ UNCHANGED <<trace, frontend, spec_mode, recover_PC, last_op,
                               inst_seq, sim_num_insn, stage, branch_cnt>>

Issuing(valid) == /\ stage = "issue" /\ nodes # <<>> /\ n < ruu_issue_width
                  /\ RSLINK_VALID(core, Head(nodes)) = valid

FreeNode == [core EXCEPT !.free_links = @ + 1]

Unqueued(r) == [FreeNode EXCEPT !.station[r.q][r.i].queued = FALSE]

DropSquashedNode ==
  /\ Issuing(FALSE)
  /\ IssueNext(FreeNode)
  /\ UNCHANGED <<fu_busy, n>>

\* A store completes at once; its data goes to the cache when it commits.
IssueStore ==
  /\ Issuing(TRUE)
  /\ LET r == Head(nodes) IN
     /\ RS(core, r).op = "store"
     /\ IssueNext([Unqueued(r) EXCEPT !.station[r.q][r.i].issued = TRUE,
                                      !.station[r.q][r.i].completed = TRUE])
  /\ n' = n + 1
  /\ UNCHANGED fu_busy

\* A load takes its value from the youngest older store to its address that
\* is still in the LSQ, or from the data cache.
Forwarded(r) ==
  \E p \in 0..(Distance(core, "LSQ", r.i) - 1) :
    StoreAt(p) /\ LSQAt(p).addr = RS(core, r).addr

LoadLatencies(r) ==
  {IF c > t THEN c ELSE t :
     c \in IF Forwarded(r) THEN {1} ELSE LoadLats, t \in TlbLats}

IssueToUnit ==
  /\ Issuing(TRUE)
  /\ LET r == Head(nodes)
         op == RS(core, r).op
         class == FuClass(op)
         u == res_get(fu_busy, class)
     IN /\ op # "store" /\ class # NA
        /\ FreeUnits(fu_busy, class) # {}
        /\ fu_busy' = Reserve(fu_busy, u, class)
        /\ \E lat \in IF op = "load" THEN LoadLatencies(r)
                                     ELSE {fu_pool[u][class].oplat} :
             IssueNext(eventq_queue_event(
               [Unqueued(r) EXCEPT !.station[r.q][r.i].issued = TRUE], r, lat))
  /\ n' = n + 1

IssueNoFreeUnit ==
  /\ Issuing(TRUE)
  /\ LET r == Head(nodes) IN
     /\ RS(core, r).op # "store" /\ FuClass(RS(core, r).op) # NA
     /\ FreeUnits(fu_busy, FuClass(RS(core, r).op)) = {}
     /\ IssueNext(readyq_enqueue(Unqueued(r), r))
  /\ UNCHANGED <<fu_busy, n>>

IssueWithoutUnit ==
  /\ Issuing(TRUE)
  /\ LET r == Head(nodes) IN
     /\ FuClass(RS(core, r).op) = NA
     /\ IssueNext(eventq_queue_event(
          [Unqueued(r) EXCEPT !.station[r.q][r.i].issued = TRUE], r, 1))
  /\ n' = n + 1
  /\ UNCHANGED fu_busy

\* What was not reached goes back to the ready list.
Requeue ==
  /\ stage = "issue" /\ nodes # <<>> /\ n >= ruu_issue_width
  /\ LET r == Head(nodes)
     IN IssueNext(IF RSLINK_VALID(core, r) THEN readyq_enqueue(Unqueued(r), r)
                                           ELSE FreeNode)
  /\ UNCHANGED <<fu_busy, n>>

EndIssue ==
  /\ stage = "issue" /\ nodes = <<>>
  /\ stage' = IF config.bugcompat THEN "fetch" ELSE "dispatch"
  /\ n' = 0
  /\ UNCHANGED <<trace, frontend, core, fu_busy, spec_mode, recover_PC,
                 last_op, inst_seq, sim_num_insn, branch_cnt, nodes>>

-----------------------------------------------------------------------------
\* ruu_dispatch: decode, execute, and allocate RUU and LSQ entries.

StalledInOrder ==
  /\ config.inorder_issue /\ last_op # NONE
  /\ RSLINK_VALID(core, last_op) /\ ~OPERANDS_READY(RS(core, last_op))

\* Mutant: in-order issue waits for an operation that may have been squashed.
CanDispatch_stale_last_op ==
  /\ n < ruu_decode_width * fetch_speed
  /\ core.num.RUU < RUU_size /\ core.num.LSQ < LSQ_size
  /\ ifq # <<>>
  /\ config.include_spec \/ ~spec_mode
  /\ ~(/\ config.inorder_issue /\ last_op # NONE
       /\ ~OPERANDS_READY(RS(core, last_op)))
  /\ InstAt(Head(ifq).PC).op = "trap" => core.num.RUU = 0

CanDispatch ==
  /\ n < ruu_decode_width * fetch_speed
  /\ core.num.RUU < RUU_size /\ core.num.LSQ < LSQ_size
  /\ ifq # <<>>
  /\ config.include_spec \/ ~spec_mode
  /\ ~StalledInOrder
  /\ InstAt(Head(ifq).PC).op = "trap" => core.num.RUU = 0

\* Slot r is filled with an operation of instruction f that goes on at npc.
Fill(m, r, op, addr, f, npc, seq) ==
  [m EXCEPT
     !.station[r.q][r.i] =
       [@ EXCEPT !.op = op, !.PC = f.PC, !.next_PC = npc,
                 !.in_LSQ = (r.q = "LSQ"), !.recover_inst = FALSE,
                 !.ea_comp = (op = "agen"), !.spec_mode = spec_mode,
                 !.addr = addr, !.seq = seq, !.queued = FALSE,
                 !.issued = FALSE, !.completed = FALSE],
     !.tail[r.q] = (@ + 1) % Size[r.q],
     !.num[r.q] = @ + 1]

LinkIdeps(m, r, in) ==
  ruu_link_idep(ruu_link_idep(ruu_link_idep(m, r, 1, in[1]),
                              r, 2, in[2]), r, 3, in[3])

InstallOdeps(m, r, out) ==
  ruu_install_odep(ruu_install_odep(m, r, 1, out[1]), r, 2, out[2])

\* A reservation station is filled and linked to its producers; from now on
\* it produces its outputs.
Allocate(m, r, op, addr, f, npc, seq, in, out) ==
  InstallOdeps(LinkIdeps(Fill(m, r, op, addr, f, npc, seq), r, in), r, out)

EnqueueIfReady(m, r) == IF OPERANDS_READY(RS(m, r)) THEN readyq_enqueue(m, r)
                                                    ELSE m

\* A load or store is an address computation in the RUU and an access in the
\* LSQ that waits for the address.
DispatchMem(m, f, npc, i) ==
  LET r == Ref("RUU", m.tail.RUU)
      l == Ref("LSQ", m.tail.LSQ)
      agen == Allocate(m, r, "agen", 0, f, npc, inst_seq + 1,
                       <<NA, i.in[2], i.in[3]>>, <<DTMP, NA>>)
      access == Allocate(agen, l, i.op, i.addr, f, npc, inst_seq + 2,
                         <<i.in[1], DTMP, NA>>, i.out)
      queued == EnqueueIfReady(access, r)
  IN IF i.op = "store" THEN EnqueueIfReady(queued, l) ELSE queued

DispatchOp(m, f, npc, i) ==
  LET r == Ref("RUU", m.tail.RUU)
  IN EnqueueIfReady(Allocate(m, r, i.op, 0, f, npc, inst_seq + 1, i.in, i.out), r)

\* A perfect predictor is patched up, and so is a wrong target predicted for
\* a direct jump: fetch restarts at the right address.
Redirects(f, npc, i) ==
  \/ f.pred_PC # npc /\ config.pred_perfect
  \/ IsDirJmp(i.op) /\ i.target # f.pred_PC /\ f.pred_PC # After(f.PC)

\* Mutant: a wrong prediction on the wrong path starts mis-speculation anew.
Misspeculates_again(f, npc, i) == f.pred_PC # npc /\ ~Redirects(f, npc, i)

\* Any other wrong prediction on the correct path starts mis-speculation.
Misspeculates(f, npc, i) ==
  ~spec_mode /\ f.pred_PC # npc /\ ~Redirects(f, npc, i)

Dispatch ==
  /\ stage = "dispatch" /\ CanDispatch
  /\ LET f == Head(ifq)
         i == InstAt(f.PC)
         r == Ref("RUU", core.tail.RUU)
     IN \E npc \in NextPCs(f.PC) :
          /\ LET m == CASE i.op = "nop" -> core
                        [] IsMem(i.op) -> DispatchMem(core, f, npc, i)
                        [] OTHER -> DispatchOp(core, f, npc, i)
             IN /\ core' = IF Misspeculates(f, npc, i)
                           THEN [m EXCEPT
                                   !.station[r.q][r.i].recover_inst = TRUE]
                           ELSE m
                /\ last_op' = CASE i.op = "nop" -> last_op
                                [] IsMem(i.op) ->
                                     Link(m, Ref("LSQ", core.tail.LSQ), 0)
                                [] OTHER -> IF OPERANDS_READY(RS(m, r))
                                            THEN NONE ELSE Link(m, r, 0)
          /\ spec_mode' = (spec_mode \/ Misspeculates(f, npc, i))
          /\ recover_PC' = IF Misspeculates(f, npc, i) THEN npc ELSE recover_PC
          /\ IF Redirects(f, npc, i)
             THEN /\ ifq' = <<>>
                  /\ fetch_pred_PC' = npc
                  /\ ruu_fetch_issue_delay' =
                       IF config.pred_perfect THEN ruu_fetch_issue_delay
                                              ELSE ruu_branch_penalty
             ELSE /\ ifq' = Tail(ifq)
                  /\ UNCHANGED <<fetch_pred_PC, ruu_fetch_issue_delay>>
          /\ inst_seq' = inst_seq + (CASE i.op = "nop" -> 0
                                       [] IsMem(i.op) -> 2 [] OTHER -> 1)
          /\ n' = IF i.op = "nop" THEN n ELSE n + 1
  /\ sim_num_insn' = IF spec_mode THEN sim_num_insn ELSE sim_num_insn + 1
  /\ UNCHANGED <<trace, fu_busy, il1_block, stage, branch_cnt, nodes>>

\* The exit system call leaves the simulator from the middle of dispatch; the
\* window has been drained for it.
ExitSyscall ==
  /\ stage = "dispatch" /\ CanDispatch
  /\ InstAt(Head(ifq).PC).op = "trap"
  /\ stage' = "halted"
  /\ sim_num_insn' = sim_num_insn + 1
  /\ UNCHANGED <<trace, frontend, core, fu_busy, spec_mode, recover_PC,
                 last_op, inst_seq, n, branch_cnt, nodes>>

EndDispatch ==
  /\ stage = "dispatch" /\ ~CanDispatch
  /\ stage' = IF config.bugcompat THEN "refresh" ELSE "fetch"
  /\ n' = 0
  /\ UNCHANGED <<trace, frontend, core, fu_busy, spec_mode, recover_PC,
                 last_op, inst_seq, sim_num_insn, branch_cnt, nodes>>

-----------------------------------------------------------------------------
\* ruu_fetch: fetch along the predicted path until the queue is full, a
\* predicted jump ends the cycle's fetch, or the instruction cache misses.

CanFetch == /\ stage = "fetch" /\ ruu_fetch_issue_delay = 0
            /\ n < ruu_decode_width * fetch_speed
            /\ Len(ifq) < ruu_ifq_size
            /\ branch_cnt < fetch_speed

Fetch ==
  /\ CanFetch
  /\ \E pred \in Predictions(fetch_pred_PC) :
       /\ ifq' = Append(ifq, [PC |-> fetch_pred_PC, pred_PC |-> pred])
       /\ branch_cnt' = IF pred = After(fetch_pred_PC) THEN branch_cnt
                                                       ELSE branch_cnt + 1
       /\ fetch_pred_PC' = pred
  /\ n' = n + 1
  /\ UNCHANGED <<trace, core, fu_busy, spec_mode, recover_PC, il1_block,
                 ruu_fetch_issue_delay, last_op, inst_seq, sim_num_insn,
                 stage, nodes>>

\* One cycle later every event is one cycle nearer.
Aged(s) == [k \in DOMAIN s |-> [s[k] EXCEPT !.x = @ - 1]]

\* The end of the main loop's body: time passes, and the run ends when enough
\* instructions have been executed.
EndCycle ==
  /\ core' = [core EXCEPT !.event_queue = Aged(@)]
  /\ stage' = IF sim_num_insn >= max_insts THEN "halted" ELSE "commit"
  /\ n' = 0 /\ branch_cnt' = 0
  /\ UNCHANGED <<trace, fu_busy, spec_mode, recover_PC, ifq, fetch_pred_PC,
                 last_op, inst_seq, sim_num_insn, nodes>>

FetchMiss ==
  /\ CanFetch
  /\ fetch_pred_PC \in DOMAIN text /\ fetch_pred_PC # il1_block
  /\ \E lat \in FetchLats : ruu_fetch_issue_delay' = lat - 1
  /\ il1_block' = fetch_pred_PC
  /\ EndCycle

FetchBlocked ==
  /\ stage = "fetch" /\ ruu_fetch_issue_delay > 0
  /\ ruu_fetch_issue_delay' = ruu_fetch_issue_delay - 1
  /\ UNCHANGED il1_block
  /\ EndCycle

EndFetch ==
  /\ stage = "fetch" /\ ruu_fetch_issue_delay = 0 /\ ~CanFetch
  /\ UNCHANGED <<ruu_fetch_issue_delay, il1_block>>
  /\ EndCycle

Halted == stage = "halted" /\ UNCHANGED vars

Next ==
  \/ Commit \/ EndCommit
  \/ Writeback \/ DropSquashedEvent \/ EndWriteback
  \/ RefreshLoad \/ EndRefresh
  \/ IssueStore \/ IssueToUnit \/ IssueNoFreeUnit \/ IssueWithoutUnit
  \/ DropSquashedNode \/ Requeue \/ EndIssue
  \/ Dispatch \/ ExitSyscall \/ EndDispatch
  \/ Fetch \/ FetchMiss \/ FetchBlocked \/ EndFetch
  \/ Halted

Spec == Init /\ [][Next]_vars /\ WF_vars(Next)

-----------------------------------------------------------------------------
\* Properties.

Slots(q) == {(core.head[q] + k) % Size[q] : k \in 0..(core.num[q] - 1)}

InFlight == {Ref("RUU", i) : i \in Slots("RUU")}
              \cup {Ref("LSQ", i) : i \in Slots("LSQ")}

TypeOK ==
  /\ \A q \in {"RUU", "LSQ"} :
       /\ core.head[q] \in 0..(Size[q] - 1) /\ core.tail[q] \in 0..(Size[q] - 1)
       /\ core.num[q] \in 0..Size[q]
  /\ fu_busy \in [Units -> Nat]
  /\ spec_mode \in BOOLEAN
  /\ Len(ifq) <= ruu_ifq_size
  /\ stage \in {"commit", "writeback", "refresh", "issue", "dispatch",
                "fetch", "halted"}

\* The conditions under which sim_main, ruu_commit, ruu_writeback, ruu_issue
\* and ruu_dispatch panic never hold where they are tested: queue pointers
\* that disagree with the counts, RUU and LSQ out of step, a retired
\* operation somebody still waits for, a completion or issue of an operation
\* in the wrong state, a speculative system call.
NoPanic ==
  /\ stage = "commit" =>
       /\ core.num.RUU >= core.num.LSQ
       /\ \A q \in {"RUU", "LSQ"} :
            (core.head[q] + core.num[q]) % Size[q] = core.tail[q]
       /\ CanCommit => ChainLengths(HeadRS("RUU")) = 0
       /\ CanCommit /\ HeadRS("RUU").ea_comp =>
            /\ core.num.LSQ > 0 /\ HeadRS("LSQ").in_LSQ
            /\ HeadRS("LSQ").PC = HeadRS("RUU").PC
  /\ stage = "writeback" /\ EventDue
       /\ RSLINK_VALID(core, Head(core.event_queue)) =>
         LET rs == RS(core, Head(core.event_queue)) IN
         /\ OPERANDS_READY(rs) /\ ~rs.queued /\ rs.issued /\ ~rs.completed
         /\ rs.recover_inst => ~rs.in_LSQ /\ spec_mode
  /\ Issuing(TRUE) =>
         LET rs == RS(core, Head(nodes)) IN
         /\ OPERANDS_READY(rs) /\ rs.queued /\ ~rs.issued /\ ~rs.completed
         /\ rs.op = "store" => rs.onames = <<NA, NA>> /\ ~rs.recover_inst
  /\ stage = "dispatch" /\ CanDispatch
       /\ InstAt(Head(ifq).PC).op = "trap" => ~spec_mode

\* In mis-speculation mode exactly one operation in flight is the mispredicted
\* one, still to complete, and exactly the operations younger than it are
\* speculative; otherwise nothing speculative is in flight.
SpeculationBoundary ==
  LET culprits == {r \in InFlight : /\ RS(core, r).recover_inst
                                    /\ ~RS(core, r).completed}
  IN /\ Cardinality(culprits) = IF spec_mode THEN 1 ELSE 0
     /\ \A r \in InFlight :
          RS(core, r).spec_mode <=>
            \E c \in culprits : RS(core, c).seq < RS(core, r).seq

\* The creator a consumer of the register is linked to: the youngest operation
\* in flight that writes it, unless that one has completed.
Producer(S, name) ==
  LET writers == {cv \in {[q |-> r.q, i |-> r.i, odep |-> k] :
                              r \in S, k \in 1..MAX_ODEPS} :
                    RS(core, cv).onames[cv.odep] = name}
      latest == CHOOSE cv \in writers :
                  \A w \in writers : RS(core, w).seq <= RS(core, cv).seq
  IN IF writers = {} \/ RS(core, latest).completed THEN NONE ELSE latest

\* The create vector and its speculative copy always name the youngest
\* producer: recovery brings back the state of the correct path although
\* operations of both paths completed in between.
CreateVectorPrecise ==
  \A name \in Regs \cup {DTMP} :
    /\ CREATE_VECTOR(core, name) = Producer(InFlight, name)
    /\ core.create_vector[name] =
         Producer({r \in InFlight : ~RS(core, r).spec_mode}, name)

LinksTo(s, r) ==
  Cardinality({k \in DOMAIN s : /\ s[k].q = r.q /\ s[k].i = r.i
                                /\ s[k].tag = RS(core, r).tag})

\* The places on output chains, as <<producer, output, position>>, where
\* input o of r is linked.
WaitLinks(r, o) ==
  LET here == Link(core, r, o) IN
  UNION {{<<p, d, k>> : k \in {k \in DOMAIN RS(core, p).odep_list[d] :
                                 RS(core, p).odep_list[d][k] = here}} :
           p \in InFlight, d \in 1..MAX_ODEPS}

\* No wakeup is lost or doubled: an operand that is not ready is on exactly
\* one output chain, of an older operation still to complete; an operation
\* that was queued is in the ready list once, one that executes has one
\* pending event, and one with all operands is neither only if it is a load
\* that lsq_refresh has to release.
NoLostWakeup ==
  \A r \in InFlight :
    LET rs == RS(core, r) IN
    /\ LinksTo(core.ready_queue \o nodes, r) = IF rs.queued THEN 1 ELSE 0
    /\ LinksTo(core.event_queue, r) =
         IF rs.issued /\ ~rs.completed THEN 1 ELSE 0
    /\ \A o \in 1..MAX_IDEPS :
         /\ Cardinality(WaitLinks(r, o)) = IF rs.idep_ready[o] THEN 0 ELSE 1
         /\ \A w \in WaitLinks(r, o) : /\ RS(core, w[1]).seq < rs.seq
                                       /\ ~RS(core, w[1]).completed
    /\ OPERANDS_READY(rs) /\ ~rs.queued /\ ~rs.issued => rs.op = "load"

\* A load is not scheduled before every older store in the LSQ has its
\* address and the youngest older store to the load's address has its data.
LoadsWaitForStores ==
  \A p \in 0..(core.num.LSQ - 1) :
    (LSQAt(p).op = "load" /\ (LSQAt(p).queued \/ LSQAt(p).issued)) =>
      \A s \in {s \in 0..(p - 1) : StoreAt(s)} :
        /\ STORE_ADDR_READY(LSQAt(s))
        /\ \/ LSQAt(s).addr # LSQAt(p).addr \/ OPERANDS_READY(LSQAt(s))
           \/ \E t \in (s + 1)..(p - 1) :
                StoreAt(t) /\ LSQAt(t).addr = LSQAt(p).addr

\* No reservation station link leaks or is freed twice: the free ones and the
\* ones on the lists are the links allocated at the start, whatever was
\* squashed in between.
LinksConserved ==
  /\ core.free_links >= 0
  /\ core.free_links + Len(core.ready_queue) + Len(nodes)
       + Len(core.event_queue)
       + MapThenSumSet(LAMBDA i : ChainLengths(core.station.RUU[i]),
                       0..(RUU_size - 1))
       + MapThenSumSet(LAMBDA i : ChainLengths(core.station.LSQ[i]),
                       0..(LSQ_size - 1)) = MAX_RS_LINKS

\* The machine never wedges: the run ends, because max_insts instructions of
\* the correct path get executed or the program exits.
RunEnds == <>(stage = "halted")

=============================================================================
