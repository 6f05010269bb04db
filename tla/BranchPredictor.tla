-------------------------- MODULE BranchPredictor --------------------------
(***************************************************************************)
(* The branch predictors of SimpleScalar (bpred.c): direction tables of    *)
(* two-bit counters (bimodal, two-level, and both under a meta predictor), *)
(* a set-associative branch target buffer and a return address stack.      *)
(*                                                                         *)
(* A predictor is a record; an operation returns the new one.  Addresses   *)
(* count instructions and are at least 2, because a lookup also returns 0  *)
(* (predicted not taken) and 1 (taken, target unknown).  They are small,   *)
(* so the high half that BIMOD_HASH folds in is zero.  The statistics that *)
(* no decision reads (lookups, hits, pops) are left out.                   *)
(***************************************************************************)
EXTENDS Integers, Sequences, SequencesExt, Bitwise

NotTaken == 0
Unknown  == 1

IsUncond(op)  == op \in {"jump", "call", "jr", "ret"}
MD_IS_CALL(op)   == op = "call"
MD_IS_RETURN(op) == op = "ret"
MD_IS_INDIR(op)  == op \in {"jr", "ret"}

\* What bpred_create accepts.
Powers == {1, 2, 4, 8, 16}

ClassOK(g) ==
  /\ g.class \in {"comb", "2lev"} =>
       /\ {g.l1size, g.l2size} \subseteq Powers
       /\ g.shift_width \in 1 .. 30
  /\ g.class \in {"comb", "2bit"} => g.bimod_size \in Powers
  /\ g.class = "comb" => g.meta_size \in Powers
  /\ g.class \in {"comb", "2lev", "2bit"} =>
       /\ {g.btb_sets, g.btb_assoc} \subseteq Powers
       /\ g.retstack_size \in {0} \cup Powers

Stateful(g) == g.class \in {"comb", "2lev", "2bit"}

-----------------------------------------------------------------------------
\* The counters start weakly taken and weakly not taken in turn.
bpred_dir_create(size) == [i \in 0 .. size - 1 |-> 1 + (i % 2)]

bpred_create(g) ==
  [bimod     |-> IF g.class \in {"comb", "2bit"}
                 THEN bpred_dir_create(g.bimod_size) ELSE << >>,
   l2table   |-> IF g.class \in {"comb", "2lev"}
                 THEN bpred_dir_create(g.l2size) ELSE << >>,
   shiftregs |-> IF g.class \in {"comb", "2lev"}
                 THEN [i \in 0 .. g.l1size - 1 |-> 0] ELSE << >>,
   meta      |-> IF g.class = "comb"
                 THEN bpred_dir_create(g.meta_size) ELSE << >>,
   btb       |-> IF Stateful(g)
                 THEN [s \in 0 .. g.btb_sets - 1 |->
                         [lru |-> [i \in 1 .. g.btb_assoc |-> i],
                          ent |-> [w \in 1 .. g.btb_assoc |->
                                     [addr |-> 0, target |-> 0]]]]
                 ELSE << >>,
   stack     |-> IF Stateful(g)
                 THEN [i \in 0 .. g.retstack_size - 1 |-> 0] ELSE << >>,
   tos       |-> IF Stateful(g) THEN g.retstack_size - 1 ELSE 0]

\* Where a branch finds its counter in a direction table.
BIMOD_HASH(size, baddr) == baddr % size

TwoLevelIndex(g, pred, baddr) ==
  LET reg  == pred.shiftregs[baddr % g.l1size]
      low  == IF g.xor THEN (reg ^^ baddr) % (2 ^ g.shift_width) ELSE reg
  IN  (low + baddr * 2 ^ g.shift_width) % g.l2size

\* A pointer into a direction table: <<table, index>>.
bpred_dir_lookup(g, pred, table, baddr) ==
  <<table, CASE table = "bimod"   -> BIMOD_HASH(g.bimod_size, baddr)
             [] table = "meta"    -> BIMOD_HASH(g.meta_size, baddr)
             [] table = "l2table" -> TwoLevelIndex(g, pred, baddr)>>

NULL == <<"none", 0>>

Counter(pred, p) == pred[p[1]][p[2]]

PredictsTaken(pred, p) == Counter(pred, p) >= 2

\* The way of the BTB set of an address that holds it, or 0.
BTBSet(g, baddr) == baddr % g.btb_sets

BTBWay(g, pred, baddr) ==
  LET ent == pred.btb[BTBSet(g, baddr)].ent
      i   == SelectInSeq(ent, LAMBDA e : e.addr = baddr)
  IN  i

-----------------------------------------------------------------------------
(***************************************************************************)
(* bpred_lookup.  The update record remembers the counters used, so that a *)
(* later update changes those, whatever the history has become.            *)
(***************************************************************************)
NoUpdate == [ras |-> FALSE, pdir1 |-> NULL, pdir2 |-> NULL, pmeta |-> NULL,
             bimod |-> FALSE, twolev |-> FALSE]

DirUpdate(g, pred, baddr, op) ==
  IF IsUncond(op) \/ ~Stateful(g) THEN NoUpdate
  ELSE LET bimod  == bpred_dir_lookup(g, pred, "bimod", baddr)
           twolev == bpred_dir_lookup(g, pred, "l2table", baddr)
           meta   == bpred_dir_lookup(g, pred, "meta", baddr)
       IN  CASE g.class = "2bit" -> [NoUpdate EXCEPT !.pdir1 = bimod]
             [] g.class = "2lev" -> [NoUpdate EXCEPT !.pdir1 = twolev]
             [] g.class = "comb" ->
                  LET use2 == PredictsTaken(pred, meta)
                  IN  [ras    |-> FALSE,
                       pdir1  |-> IF use2 THEN twolev ELSE bimod,
                       pdir2  |-> IF use2 THEN bimod ELSE twolev,
                       pmeta  |-> meta,
                       bimod  |-> PredictsTaken(pred, bimod),
                       twolev |-> PredictsTaken(pred, twolev)]

\* Mutant: a return leaves the top of the stack where it is.
PopReturn_keeps(g, pred) == pred

PopReturn(g, pred) ==
  [pred EXCEPT !.tos = (@ + g.retstack_size - 1) % g.retstack_size]

PushReturn(g, pred, baddr) ==
  LET tos == (pred.tos + 1) % g.retstack_size
  IN  [pred EXCEPT !.tos = tos, !.stack[tos] = baddr + 1]

\* btarget is the target the caller knows; only static predictors read it.
\* The record's rec is *stack_recover_idx, which a static predictor does not
\* write: the caller keeps what it had.
bpred_lookup(g, pred, baddr, btarget, op, rec) ==
  LET upd  == DirUpdate(g, pred, baddr, op)
      ras  == g.retstack_size > 0
      rec1 == IF ras THEN pred.tos ELSE 0
      way  == BTBWay(g, pred, baddr)
      hit  == pred.btb[BTBSet(g, baddr)].ent[way].target
  IN  CASE g.class = "taken" ->
             [pred |-> pred, PC |-> btarget, upd |-> upd, rec |-> rec]
        [] g.class = "nottaken" ->
             [pred |-> pred, PC |-> IF IsUncond(op) THEN btarget ELSE baddr + 1,
              upd |-> upd, rec |-> rec]
        [] Stateful(g) /\ MD_IS_RETURN(op) /\ ras ->
             [pred |-> PopReturn(g, pred), PC |-> pred.stack[pred.tos],
              upd |-> [upd EXCEPT !.ras = TRUE], rec |-> rec1]
        [] OTHER ->
             [pred |-> IF MD_IS_CALL(op) /\ ras
                       THEN PushReturn(g, pred, baddr) ELSE pred,
              PC   |-> IF ~IsUncond(op) /\ ~PredictsTaken(pred, upd.pdir1)
                       THEN NotTaken
                       ELSE IF way = 0 THEN Unknown ELSE hit,
              upd  |-> upd, rec |-> rec1]

bpred_recover(pred, stack_recover_idx) ==
  [pred EXCEPT !.tos = stack_recover_idx]

-----------------------------------------------------------------------------
(***************************************************************************)
(* bpred_update.                                                           *)
(***************************************************************************)
UpdatesHistory(g, op) == ~IsUncond(op) /\ g.class \in {"2lev", "comb"}

UpdateHistory(g, pred, baddr, taken, op) ==
  IF UpdatesHistory(g, op)
  THEN [pred EXCEPT !.shiftregs[baddr % g.l1size] =
          (2 * @ + (IF taken THEN 1 ELSE 0)) % (2 ^ g.shift_width)]
  ELSE pred

\* A saturating two-bit counter.
Bump(pred, p, up) ==
  IF p = NULL THEN pred
  ELSE [pred EXCEPT ![p[1]][p[2]] =
          IF up THEN (IF @ < 3 THEN @ + 1 ELSE @)
                ELSE (IF @ > 0 THEN @ - 1 ELSE @)]

\* The meta counter moves only when the two components disagreed.
UpdateMeta(pred, upd, taken) ==
  IF upd.pmeta # NULL /\ upd.bimod # upd.twolev
  THEN Bump(pred, upd.pmeta, upd.twolev = taken) ELSE pred

UpdateDirection(pred, upd, taken) ==
  UpdateMeta(Bump(Bump(pred, upd.pdir1, taken), upd.pdir2, taken), upd, taken)

\* Mutant: a matching entry stays at its place in the LRU list.
Promote_misses_only(set, way, matched) ==
  IF matched THEN set
  ELSE [set EXCEPT !.lru = <<way>> \o SelectSeq(@, LAMBDA w : w # way)]

Promote(set, way, matched) ==
  [set EXCEPT !.lru = <<way>> \o SelectSeq(@, LAMBDA w : w # way)]

\* A taken branch becomes the most recent entry of its set, in the place of
\* the least recent one if it has none.  The target of an entry is replaced
\* when the prediction was wrong.
UpdateBTB(g, pred, baddr, btarget, correct) ==
  LET s     == BTBSet(g, baddr)
      set   == pred.btb[s]
      match == BTBWay(g, pred, baddr)
      way   == IF match # 0 THEN match ELSE Last(set.lru)
      set1  == Promote(set, way, match # 0)
  IN  [pred EXCEPT !.btb[s] =
         IF match # 0
         THEN (IF correct THEN set1 ELSE [set1 EXCEPT !.ent[way].target = btarget])
         ELSE [set1 EXCEPT !.ent[way] = [addr |-> baddr, target |-> btarget]]]

bpred_update(g, pred, baddr, btarget, taken, correct, op, upd) ==
  IF (MD_IS_INDIR(op) /\ upd.ras) \/ ~Stateful(g) THEN pred
  ELSE LET p1 == UpdateHistory(g, pred, baddr, taken, op)
           p2 == IF taken THEN UpdateBTB(g, p1, baddr, btarget, correct) ELSE p1
       IN  UpdateDirection(p2, upd, taken)

=============================================================================
