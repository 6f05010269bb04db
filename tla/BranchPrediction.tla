-------------------------- MODULE BranchPrediction --------------------------
(***************************************************************************)
(* How the simulators use a branch predictor.  sim-bpred looks a branch up *)
(* and updates the predictor with its outcome at once.  sim-outorder looks *)
(* it up when it fetches the branch, learns the outcome at dispatch, finds *)
(* a misprediction at writeback, in any order, and updates the predictor   *)
(* at dispatch (spec_ID), writeback (spec_WB) or commit (spec_CT).         *)
(*                                                                         *)
(* Only branches are modelled: the code between them is straight, and the  *)
(* next branch fetched after any address is arbitrary.  window holds the   *)
(* branches in flight, oldest first, the ones still in the fetch queue at  *)
(* its end.                                                                *)
(***************************************************************************)
EXTENDS BranchPredictor

CONSTANTS
  Configs,      \* predictor configuration, simulator and update stage
  OpAt,         \* address -> opcode of the branches of the program
  TargetsOf,    \* address -> where the branch can go when it is taken
  WindowSize    \* branches in flight

VARIABLES
  config, pred, window, spec_mode,
  \* History: the outcomes of the conditional branches that left the
  \* window; and for sim-bpred the branches that the BTB serves and their
  \* last destinations when taken, and the return addresses of the open
  \* calls; the newest first.
  outcomes, jumps, calls

vars == <<config, pred, window, spec_mode, outcomes, jumps, calls>>

Branches == config.prog

Stages == {"spec_ID", "spec_WB", "spec_CT"}

Init ==
  /\ config \in {c \in Configs : ClassOK(c)}
  /\ pred = bpred_create(config)
  /\ window = << >>
  /\ spec_mode = FALSE
  /\ outcomes = << >>
  /\ jumps = << >>
  /\ calls = << >>

Destinations(a) ==
  IF IsUncond(OpAt[a]) THEN TargetsOf[a] ELSE TargetsOf[a] \cup {a + 1}

\* The predicted fetch address a lookup's answer stands for.
PredPC(a, PC) == IF PC = NotTaken THEN a + 1 ELSE PC

UpdatePredictor(p, e) ==
  bpred_update(config, p, e.pc, e.npc, e.npc # e.pc + 1, e.pred_PC = e.npc,
               OpAt[e.pc], e.upd)

\* The history variables after a branch of the program's path.
Push(s, x, n) == SubSeq(<<x>> \o s, 1, IF Len(s) < n THEN Len(s) + 1 ELSE n)

RecordOutcome(a, npc) ==
  outcomes' = IF config.class \in {"2lev", "comb"} /\ ~IsUncond(OpAt[a])
              THEN Push(outcomes, npc # a + 1, config.shift_width)
              ELSE outcomes

UsesStack(a) == OpAt[a] = "ret" /\ config.retstack_size > 0

RecordJump(a, npc) ==
  jumps' = IF npc # a + 1 /\ ~UsesStack(a) /\ Stateful(config)
           THEN <<<<a, npc>>>> \o SelectSeq(jumps, LAMBDA j : j[1] # a)
           ELSE jumps

RecordCall(a) ==
  calls' = IF ~Stateful(config) \/ config.retstack_size = 0 THEN calls
           ELSE CASE OpAt[a] = "call" -> Push(calls, a + 1, config.retstack_size)
                  [] OpAt[a] = "ret" /\ calls # << >> -> Tail(calls)
                  [] OTHER -> calls

-----------------------------------------------------------------------------
\* sim_main of sim-bpred, for one branch.
SimulateBranch(a, npc) ==
  /\ config.stage = "immediate"
  /\ npc \in Destinations(a)
  /\ LET target == IF npc = a + 1 THEN CHOOSE t \in TargetsOf[a] : TRUE ELSE npc
         look   == bpred_lookup(config, pred, a, target, OpAt[a], 0)
         e      == [pc |-> a, npc |-> npc, pred_PC |-> PredPC(a, look.PC),
                    upd |-> look.upd]
     IN  pred' = UpdatePredictor(look.pred, e)
  /\ RecordOutcome(a, npc)
  /\ RecordJump(a, npc)
  /\ RecordCall(a)
  /\ UNCHANGED <<config, window, spec_mode>>

\* ruu_fetch: the target is not known yet, so a static predictor gets 0.
Fetch(a) ==
  /\ config.stage \in Stages
  /\ Len(window) < WindowSize
  /\ LET look == bpred_lookup(config, pred, a, 0, OpAt[a], 0)
     IN  /\ pred' = look.pred
         /\ window' = Append(window,
              [pc |-> a, npc |-> 0, pred_PC |-> PredPC(a, look.PC),
               upd |-> look.upd, rec |-> look.rec, at |-> "fetch",
               spec |-> FALSE, recover |-> FALSE])
  /\ UNCHANGED <<config, spec_mode, outcomes, jumps, calls>>

\* Mutant: wrong-path branches update the predictor at dispatch too.
UpdatesAtDispatch_always(spec) == config.stage = "spec_ID"

UpdatesAtDispatch(spec) == config.stage = "spec_ID" /\ ~spec

\* ruu_dispatch: a direct jump predicted taken to another target than its
\* own redirects the fetch at once, which empties the fetch queue; any other
\* wrong prediction starts the wrong path.  Only branches that are not
\* speculative update the predictor here.
Dispatch(npc) ==
  \E i \in DOMAIN window :
    /\ window[i].at = "fetch"
    /\ \A j \in 1 .. i - 1 : window[j].at # "fetch"
    /\ npc \in Destinations(window[i].pc)
    /\ LET w          == window[i]
           direct     == ~MD_IS_INDIR(OpAt[w.pc])
           target     == IF direct THEN CHOOSE t \in TargetsOf[w.pc] : TRUE ELSE 0
           redirected == direct /\ target # w.pred_PC /\ w.pred_PC # w.pc + 1
           wrong      == ~spec_mode /\ w.pred_PC # npc /\ ~redirected
           e          == [w EXCEPT !.npc = npc, !.at = "dispatch",
                                   !.spec = spec_mode, !.recover = wrong]
       IN  /\ window' = [k \in 1 .. (IF redirected THEN i ELSE Len(window)) |->
                           IF k = i THEN e ELSE window[k]]
           /\ spec_mode' = (spec_mode \/ wrong)
           /\ pred' = IF UpdatesAtDispatch(spec_mode) THEN UpdatePredictor(pred, e)
                                           ELSE pred
  /\ UNCHANGED <<config, outcomes, jumps, calls>>

\* ruu_writeback: a mispredicted branch squashes what is younger, and takes
\* the stack back to where it was before the branch itself was looked up.
Writeback(i) ==
  /\ i \in DOMAIN window
  /\ window[i].at = "dispatch"
  /\ LET w  == window[i]
         p1 == IF w.recover THEN bpred_recover(pred, w.rec) ELSE pred
     IN  /\ window' = [k \in 1 .. (IF w.recover THEN i ELSE Len(window)) |->
                         IF k = i THEN [w EXCEPT !.at = "done"] ELSE window[k]]
         /\ spec_mode' = IF w.recover THEN FALSE ELSE spec_mode
         /\ pred' = IF config.stage = "spec_WB" THEN UpdatePredictor(p1, w) ELSE p1
  /\ UNCHANGED <<config, outcomes, jumps, calls>>

\* ruu_commit, in program order.
Commit ==
  /\ window # << >>
  /\ window[1].at = "done"
  /\ pred' = IF config.stage = "spec_CT" THEN UpdatePredictor(pred, window[1])
                                         ELSE pred
  /\ window' = Tail(window)
  /\ RecordOutcome(window[1].pc, window[1].npc)
  /\ UNCHANGED <<config, spec_mode, jumps, calls>>

Next ==
  \/ \E a \in Branches : \E npc \in Destinations(a) : SimulateBranch(a, npc)
  \/ \E a \in Branches : Fetch(a)
  \/ \E npc \in UNION {Destinations(a) : a \in Branches} : Dispatch(npc)
  \/ \E i \in 1 .. WindowSize : Writeback(i)
  \/ Commit

Spec == Init /\ [][Next]_vars

-----------------------------------------------------------------------------
\* The branches and targets in a set of the BTB, the most recent first.
BTBContents(s) ==
  LET set == pred.btb[s]
  IN  SelectSeq([i \in DOMAIN set.lru |->
                   <<set.ent[set.lru[i]].addr, set.ent[set.lru[i]].target>>],
                LAMBDA e : e[1] # 0)

\* The BTB never holds a branch twice (the code asserts it), whenever the
\* simulator updates it.  Where it does so at once, each set holds the
\* branches that were taken last, in that order, each with the "last
\* destination of branch when taken" (bpred.h), although a target is only
\* written after a wrong prediction.
BTBPrecise ==
  Stateful(config) =>
    \A s \in DOMAIN pred.btb :
      LET held == BTBContents(s)
          last == SelectSeq(jumps, LAMBDA j : BTBSet(config, j[1]) = s)
      IN  /\ \A i, k \in DOMAIN held : held[i][1] = held[k][1] => i = k
          /\ config.stage = "immediate" =>
               held = SubSeq(last, 1, IF Len(last) < config.btb_assoc
                                      THEN Len(last) ELSE config.btb_assoc)

\* The outcomes on the program's path that the predictor should know: those
\* committed, and with updates at dispatch also those in the window.
KnownOutcomes ==
  LET seen == SelectSeq(window, LAMBDA e : /\ e.at # "fetch" /\ ~e.spec
                                           /\ ~IsUncond(OpAt[e.pc]))
  IN  IF config.stage = "spec_ID"
      THEN Reverse([i \in DOMAIN seen |-> seen[i].npc # seen[i].pc + 1]) \o outcomes
      ELSE outcomes

\* The history register holds the outcomes of the last conditional branches
\* of the program's own path, in program order, whatever was fetched and
\* squashed between; writeback updates give no such order.
HistoryExact ==
  config.class \in {"2lev", "comb"} /\ config.l1size = 1 /\ config.stage # "spec_WB" =>
    \A k \in 1 .. config.shift_width :
      (pred.shiftregs[0] \div 2 ^ (k - 1)) % 2 = 1
        <=> k <= Len(KnownOutcomes) /\ KnownOutcomes[k]

\* In program order, the stack predicts every return whose call is among the
\* last retstack_size open ones, after any overflow and underflow.
ReturnStackIntact ==
  \A i \in DOMAIN calls :
    pred.stack[(pred.tos + config.retstack_size - (i - 1))
                 % config.retstack_size] = calls[i]

=============================================================================
