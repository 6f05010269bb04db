----------------------------- MODULE SimProfile -----------------------------
(***************************************************************************)
(* The profiler of SimpleScalar (sim-profile.c) with the two packages it   *)
(* stands on: the symbol tables (symbol.c), which are loaded on demand,    *)
(* sorted and searched by halving, and the distributions of the statistics *)
(* package (stats.c), dense arrays and sparse hash tables.                 *)
(*                                                                         *)
(* A dense distribution is [arr, overflows], a sparse one a function from  *)
(* hash values to chains of [index, count]; <<>> stands for the NULL of a  *)
(* distribution that was not registered.  Names of symbols are numbers,    *)
(* ordered like the strings.  The addressing mode profile is left out.     *)
(***************************************************************************)
EXTENDS Integers, Sequences, FiniteSets, SequencesExt, FiniteSetsExt

CONSTANTS
  Externals,     \* the external symbols of the programs: sets of [name, st, addr]
  Segments,      \* [text, data, heap, stack |-> <<first, end>>]
  Insts,         \* PC -> [op, flags, addr]
  OP_MAX, HTAB_SZ,
  Profiles,      \* the sets of profiles the user may ask for
  MaxInsts       \* -max:inst

VARIABLES
  externals,     \* the symbols of the program that is run
  profs,         \* the profiles asked for
  interactive,   \* the debugger is used, and may look symbols up
  phase,         \* "init", "running", "ended", "crashed"
  syms,          \* <<>> until loaded, then [any, text, data, by_name]
  prof,          \* profile name -> distribution, or <<>>
  lastval,       \* pcstat_lastvals
  sim_num_insn, sim_num_refs,
  executed       \* observer: the PCs executed, in order

vars == <<externals, profs, interactive, phase, syms, prof, lastval,
          sim_num_insn, sim_num_refs, executed>>

-----------------------------------------------------------------------------
(* symbol.c                                                                *)

Text == {"stProc", "stStaticProc", "stLabel"}
Data == {"stGlobal", "stStatic"}

Db(seg) == {s \in externals : s.st \in seg}

\* A sorting of the set S by a key: symbols that agree on it are in any order.
Sortings(S, Key(_)) ==
  {p \in SetToSeqs(S) : \A i \in 1 .. Len(p) - 1 : Key(p[i]) <= Key(p[i + 1])}

\* The size of symbol i of a sorted segment: up to the next, the last one up to
\* the end of the segment.
SizeIn(sorted, end, s) ==
  LET i == SelectInSeq(sorted, LAMBDA x : x = s)
  IN  IF i < Len(sorted) THEN sorted[i + 1].addr - s.addr ELSE end - s.addr

\* sym_loadsyms(): the symbols of the two segments, sorted by address and by
\* name, and their sizes.  Symbols that are loaded already stay.
sym_loadsyms ==
  IF syms # <<>> THEN UNCHANGED syms
  ELSE \E text \in Sortings(Db(Text), LAMBDA s : s.addr),
          data \in Sortings(Db(Data), LAMBDA s : s.addr),
          any \in Sortings(Db(Text \cup Data), LAMBDA s : s.addr),
          by_name \in Sortings(Db(Text \cup Data), LAMBDA s : s.name) :
         syms' = <<[text |-> text, data |-> data, any |-> any, by_name |-> by_name,
                    size |-> [s \in Db(Text \cup Data) |->
                                IF s.st \in Text THEN SizeIn(text, Segments.text[2], s)
                                ELSE SizeIn(data, Segments.data[2], s)]]>>

Matches(s, addr, exact, size) ==
  IF exact THEN s.addr = addr ELSE s.addr <= addr /\ addr < s.addr + Max({1, size[s]})

\* The loop of sym_bind_addr() and sym_bind_name(): halve low .. high until the
\* entry in the middle is Found, going left if it is too Big.
Halve(table, Found(_), Big(_)) ==
  LET n == Len(table)
      search[low \in 1 .. n + 1, high \in 0 .. n] ==
        LET pos == (low + high) \div 2
        IN  IF low > high THEN 0
            ELSE IF Found(table[pos]) THEN pos
            ELSE IF Big(table[pos]) THEN search[low, pos - 1]
            ELSE search[pos + 1, high]
  IN  search[1, n]

sym_bind_addr_open(addr, exact, db) ==
  IF syms = <<>> THEN 0
  ELSE Halve(syms[1][db],
             LAMBDA s : Matches(s, addr, exact, syms[1].size), LAMBDA s : addr <= s.addr + 1)

\* sym_bind_addr(): the position of the symbol that holds addr, or 0 if there
\* is none or no symbols are loaded.
sym_bind_addr(addr, exact, db) ==
  IF syms = <<>> THEN 0
  ELSE Halve(syms[1][db],
             LAMBDA s : Matches(s, addr, exact, syms[1].size), LAMBDA s : addr < s.addr)

sym_bind_name(name) ==
  IF syms = <<>> THEN 0
  ELSE Halve(syms[1].by_name,
             LAMBDA s : s.name = name, LAMBDA s : s.name > name)

-----------------------------------------------------------------------------
(* stats.c: distributions.                                                 *)

stat_reg_dist(arr_sz) == [arr |-> [i \in 0 .. arr_sz - 1 |-> 0], overflows |-> 0]

stat_reg_sdist == [sarr |-> [h \in 0 .. HTAB_SZ - 1 |-> <<>>]]

\* Indices below 256: the part of the hash that is shifted by 8 is zero.
HTAB_HASH(index) == index % HTAB_SZ

add_sparse_by_hash(sarr, index, n) ==
  LET h == HTAB_HASH(index)
  IN  IF sarr[h] # <<>> THEN [sarr EXCEPT ![h][1].count = @ + n]
      ELSE [sarr EXCEPT ![h] = <<[index |-> index, count |-> n]>>]

\* A new index goes to the front of its chain.
add_sparse(sarr, index, n) ==
  LET h == HTAB_HASH(index)
      i == SelectInSeq(sarr[h], LAMBDA b : b.index = index)
  IN  IF i # 0 THEN [sarr EXCEPT ![h][i].count = @ + n]
      ELSE [sarr EXCEPT ![h] = <<[index |-> index, count |-> n]>> \o @]

stat_add_samples(stat, index, n) ==
  IF "sarr" \in DOMAIN stat THEN [stat EXCEPT !.sarr = add_sparse(@, index, n)]
  ELSE IF index \in DOMAIN stat.arr THEN [stat EXCEPT !.arr[index] = @ + n]
  ELSE [stat EXCEPT !.overflows = @ + n]

\* print_sdist(): all buckets, sorted by index.
print_sdist(stat) ==
  SortSeq(FlattenSeq([h \in 1 .. HTAB_SZ |-> stat.sarr[h - 1]]), LAMBDA a, b : a.index < b.index)

\* print_dist(): the total of the array, without the overflows.
DistTotal(stat) == FoldFunction(LAMBDA x, y : x + y, 0, stat.arr)

-----------------------------------------------------------------------------
(* sim-profile.c                                                           *)

AllProfiles == {"ic", "inst", "bc", "seg", "tsyms", "dsyms", "taddr"}

\* sim_check_options(): -all.
sim_check_options(asked) == IF "all" \in asked THEN AllProfiles \cup (asked \ {"all"}) ELSE asked

ic_NUM == 7
bc_NUM == 6
seg_NUM == 4

\* The class of an instruction, the first of these it has a flag of; -1 for the
\* panic "instruction has no class".
inst_class(flags) ==
  SelectInSeq(<<"LOAD", "STORE", "UNCOND", "COND", "ICOMP", "FCOMP", "TRAP">>,
              LAMBDA f : f \in flags) - 1

\* The class of a branch, by the first pair of flags it has; -1 for the panic
\* "branch has no class".
branch_class(flags) ==
  LET k == SelectInSeq(<<{"CALL", "DIRJMP"}, {"CALL", "INDIRJMP"},
                         {"UNCOND", "DIRJMP"}, {"UNCOND", "INDIRJMP"},
                         {"COND", "DIRJMP"}, {"COND", "INDIRJMP"}>>,
                       LAMBDA pair : pair \subseteq flags)
  IN  IF k = 0 THEN -1 ELSE <<2, 5, 0, 3, 1, 4>>[k]

\* bind_to_seg(): -1 for the address it panics on.
bind_to_seg(addr) ==
  LET In(seg) == Segments[seg][1] <= addr /\ addr < Segments[seg][2]
  IN  CASE In("data") -> 0
        [] ~In("data") /\ In("heap") -> 1
        [] ~In("data") /\ ~In("heap") /\ In("stack") -> 2
        [] ~In("data") /\ ~In("heap") /\ ~In("stack") /\ In("text") -> 3
        [] OTHER -> -1

\* The profiles of symbols are registered if symbols are loaded by then.
sim_reg_stats ==
  LET Reg(p, dist) == IF p \in profs THEN dist ELSE <<>>
      symbols(db)  == IF syms = <<>> THEN 0 ELSE Len(syms[1][db])
  IN  /\ phase = "init"
      /\ phase' = "running"
      /\ prof' = [ic |-> Reg("ic", stat_reg_dist(ic_NUM)),
                  inst |-> Reg("inst", stat_reg_dist(OP_MAX - 1)),
                  bc |-> Reg("bc", stat_reg_dist(bc_NUM)),
                  seg |-> Reg("seg", stat_reg_dist(seg_NUM)),
                  tsyms |-> IF symbols("text") = 0 THEN <<>>
                            ELSE Reg("tsyms", stat_reg_dist(symbols("text"))),
                  dsyms |-> IF symbols("data") = 0 THEN <<>>
                            ELSE Reg("dsyms", stat_reg_dist(symbols("data"))),
                  taddr |-> Reg("taddr", stat_reg_sdist),
                  pcstat |-> Reg("pcstat", stat_reg_sdist)]
      /\ lastval' = sim_num_refs
      /\ UNCHANGED <<externals, profs, interactive, syms, sim_num_insn, sim_num_refs, executed>>

\* The samples of one instruction, as <<profile, index, number>>; an index of -1
\* is a symbol that was not found, or a panic.
Samples(PC, refs) ==
  LET inst == Insts[PC]
      mem  == inst.flags \cap {"LOAD", "STORE"} # {}
  IN  {<<"ic", inst_class(inst.flags), 1>>, <<"inst", inst.op - 1, 1>>,
       <<"tsyms", sym_bind_addr(PC, FALSE, "text") - 1, 1>>, <<"taddr", PC, 1>>}
      \cup (IF "CTRL" \in inst.flags THEN {<<"bc", branch_class(inst.flags), 1>>} ELSE {})
      \cup (IF mem THEN {<<"seg", bind_to_seg(inst.addr), 1>>,
                         <<"dsyms", sym_bind_addr(inst.addr, FALSE, "data") - 1, 1>>} ELSE {})
      \cup (IF refs # lastval THEN {<<"pcstat", PC, refs - lastval>>} ELSE {})

\* One round of the loop in sim_main().  Counting into a distribution that was
\* never registered follows a NULL pointer, and an instruction or a branch of no
\* class and an address of no segment are panics, if they are profiled.
Instruction(PC) ==
  LET mem     == Insts[PC].flags \cap {"LOAD", "STORE"} # {}
      refs    == IF mem THEN sim_num_refs + 1 ELSE sim_num_refs
      taken   == {s \in Samples(PC, refs) : s[1] \in profs /\
                    (s[1] \in {"tsyms", "dsyms"} => s[2] >= 0)}
      broken  == \E s \in taken : prof[s[1]] = <<>> \/ s[2] < 0
      Added(p) == LET mine == {s \in taken : s[1] = p}
                  IN  IF mine = {} THEN prof[p]
                      ELSE LET s == CHOOSE x \in mine : TRUE
                           IN  stat_add_samples(prof[p], s[2], s[3])
  IN  /\ phase = "running" /\ sim_num_insn < MaxInsts
      /\ sim_num_insn' = sim_num_insn + 1
      /\ sim_num_refs' = refs
      /\ executed' = Append(executed, PC)
      /\ phase' = IF broken THEN "crashed" ELSE "running"
      /\ prof' = IF broken THEN prof ELSE [p \in DOMAIN prof |-> Added(p)]
      /\ lastval' = IF "pcstat" \in profs THEN refs ELSE lastval
      /\ UNCHANGED <<externals, profs, interactive, syms>>

\* The debugger evaluates an identifier or lists symbols: symbols are loaded.
DebuggerLookup ==
  /\ phase = "running" /\ interactive
  /\ sym_loadsyms
  /\ UNCHANGED <<externals, profs, interactive, phase, prof, lastval, sim_num_insn,
                 sim_num_refs, executed>>

Finish ==
  /\ phase = "running" /\ sim_num_insn >= MaxInsts
  /\ phase' = "ended"
  /\ UNCHANGED <<externals, profs, interactive, syms, prof, lastval, sim_num_insn,
                 sim_num_refs, executed>>

Init ==
  /\ externals \in Externals
  /\ profs \in {sim_check_options(asked) : asked \in Profiles}
  /\ interactive \in BOOLEAN
  /\ phase = "init"
  /\ syms = <<>>
  /\ prof = <<>>
  /\ lastval = 0 /\ sim_num_insn = 0 /\ sim_num_refs = 0
  /\ executed = <<>>

Next ==
  \/ sim_reg_stats
  \/ \E PC \in DOMAIN Insts : Instruction(PC)
  \/ DebuggerLookup
  \/ Finish

Spec == Init /\ [][Next]_vars

-----------------------------------------------------------------------------
(* The properties.                                                         *)

Times(Counted(_)) == Len(SelectSeq(executed, Counted))

IsMem(PC) == Insts[PC].flags \cap {"LOAD", "STORE"} # {}

\* Searching by halving finds what is there, in tables with symbols that share
\* an address or a name and whichever way the sort broke the ties: an address
\* inside a segment's symbols is bound to a symbol that holds it, an exact
\* address in any table to a symbol at it, and a name to a symbol of that name;
\* what is not there is not found.
SymbolsFound ==
  syms # <<>> =>
    LET t == syms[1]
        Right(table, pos, Has(_)) ==
          IF pos = 0 THEN \A i \in DOMAIN table : ~Has(table[i]) ELSE Has(table[pos])
    IN  /\ \A addr \in 0 .. Max({s[2] : s \in Range(Segments)}) :
             /\ \A db \in {"text", "data"} :
                  Right(t[db], sym_bind_addr(addr, FALSE, db),
                        LAMBDA s : Matches(s, addr, FALSE, t.size))
             /\ Right(t.any, sym_bind_addr(addr, TRUE, "any"), LAMBDA s : s.addr = addr)
        /\ \A name \in 0 .. Max({0} \cup {s.name : s \in externals}) + 1 :
             Right(t.by_name, sym_bind_name(name), LAMBDA s : s.name = name)

\* Every profile that is kept adds up to what was executed: the classes and the
\* opcodes to all instructions, the branches to the control instructions, the
\* segments to the memory references, the address profile has one line for each
\* address executed, in order and with its number of executions, and a statistic
\* profiled by address adds up to the statistic.  Nothing overflows.  Where that
\* cannot be, the simulator stops: if classes are profiled, at the first
\* instruction without one, such as rpcc of Alpha.
ProfilesAddUp ==
  /\ \A k \in DOMAIN executed :
       "ic" \in profs /\ inst_class(Insts[executed[k]].flags) < 0 =>
         phase = "crashed" /\ k = Len(executed)
  /\ phase \in {"running", "ended"} =>
       LET Kept(p) == prof[p] # <<>>
           Total(p, n) == Kept(p) => DistTotal(prof[p]) = n /\ prof[p].overflows = 0
       IN  /\ Total("ic", sim_num_insn)
           /\ Total("inst", sim_num_insn)
           /\ Total("bc", Times(LAMBDA PC : "CTRL" \in Insts[PC].flags))
           /\ Total("seg", Times(IsMem))
           /\ Kept("taddr") =>
                print_sdist(prof.taddr) =
                  [i \in 1 .. Cardinality(Range(executed)) |->
                     LET PC == SortSeq(SetToSeq(Range(executed)), LAMBDA a, b : a < b)[i]
                     IN  [index |-> PC, count |-> Times(LAMBDA x : x = PC)]]
           /\ Kept("pcstat") =>
                FoldSeq(LAMBDA b, n : b.count + n, 0, print_sdist(prof.pcstat)) = sim_num_refs

\* -tsymprof, which "enable[s] text symbol profiling" (sim-profile.c:136): once
\* the program has ended, there is a profile with one sample for each instruction
\* executed inside the text symbols of the program.
TextSymbolsProfiled ==
  phase \in {"ended", "crashed"} /\ "tsyms" \in profs /\ Db(Text) # {} =>
    /\ prof.tsyms # <<>>
    /\ DistTotal(prof.tsyms) = Times(LAMBDA PC : Min({s.addr : s \in Db(Text)}) <= PC)
=============================================================================
