----------------------------- MODULE MCToolkit -----------------------------
(***************************************************************************)
(* Instances for TLC of the packages that all SimpleScalar simulators      *)
(* share: external I/O traces, whose instance this module extends, the     *)
(* debugger, the expression evaluator, the option package, the profiler    *)
(* with the symbol tables and the distributions, and the program loader.   *)
(* The packages do not interact here; a behaviour is one of one package,   *)
(* and the variables of the others stay 0.                                 *)
(***************************************************************************)
EXTENDS MCExecution, TLC

VARIABLES
  part,          \* the package: "eio", "dlite", "eval", "options", "profile" or "loader"
  where, regs_PC, regs_NPC, dlite_active, dlite_check, dlite_return, dlite_bps,
  break_id, break_access, cmd, dump_addr, dis_addr, wanted,
  LongBits, text, result,
  odb, first,    \* the options use the variable files of EIO as well
  externals, profs, interactive, syms, prof, lastval, sim_num_refs, executed,
  exe, argv, envp, at, i, sp, mem, ld, regs,
  sim_num_insn,  \* of the debugger and of the profiler
  phase          \* of the options and of the profiler

dlite   == <<where, regs_PC, regs_NPC, dlite_active, dlite_check, dlite_return,
             dlite_bps, break_id, break_access, cmd, dump_addr, dis_addr, wanted>>
eval    == <<LongBits, text, result>>
options == <<odb, first>>
tracing == <<target, opts, status, cause, proc, pc, icnt, trans_icnt, eio, chkpts, session,
             start, prog, hist>>
profile == <<externals, profs, interactive, syms, prof, lastval, sim_num_refs, executed>>
loader  == <<exe, argv, envp, at, i, sp, mem, ld, regs>>

NoDLite   == /\ where = 0 /\ regs_PC = 0 /\ regs_NPC = 0 /\ dlite_active = 0
             /\ dlite_check = 0 /\ dlite_return = 0 /\ dlite_bps = 0 /\ break_id = 0
             /\ break_access = 0 /\ cmd = 0 /\ dump_addr = 0 /\ dis_addr = 0 /\ wanted = 0
NoEval    == LongBits = 0 /\ text = 0 /\ result = 0
NoConfig  == odb = 0 /\ first = 0
NoTrace   == /\ target = 0 /\ opts = 0 /\ status = 0 /\ cause = 0 /\ proc = 0 /\ pc = 0
             /\ icnt = 0 /\ trans_icnt = 0 /\ eio = 0 /\ chkpts = 0 /\ session = 0
             /\ start = 0 /\ prog = 0 /\ hist = 0
NoProfile == /\ externals = 0 /\ profs = 0 /\ interactive = 0 /\ syms = 0 /\ prof = 0
             /\ lastval = 0 /\ sim_num_refs = 0 /\ executed = 0
NoLoader  == /\ exe = 0 /\ argv = 0 /\ envp = 0 /\ at = 0 /\ i = 0 /\ sp = 0 /\ mem = 0
             /\ ld = 0 /\ regs = 0

-----------------------------------------------------------------------------
(* The debugger: three instructions, two of them with a memory reference.  *)

Line(name, words) == [name |-> name, words |-> words]
Expr(v)      == [expr |-> v]
Access(S)    == [access |-> S]
Range(a, b)  == [range |-> [start |-> a, end |-> b]]
At(type, p)  == <<[ptype |-> type, pos |-> p]>>

DebuggedInsts == 8 :> [access |-> "r", addr |-> 40] @@ 16 :> [access |-> "w", addr |-> 41]
                   @@ 24 :> [access |-> "", addr |-> 0]

Typed ==
  {Line("break", <<Expr(16)>>), Line("break", <<[bad |-> 0]>>),
   Line("dbreak", <<Expr(40), Access({"w"})>>), Line("dbreak", <<Expr(0)>>),
   Line("rbreak", <<Range(<<>>, At("inst", 2))>>),
   Line("rbreak", <<Range(At("addr", 8), At("inst", 8))>>),
   Line("delete", <<Expr(1)>>), Line("clear", <<>>),
   Line("cont", <<>>), Line("cont", <<Expr(24)>>), Line("step", <<>>), Line("quit", <<>>),
   Line("dump", <<Expr(20), Expr(3)>>), Line("dis", <<Expr(8), Expr(2)>>),
   Line("display", <<[mods |-> {"q"}], Expr(40)>>)}

DL == INSTANCE DLite WITH
        Insts <- DebuggedInsts, AddrSpace <- 128, InstSize <- 8, BreakSpan <- 1,
        Lines <- Typed, MaxBreaks <- 2, MaxInsts <- 3

-----------------------------------------------------------------------------
(* The evaluator: all texts of up to three tokens, and two operators on    *)
(* three operands; int has 3 bits.                                         *)

Const(n) == [tok |-> "const", n |-> n]
Ident(x) == [tok |-> "ident", name |-> x]
Tok(x)   == [tok |-> x]

\* An address, a distribution, a counter, and formulas with and without one.
Identifiers ==
  [a |-> [val |-> [type |-> "addr", v |-> 6]],
   d |-> [dist |-> 0],
   n |-> [counter |-> 0],
   f |-> [formula |-> <<Const(2), Tok("*"), Ident("a")>>],
   g |-> [formula |-> <<Ident("n"), Tok("/"), Ident("a")>>]]

Operators == {"+", "-", "*", "/"}
Tokens == {Const(n) : n \in {0, 2, 4, 5, 9}} \cup {Ident(x) : x \in DOMAIN Identifiers \cup {"undefined"}}
            \cup {Tok(x) : x \in Operators \cup {"(", ")", "invalid"}}

Expressions ==
  UNION {[1 .. n -> Tokens] : n \in 0 .. 3} \cup
  {<<a, Tok(o), b, Tok(p), c>> : a \in {Const(2), Const(9)}, b \in {Const(2), Ident("a")},
                                 c \in {Const(0), Const(3), Ident("f"), Ident("g")},
                                 o \in Operators, p \in Operators}

EV == INSTANCE Eval WITH
        Texts <- Expressions, Idents <- Identifiers, IntBits <- 3, AddrBits <- 3

-----------------------------------------------------------------------------
(* The options: one of each class, and command lines of one to three parts *)
(* after -dumpconfig.  0.12346 is printed as 0.1235, 0.00001 as 0.0000.    *)

Option(name, oc, nvars, accrue, def) ==
  [name |-> name, oc |-> oc, nvars |-> nvars, list |-> nvars > 1,
   print |-> name # "-v", accrue |-> accrue, def |-> def]
Num(n) == [num |-> n]
Dec(n) == [dec |-> n]    \* n / 100000
Str(x) == [str |-> <<x>>]
Opt(x) == [opt |-> x]

Registered ==
  <<Option("-v", "flag", 1, FALSE, <<Str("false")>>),
    Option("-order", "flag", 1, FALSE, <<Str("true")>>),
    Option("-seed", "int", 1, FALSE, <<Num(1)>>),
    Option("-fetch", "uint", 1, FALSE, <<Num(0)>>),
    Option("-bimod", "int", 3, FALSE, <<Num(2)>>),
    Option("-pcstat", "string", 2, TRUE, <<>>),
    Option("-redir", "string", 1, FALSE, <<[null |-> 0]>>),
    Option("-ratio", "float", 1, FALSE, <<Dec(100000)>>),
    Option("-gain", "double", 2, FALSE, <<Dec(0)>>),
    Option("-policy", "enum", 1, FALSE, <<[null |-> 0]>>)>>

OnDisk ==
  [base |-> <<<<Opt("-bimod"), Num(7), Num(8)>>, <<>>, <<Opt("-pcstat"), Str("x")>>,
              <<Opt("-order"), Str("#"), Str("x")>>>>,
   nest |-> <<<<Opt("-seed"), Num(4), Opt("-config"), Str("base"), Opt("-seed"), Num(5)>>>>,
   bad  |-> <<<<Str("prog")>>>>]

Good == {<<Opt("-v")>>, <<Opt("-order"), Str("off")>>, <<Opt("-seed"), Num(-3)>>,
         <<Opt("-bimod"), Num(4)>>, <<Opt("-bimod"), Num(4), Num(5), Num(6)>>,
         <<Opt("-pcstat"), Str("y")>>, <<Opt("-redir"), Str("prog")>>,
         <<Opt("-config"), Str("base")>>, <<Opt("-config"), Str("nest")>>,
         <<Opt("-policy"), Str("fifo")>>, <<Opt("-ratio"), Num(2)>>,
         <<Opt("-ratio"), Dec(12346)>>, <<Opt("-gain"), Dec(-12346), Dec(1)>>}

Odd  == {<<Opt("-fetch"), Num(-3)>>, <<Opt("-redir"), [str |-> <<"a", "b">>]>>,
         <<Opt("-config"), Str("bad")>>, <<Opt("-nope")>>, <<Opt("-seed")>>,
         <<Opt("-seed"), Str("x")>>, <<Str("prog")>>, <<Num(-3)>>,
         <<Opt("-ratio"), Num(0)>>, <<Opt("-ratio"), Dec(1)>>, <<Opt("-fetch"), Dec(1)>>,
         <<Opt("-redir"), Str("#log")>>, <<Opt("-policy"), Str("prog")>>}

Argvs == {<<Opt("-dumpconfig"), Str("dumped")>> \o a \o b \o c :
            a \in Good, b \in {<<>>} \cup Good, c \in {<<>>} \cup Odd}
         \cup {a \o <<Opt("-dumpconfig")>> : a \in Good}

OP == INSTANCE Options WITH
        Opts <- Registered, emap <- <<Str("lru"), Str("fifo")>>, Hashed <- {"#", "#log"},
        ConfigFiles <- OnDisk, CommandLines <- Argvs

-----------------------------------------------------------------------------
(* The profiler: symbols that share an address or a name, a data symbol in *)
(* the text segment, and a program of Alpha instructions: a load, a trap, a *)
(* branch, rpcc, which has no flags, and a store.                          *)

Symbol(name, st, addr) == [name |-> name, st |-> st, addr |-> addr]

Programs ==
  {{},
   {Symbol(1, "stProc", 8), Symbol(2, "stLabel", 8), Symbol(3, "stProc", 10),
    Symbol(2, "stStatic", 13), Symbol(5, "stGlobal", 9), Symbol(7, "stNil", 3)},
   {Symbol(1, "stProc", 8), Symbol(3, "stGlobal", 14)}}

ProfiledInsts ==
  8 :> [op |-> 1, flags |-> {"LOAD"}, addr |-> 13]
    @@ 9 :> [op |-> 4, flags |-> {"TRAP"}, addr |-> 0]
    @@ 10 :> [op |-> 2, flags |-> {"CTRL", "UNCOND", "DIRJMP"}, addr |-> 0]
    @@ 11 :> [op |-> 5, flags |-> {}, addr |-> 0]
    @@ 12 :> [op |-> 3, flags |-> {"STORE"}, addr |-> 18]

SP == INSTANCE SimProfile WITH
        Externals <- Programs, Insts <- ProfiledInsts,
        Segments <- [text |-> <<8, 12>>, data |-> <<12, 14>>, heap |-> <<15, 16>>,
                     stack |-> <<18, 19>>],
        OP_MAX <- 6, HTAB_SZ <- 2, MaxInsts <- 3,
        Profiles <- {{"all", "pcstat"}, {"pcstat", "taddr"}, {"tsyms"}}

-----------------------------------------------------------------------------
(* The loader: for both targets programs, one with its constants before    *)
(* its text and partly in its text segment, and files that are refused;    *)
(* arguments and environments that just fit, and some that are one byte    *)
(* too large.                                                              *)

Section(styp, vaddr, data) == [styp |-> styp, vaddr |-> vaddr, data |-> data]

PISAFile(magic, sections) ==
  [target |-> "PISA", magic |-> magic, text_start |-> 0, tsize |-> 0, data_start |-> 0,
   dsize |-> 5, bsize |-> 2, gp |-> 0, entry |-> 9, sections |-> sections]
AlphaFile(magic, sections) ==
  [target |-> "Alpha", magic |-> magic, text_start |-> 128, tsize |-> 3, data_start |-> 160,
   dsize |-> 5, bsize |-> 2, gp |-> 161, entry |-> 129, sections |-> sections]

\* A PISA instruction: its opcode field and the rest.
Instr(op) == <<op, 1, 2, 3, 4, 5, 6, 7>>

Files ==
  {PISAFile("EL", <<Section("TEXT", 8, Instr(4)), Section("DATA", 32, <<4, 5, 6>>),
                    Section("SDATA", 35, <<7, 8>>), Section("SBSS", 37, <<>>)>>),
   PISAFile("EL", <<Section("RDATA", 6, <<4, 5, 4>>), Section("TEXT", 16, Instr(9)),
                    Section("DATA", 32, <<6, 7, 8>>), Section("COMMENT", 0, <<9>>)>>),
   PISAFile("EL", <<Section("TEXT", 8, Instr(1)), Section("DATA", 32, <<>>)>>),
   PISAFile("EL", <<Section("DATA", 32, <<4>>)>>),
   PISAFile("EL_OTHER", <<>>),
   AlphaFile("ALPHA", <<Section("INIT", 126, <<9, 9>>), Section("TEXT", 128, <<1, 2, 3>>),
                        Section("RCONST", 160, <<4, 5, 6>>), Section("LITA", 163, <<>>),
                        Section("SDATA", 163, <<7, 8>>), Section("BSS", 165, <<>>)>>),
   AlphaFile("ALPHA", <<Section("TEXT", 128, <<>>)>>),
   AlphaFile("EL", <<>>)}

Strings(n) == {[k \in 1 .. m |-> 7] : m \in 0 .. n}

LD == INSTANCE Loader WITH
        Executables <- Files,
        Targets <- [PISA |-> [ptr |-> 4, page |-> 8, max_environ |-> 40, text_base |-> 8,
                              data_base |-> 32, stack_base |-> 100, stack_gap |-> 0,
                              padding |-> 8, inst |-> 8],
                    Alpha |-> [ptr |-> 8, page |-> 8, max_environ |-> 64, text_base |-> 0,
                               data_base |-> 0, stack_base |-> 0, stack_gap |-> 16,
                               padding |-> 0, inst |-> 4]],
        mask2op <- 0 :> 1 @@ 1 :> 2 @@ 4 :> 3,
        Arguments <- {<<a>> : a \in Strings(3)} \cup {<<a, b>> : a \in Strings(2), b \in Strings(4)},
        Environments <- {<<>>} \cup {<<a>> : a \in Strings(3)}
                          \cup {<<a, b>> : a \in Strings(2), b \in Strings(5)}

-----------------------------------------------------------------------------
toolkit == <<part, tracing, dlite, eval, options, profile, loader, files, sim_num_insn, phase>>

MCInit ==
  \/ part = "eio"     /\ Init /\ NoDLite /\ NoEval /\ NoConfig /\ NoProfile /\ NoLoader
                      /\ phase = 0 /\ sim_num_insn = 0
  \/ part = "dlite"   /\ DL!Init /\ NoTrace /\ NoEval /\ NoConfig /\ NoProfile /\ NoLoader
                      /\ phase = 0 /\ files = 0
  \/ part = "eval"    /\ EV!Init /\ NoTrace /\ NoDLite /\ NoConfig /\ NoProfile /\ NoLoader
                      /\ phase = 0 /\ sim_num_insn = 0 /\ files = 0
  \/ part = "options" /\ OP!Init /\ NoTrace /\ NoDLite /\ NoEval /\ NoProfile /\ NoLoader
                      /\ sim_num_insn = 0
  \/ part = "profile" /\ SP!Init /\ NoTrace /\ NoDLite /\ NoEval /\ NoConfig /\ NoLoader
                      /\ files = 0
  \/ part = "loader"  /\ LD!Init /\ NoTrace /\ NoDLite /\ NoEval /\ NoConfig /\ NoProfile
                      /\ phase = 0 /\ sim_num_insn = 0 /\ files = 0

MCNext ==
  /\ UNCHANGED part
  /\ \/ part = "eio"     /\ Next
                         /\ UNCHANGED <<dlite, eval, options, profile, loader, phase, sim_num_insn>>
     \/ part = "dlite"   /\ DL!Next
                         /\ UNCHANGED <<tracing, eval, options, profile, loader, files, phase>>
     \/ part = "eval"    /\ EV!Next
                         /\ UNCHANGED <<tracing, dlite, options, profile, loader, files, phase,
                                        sim_num_insn>>
     \/ part = "options" /\ OP!Next
                         /\ UNCHANGED <<tracing, dlite, eval, profile, loader, sim_num_insn>>
     \/ part = "profile" /\ SP!Next
                         /\ UNCHANGED <<tracing, dlite, eval, options, loader, files>>
     \/ part = "loader"  /\ LD!Next
                         /\ UNCHANGED <<tracing, dlite, eval, options, profile, files, phase,
                                        sim_num_insn>>

MCSpec == MCInit /\ [][MCNext]_toolkit

\* eio.c: a replay is at every instruction in the state the live run was in.
ReplayFaithful == part = "eio" => ReplayReproduces

\* eio.c: the self check never fires on a faithful replay.
SelfCheckSilent == part = "eio" => ReplayAccepted

\* eio.c: a replay writes to stdout and stderr what the program asked for.
OutputRepeated == part = "eio" => OutputReproduced

\* syscall.c: no call reads target memory after it has written to it.
CallsRecordable == part = "eio" => RecordableCalls

\* dlite.c: the program stops exactly where the user's breakpoints say.
BreaksExact == [][part = "dlite" => DL!StopsExactly]_toolkit

\* eval.c: a text of the grammar has the value the grammar gives it.
EvaluatorFollowsGrammar == part = "eval" => EV!EvaluatorFollowsGrammar

\* options.c: the file that -dumpconfig writes restores the configuration.
ConfigRoundTrip == part = "options" => OP!ConfigRoundTrip

\* symbol.c: searching by halving finds what is there and nothing else.
SymbolsFound == part = "profile" => SP!SymbolsFound

\* sim-profile.c, stats.c: every profile kept adds up to what was executed.
ProfilesAddUp == part = "profile" => SP!ProfilesAddUp

\* loader.c: the program starts from the image it was given.
ProcessImage == part = "loader" => LD!ProcessImage

\* sim-profile.c:136: -tsymprof keeps a profile of the text symbols.
TextSymbolsProfiled == part = "profile" => SP!TextSymbolsProfiled
=============================================================================
