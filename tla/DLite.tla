------------------------------- MODULE DLite -------------------------------
(***************************************************************************)
(* The debugger of SimpleScalar (dlite.c, range.c) around the instruction  *)
(* loop of the functional simulators (sim-safe.c): the command parser, the *)
(* breakpoint list with the flag that lets the loop skip the list when it  *)
(* is empty, and the commands that stop, resume and inspect the program.   *)
(*                                                                         *)
(* A command line is a command name and a sequence of words.  A word is a  *)
(* record with one field, that says what it is: expr (with its value),     *)
(* bad (an expression that does not evaluate), mods, access or range.      *)
(* How an expression is evaluated is the subject of module Eval.           *)
(***************************************************************************)
EXTENDS Integers, Sequences, FiniteSets, SequencesExt, FiniteSetsExt

CONSTANTS
  Insts,         \* PC -> [access, addr]: what the instruction there references
  InstSize,      \* sizeof(md_inst_t)
  BreakSpan,     \* addresses a code breakpoint adds: 1, or 9 on Alpha
  AddrSpace,     \* number of addresses; md_addr_t wraps around
  Lines,         \* the command lines the user may type
  MaxBreaks,     \* bound: breakpoints set in a session
  MaxInsts       \* -max:inst

VARIABLES
  where,         \* "loop", "prompt" or "ended"
  regs_PC, regs_NPC, sim_num_insn,
  dlite_active, dlite_check, dlite_return,
  dlite_bps,     \* sequence of [id, class, range], most recent first
  break_id, break_access,
  cmd,           \* the last command line, repeated by an empty one
  dump_addr, dis_addr,
  wanted         \* observer: the breakpoints the user has set and not removed

vars == <<where, regs_PC, regs_NPC, sim_num_insn, dlite_active, dlite_check,
          dlite_return, dlite_bps, break_id, break_access, cmd, dump_addr,
          dis_addr, wanted>>

program == <<regs_PC, regs_NPC, sim_num_insn>>
breaks  == <<dlite_check, dlite_bps, break_id, wanted>>
cursors == <<dump_addr, dis_addr>>

NoLine == [name |-> "", words |-> <<>>]

-----------------------------------------------------------------------------
(* range.c.  A position is [ptype, pos]; a missing start is instruction 0, *)
(* a missing end the largest position of the type of the start, and "+n"   *)
(* is relative to the start.                                               *)

Forever == 1000

DefaultStart == [ptype |-> "inst", pos |-> 0]

range_parse_range(text) ==
  LET start == IF text.start = <<>> THEN DefaultStart ELSE text.start[1]
  IN  [start |-> start,
       end |-> CASE text.end = <<>> -> [ptype |-> start.ptype, pos |-> Forever]
                 [] text.end # <<>> /\ text.end[1].ptype = "delta" ->
                      [ptype |-> start.ptype, pos |-> start.pos + text.end[1].pos]
                 [] OTHER -> text.end[1]]

\* Both ends are inside.
range_cmp_range(range, val) ==
  CASE val < range.start.pos -> -1
    [] range.start.pos <= val /\ val <= range.end.pos -> 0
    [] OTHER -> 1

-----------------------------------------------------------------------------
(* Printing of values: which modifiers are accepted for which type.        *)

MOD_SIZES == {"b", "h", "w", "q", "F", "f", "c", "s"}

MOD_FORMATS == {"d", "u", "o", "x", "1"}

DefaultSize(type) ==
  CASE type \in {"int", "uint", "addr"} -> {"w"}
    [] type \in {"qword", "sqword"} -> {"q"}
    [] type = "float" -> {"F"}
    [] type = "double" -> {"f"}

DefaultFormat(type) ==
  CASE type \in {"int", "sqword"} -> {"d"}
    [] type \in {"uint", "qword"} -> {"u"}
    [] type = "addr" -> {"x"}
    [] OTHER -> {}

print_val(modifiers, type) ==
  LET sizes   == modifiers \cap MOD_SIZES
      formats == modifiers \cap MOD_FORMATS
      size    == IF sizes = {} THEN DefaultSize(type) ELSE sizes
      format  == IF formats = {} THEN DefaultFormat(type) ELSE formats
  IN  CASE Cardinality(size) > 1 -> "multiple size specifiers"
        [] Cardinality(size) = 1 /\ Cardinality(format) > 1 -> "multiple format specifiers"
        [] size \subseteq {"b", "h", "w", "q"} /\ format = {"1"} ->
             "binary format not yet implemented"
        [] size = {"s"} -> "string format not yet implemented"
        \* a floating point value has no integer format of its own
        [] size \subseteq {"b", "h", "w", "q"} /\ format = {} -> "panic"
        [] OTHER -> ""

\* dlite_display: the bytes read from memory and the type they are given.
DisplaySize(modifiers) ==
  CASE modifiers \cap {"b", "c"} # {} -> 1
    [] modifiers \cap {"b", "c"} = {} /\ "h" \in modifiers -> 2
    [] modifiers \cap {"b", "c", "h"} = {} /\ modifiers \cap {"q", "f"} # {} -> 8
    [] OTHER -> 4

DisplayType(modifiers) ==
  CASE DisplaySize(modifiers) \in {1, 2} -> "int"
    [] DisplaySize(modifiers) = 8 -> "double"
    [] OTHER -> "uint"

-----------------------------------------------------------------------------
(* The command table and dlite_exec(): an optional argument ends in "?".   *)

cmd_db ==
  [help |-> <<"s?">>, terminate |-> <<>>, quit |-> <<>>, cont |-> <<"a?">>,
   step |-> <<>>, print |-> <<"m?", "e">>, options |-> <<>>, stat |-> <<"s">>,
   regs |-> <<>>, display |-> <<"m?", "a">>, dump |-> <<"a?", "c?">>,
   dis |-> <<"a?", "c?">>, break |-> <<"a">>, dbreak |-> <<"a", "t?">>,
   rbreak |-> <<"s", "t?">>, breaks |-> <<>>, delete |-> <<"i">>, clear |-> <<>>]

Optional(arg) == arg \in {"s?", "a?", "m?", "c?", "t?"}

\* How one declared argument takes the words that are left.  A word of the
\* wrong kind is an error, but modifiers are optional wherever they stand.
TakeArg(m, arg) ==
  CASE m.err # "" \/ m.done -> m
    [] m.err = "" /\ ~m.done /\ m.words = <<>> ->
         IF Optional(arg) THEN [m EXCEPT !.done = TRUE]
         ELSE [m EXCEPT !.err = "missing an argument"]
    [] OTHER ->
         LET w    == Head(m.words)
             Is(kind) == kind \in DOMAIN w
             took == [m EXCEPT !.words = Tail(@),
                               !.args = Append(@, w[CHOOSE kind \in DOMAIN w : TRUE])]
         IN  CASE arg = "m?" /\ ~Is("mods") -> [m EXCEPT !.args = Append(@, {})]
               [] arg = "m?" /\ Is("mods") -> took
               [] arg \in {"a", "a?", "c?", "e", "i"} ->
                    IF Is("expr") THEN took ELSE [m EXCEPT !.err = "bad expression"]
               [] arg = "t?" ->
                    IF Is("access") THEN took ELSE [m EXCEPT !.err = "bad access type"]
               [] OTHER -> took

MatchArgs(line) ==
  LET m == FoldLeft(TakeArg, [args |-> <<>>, words |-> line.words, err |-> "", done |-> FALSE],
                    cmd_db[line.name])
  IN  IF m.err = "" /\ m.words # <<>> THEN [m EXCEPT !.err = "too many arguments"] ELSE m

-----------------------------------------------------------------------------
(* Breakpoints.                                                            *)

set_break(class, range) ==
  LET bp == [id |-> break_id, class |-> class, range |-> range]
  IN  /\ break_id <= MaxBreaks
      /\ break_id' = break_id + 1
      /\ dlite_bps' = <<bp>> \o dlite_bps
      /\ dlite_check' = TRUE
      /\ wanted' = wanted \cup {bp}

WithoutId(bps, id) ==
  LET i == SelectInSeq(bps, LAMBDA bp : bp.id = id)
  IN  IF i = 0 THEN bps ELSE RemoveAt(bps, i)

delete_break_cancels(id) ==
  /\ dlite_bps' = WithoutId(dlite_bps, id)
  /\ dlite_check' = (dlite_check /\ dlite_bps' = dlite_bps)
  /\ wanted' = {bp \in wanted : bp.id # id}
  /\ UNCHANGED break_id

\* An id that is not in the list is reported and changes nothing.
delete_break(id) ==
  /\ dlite_bps' = WithoutId(dlite_bps, id)
  /\ dlite_check' = IF dlite_bps' = dlite_bps THEN dlite_check ELSE dlite_bps' # <<>>
  /\ wanted' = {bp \in wanted : bp.id # id}
  /\ UNCHANGED break_id

\* The breakpoints that match, as the loop over the list tests them.
Hits(bp, next_PC, access, addr, icount) ==
  CASE bp.range.start.ptype = "addr" ->
         \/ "x" \in bp.class /\ range_cmp_range(bp.range, next_PC) = 0
         \/ "r" \in bp.class /\ access = "r" /\ range_cmp_range(bp.range, addr) = 0
         \/ "w" \in bp.class /\ access = "w" /\ range_cmp_range(bp.range, addr) = 0
    [] OTHER -> range_cmp_range(bp.range, icount) = 0

\* The class that is reported for the first breakpoint that matches.
BreakAccess(bp, next_PC, access) ==
  IF /\ bp.range.start.ptype = "addr"
     /\ ~("x" \in bp.class /\ range_cmp_range(bp.range, next_PC) = 0)
  THEN access ELSE "x"

\* __check_break(), behind the macro that skips it.
dlite_check_break(next_PC, access, addr, icount) ==
  LET i == SelectInSeq(dlite_bps, LAMBDA bp : Hits(bp, next_PC, access, addr, icount))
  IN  IF ~dlite_check /\ ~dlite_active THEN [hit |-> FALSE, access |-> break_access]
      ELSE IF dlite_active THEN [hit |-> TRUE, access |-> ""]
      ELSE IF i = 0 THEN [hit |-> FALSE, access |-> ""]
      ELSE [hit |-> TRUE, access |-> BreakAccess(dlite_bps[i], next_PC, access)]

-----------------------------------------------------------------------------
(* The command handlers.  Each is given its matched arguments.             *)

Stay == UNCHANGED <<where, dlite_active, dlite_return>>

\* dlite_cont: a new PC goes to the register file, which the loop is about to
\* overwrite with the next PC, unless the program has not started.
dlite_cont(args) ==
  /\ regs_PC' = IF args = <<>> THEN regs_PC ELSE args[1]
  /\ dlite_active' = FALSE /\ dlite_return' = TRUE
  /\ where' = "loop"
  /\ UNCHANGED <<regs_NPC, sim_num_insn, breaks, cursors>>

dlite_step ==
  /\ dlite_active' = TRUE /\ dlite_return' = TRUE
  /\ where' = "loop"
  /\ UNCHANGED <<program, breaks, cursors>>

\* dlite_terminate and dlite_quit
EndSession ==
  /\ where' = "ended"
  /\ UNCHANGED <<dlite_active, dlite_return, program, breaks, cursors>>

AddrRange(addr, span) ==
  [start |-> [ptype |-> "addr", pos |-> addr], end |-> [ptype |-> "addr", pos |-> addr + span]]

dlite_break(args) ==
  /\ set_break({"x"}, AddrRange(args[1], BreakSpan))
  /\ Stay /\ UNCHANGED <<program, cursors>>

dlite_dbreak(args) ==
  /\ set_break(IF Len(args) = 2 THEN args[2] ELSE {"r", "w"}, AddrRange(args[1], 1))
  /\ Stay /\ UNCHANGED <<program, cursors>>

\* dlite_rbreak: ends of different types or in the wrong order are refused.
dlite_rbreak(args) ==
  LET range == range_parse_range(args[1])
      class == IF Len(args) = 2 THEN args[2] ELSE {"r", "w", "x"}
  IN  /\ Stay /\ UNCHANGED <<program, cursors>>
      /\ IF range.start.ptype # range.end.ptype \/ range.start.pos > range.end.pos
         THEN UNCHANGED breaks
         ELSE set_break(class, range)

dlite_delete(args) ==
  /\ delete_break(args[1])
  /\ Stay /\ UNCHANGED <<program, cursors>>

\* dlite_clear deletes the head of the list until there is none.
dlite_clear ==
  /\ dlite_bps' = <<>> /\ wanted' = {}
  /\ dlite_check' = IF dlite_bps = <<>> THEN dlite_check ELSE FALSE
  /\ UNCHANGED break_id
  /\ Stay /\ UNCHANGED <<program, cursors>>

LINES_PER_SCREEN == 4
BYTES_PER_LINE == 16

\* dlite_dump: after a dump of several lines the next one goes on behind the
\* bytes shown, of which there is one more than asked for if the window of
\* whole lines has room; a dump of one line moves on by the count.
dlite_dump(args) ==
  LET addr      == IF args = <<>> THEN dump_addr ELSE args[1]
      count     == IF Len(args) = 2 THEN args[2] ELSE LINES_PER_SCREEN * BYTES_PER_LINE
      fmt_addr  == addr - (addr % BYTES_PER_LINE)
      fmt_lines == (count + BYTES_PER_LINE - 1) \div BYTES_PER_LINE
      window    == fmt_addr + fmt_lines * BYTES_PER_LINE
  IN  /\ dump_addr' = (CASE count > 1024 -> addr
                         [] fmt_lines = 1 -> addr + count
                         [] OTHER -> Min({window, addr + count + 1})) % AddrSpace
      /\ where' = IF fmt_lines < 1 THEN "ended" ELSE where
      /\ UNCHANGED <<dis_addr, dlite_active, dlite_return, program, breaks>>

INSTS_PER_SCREEN == 16

dlite_dis(args) ==
  LET addr  == IF args = <<>> THEN dis_addr ELSE args[1]
      count == IF Len(args) = 2 THEN args[2] ELSE INSTS_PER_SCREEN
  IN  /\ dis_addr' = IF count \notin 0 .. 1024 \/ addr % InstSize # 0 THEN addr
                     ELSE (addr + count * InstSize) % AddrSpace
      /\ UNCHANGED dump_addr
      /\ Stay /\ UNCHANGED <<program, breaks>>

\* The commands that only print.  print_val() ends the simulator in a panic
\* when it has no format for a value.
Show(line, args) ==
  LET shown == CASE line.name = "print" -> print_val(args[1], "int")
                 [] line.name = "display" -> print_val(args[1], DisplayType(args[1]))
                 [] OTHER -> ""
  IN  /\ where' = IF shown = "panic" THEN "ended" ELSE where
      /\ UNCHANGED <<dlite_active, dlite_return, program, breaks, cursors>>

Execute(line, args) ==
  \/ line.name = "cont" /\ dlite_cont(args)
  \/ line.name = "step" /\ dlite_step
  \/ line.name \in {"terminate", "quit"} /\ EndSession
  \/ line.name = "break" /\ dlite_break(args)
  \/ line.name = "dbreak" /\ dlite_dbreak(args)
  \/ line.name = "rbreak" /\ dlite_rbreak(args)
  \/ line.name = "delete" /\ dlite_delete(args)
  \/ line.name = "clear" /\ dlite_clear
  \/ line.name = "dump" /\ dlite_dump(args)
  \/ line.name = "dis" /\ dlite_dis(args)
  \/ /\ line.name \in {"help", "print", "options", "stat", "regs", "display", "breaks"}
     /\ Show(line, args)

\* One round of the loop in dlite_main(): an empty line repeats the last one,
\* and at first there is none to repeat.
Command(typed) ==
  LET line == IF typed = NoLine THEN cmd ELSE typed
  IN  /\ where = "prompt"
      /\ cmd' = line
      /\ UNCHANGED break_access
      /\ IF line = NoLine \/ MatchArgs(line).err # ""
         THEN Stay /\ UNCHANGED <<program, breaks, cursors>>
         ELSE Execute(line, MatchArgs(line).args)

-----------------------------------------------------------------------------
(* The loop of sim_main().                                                 *)

Enter(check) ==
  /\ break_access' = check.access
  /\ dlite_active' = (dlite_active \/ check.hit)
  /\ dlite_return' = IF check.hit THEN FALSE ELSE dlite_return
  /\ where' = IF check.hit THEN "prompt" ELSE "loop"

\* The -i option makes the simulator start in the debugger.
Init ==
  /\ dlite_active \in BOOLEAN
  /\ where = IF dlite_active THEN "prompt" ELSE "loop"
  /\ regs_PC = Min(DOMAIN Insts)
  /\ regs_NPC = Min(DOMAIN Insts) + InstSize
  /\ sim_num_insn = 0
  /\ dlite_check = FALSE /\ dlite_return = FALSE
  /\ dlite_bps = <<>> /\ break_id = 1 /\ break_access = ""
  /\ cmd = NoLine /\ dump_addr = 0 /\ dis_addr = 0 /\ wanted = {}

\* The PC of the instruction that is executed next: after the first one the
\* loop has moved on to regs_NPC.
ExecPC == IF sim_num_insn = 0 THEN regs_PC ELSE regs_NPC

\* One instruction, and the check at its end.  An instruction that makes no
\* reference is given to the check as a read of address 0.
Instruction(target) ==
  LET next == IF sim_num_insn = 0 THEN regs_NPC ELSE regs_NPC + InstSize
      npc  == IF target \in DOMAIN Insts THEN target ELSE next
      ref  == IF Insts[ExecPC].access = "" THEN [access |-> "r", addr |-> 0] ELSE Insts[ExecPC]
  IN  /\ where = "loop"
      /\ sim_num_insn < MaxInsts
      /\ ExecPC \in DOMAIN Insts
      /\ sim_num_insn' = sim_num_insn + 1
      /\ regs_PC' = ExecPC
      /\ regs_NPC' = npc
      /\ Enter(dlite_check_break(npc, ref.access, ref.addr, sim_num_insn + 1))
      /\ UNCHANGED <<breaks, cmd, cursors>>

\* The instruction limit, or a program that has left its text.
EndRun ==
  /\ where = "loop"
  /\ sim_num_insn >= MaxInsts \/ ExecPC \notin DOMAIN Insts
  /\ where' = "ended"
  /\ UNCHANGED <<dlite_active, dlite_return, program, breaks, break_access, cmd, cursors>>

Next ==
  \/ \E line \in Lines \cup {NoLine} : Command(line)
  \/ \E target \in DOMAIN Insts \cup {-1} : Instruction(target)
  \/ EndRun

Spec == Init /\ [][Next]_vars

-----------------------------------------------------------------------------
\* The program stops exactly where the user asked for it: an instruction is
\* followed by a prompt if and only if the user is stepping, or one of the
\* breakpoints set and not deleted since then matches, whatever order they were
\* set, deleted and cleared in.  The exception is the code's own: a data
\* breakpoint whose range holds address 0 also stops at instructions that make
\* no reference.
StopsExactly ==
  sim_num_insn' # sim_num_insn =>
    LET ref   == Insts[ExecPC]
        asked == \E bp \in wanted :
                   Hits(bp, regs_NPC', ref.access, ref.addr, sim_num_insn')
        zero  == /\ ref.access = ""
                 /\ \E bp \in wanted :
                      /\ bp.range.start.ptype = "addr" /\ "r" \in bp.class
                      /\ range_cmp_range(bp.range, 0) = 0
    IN  where' = "prompt" <=> dlite_active \/ asked \/ zero
=============================================================================
