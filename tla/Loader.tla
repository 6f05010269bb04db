------------------------------- MODULE Loader -------------------------------
(***************************************************************************)
(* ld_load_prog() of the two targets (loader.c, target-alpha/loader.c, the *)
(* standalone loader): the sections of an ECOFF executable are copied into *)
(* the simulated memory, the segment variables are set, the arguments and  *)
(* the environment of the program are laid out on its stack, and the PISA  *)
(* loader decodes the opcodes of the text.                                 *)
(*                                                                         *)
(* Memory is a function from the addresses that were written to bytes; the *)
(* pages of all others are zero.  A string is a sequence of bytes.  Words  *)
(* are little endian, like the host.  EIO files, which ld_load_prog() also *)
(* takes, are loaded in EIO.                                               *)
(***************************************************************************)
EXTENDS Integers, Sequences, FiniteSets, FiniteSetsExt

CONSTANTS
  Targets,       \* target -> [ptr, page, max_environ, text_base, data_base,
                 \*            stack_base, stack_gap, padding, inst]
  mask2op,       \* md_mask2op of PISA: opcode field -> opcode; the rest is OP_NA
  Executables,   \* [target, magic, text_start, tsize, data_start, dsize, bsize,
                 \*  gp, entry, sections], a section is [styp, vaddr, data];
                 \*  the text is a whole number of instructions from text_base
  Arguments, Environments   \* sequences of strings

VARIABLES
  exe, argv, envp,   \* what is loaded
  at,                \* the step of ld_load_prog(), "loaded" or "fatal"
  i,                 \* its loop counter
  sp,                \* the local stack pointer
  mem,               \* address -> byte
  ld,                \* the ld_ variables
  regs               \* the registers that are set

vars == <<exe, argv, envp, at, i, sp, mem, ld, regs>>

T == Targets[exe.target]

-----------------------------------------------------------------------------
(* memory.c                                                                *)

Byte(a) == IF a \in DOMAIN mem THEN mem[a] ELSE 0

\* mem_bcopy(mem_access, mem, Write, a, d): byte by byte.
mem_bcopy(m, a, d) ==
  [x \in DOMAIN m \cup a .. a + Len(d) - 1 |->
     IF x \in a .. a + Len(d) - 1 THEN d[x - a + 1] ELSE m[x]]

mem_bzero(m, a, n) == mem_bcopy(m, a, [k \in 1 .. n |-> 0])

mem_strcpy(m, a, s) == mem_bcopy(m, a, Append(s, 0))

\* mem_access() of a word: a misaligned write is a fault, which the loader does
\* not look at.  Values are below 2^24.
mem_access(m, a, v, n) ==
  IF a % n # 0 THEN m
  ELSE mem_bcopy(m, a, [k \in 1 .. n |-> IF k > 3 THEN 0 ELSE (v \div 256 ^ (k - 1)) % 256])

ROUND_UP(n, align) == ((n + align - 1) \div align) * align
ROUND_DOWN(n, align) == (n \div align) * align

-----------------------------------------------------------------------------
(* The executable.                                                         *)

Fatal == at' = "fatal" /\ UNCHANGED <<exe, argv, envp, i, sp, mem, ld, regs>>

\* The magic number of a file for this target and a host of this byte order.
MagicOK == exe.magic = IF exe.target = "PISA" THEN "EL" ELSE "ALPHA"

\* The segments that the a.out header gives.  PISA's begin at fixed places, and
\* the size of its text comes with the section.
PISAHeader ==
  [ld EXCEPT !.text_base = T.text_base, !.data_base = T.data_base,
             !.data_size = exe.dsize + exe.bsize, !.prog_entry = exe.entry]

AlphaHeader ==
  [ld EXCEPT !.text_base = exe.text_start, !.text_size = exe.tsize,
             !.data_base = exe.data_start, !.data_size = exe.dsize + exe.bsize,
             !.prog_entry = exe.entry]

\* The file header and the a.out header.
ReadHeader ==
  /\ at = "header"
  /\ IF ~MagicOK THEN Fatal
     ELSE /\ at' = "sections" /\ i' = 1
          /\ ld' = IF exe.target = "PISA" THEN PISAHeader ELSE AlphaHeader
          /\ regs' = IF exe.target = "PISA" THEN regs ELSE [regs EXCEPT !.GP = exe.gp]
          /\ UNCHANGED <<exe, argv, envp, sp, mem>>

\* The sections whose contents are copied.
PISALoads  == {"TEXT", "RDATA", "DATA", "SDATA"}
AlphaLoads == PISALoads \cup {"INIT", "FINI", "LITA", "LIT8", "LIT4", "XDATA", "PDATA", "RCONST"}

\* PISA: the text is padded with zeros, for instructions fetched down a wrong
\* path; reading a section that is empty fails.
LoadPISASection(s) ==
  IF s.styp \notin PISALoads THEN i' = i + 1 /\ UNCHANGED <<exe, argv, envp, at, sp, mem, ld, regs>>
  ELSE IF s.data = <<>> THEN Fatal
  ELSE /\ i' = i + 1
       /\ LET end    == s.vaddr + Len(s.data)
              copied == mem_bcopy(mem, s.vaddr, s.data)
          IN  IF s.styp = "TEXT"
              THEN /\ mem' = mem_bzero(copied, end, T.padding)
                   /\ ld' = [ld EXCEPT !.text_size = end - T.text_base + T.padding]
              ELSE mem' = copied /\ UNCHANGED ld
       /\ UNCHANGED <<exe, argv, envp, at, sp, regs>>

\* Alpha: an empty section is skipped, except the text.
LoadAlphaSection(s) ==
  IF s.styp = "TEXT" /\ s.data = <<>> THEN Fatal
  ELSE /\ i' = i + 1
       /\ mem' = IF s.styp \in AlphaLoads THEN mem_bcopy(mem, s.vaddr, s.data) ELSE mem
       /\ UNCHANGED <<exe, argv, envp, at, sp, ld, regs>>

LoadSection ==
  /\ at = "sections" /\ i <= Len(exe.sections)
  /\ IF exe.target = "PISA" THEN LoadPISASection(exe.sections[i])
     ELSE LoadAlphaSection(exe.sections[i])

\* The sanity checks on the segments.
CheckSegments ==
  /\ at = "sections" /\ i > Len(exe.sections)
  /\ IF 0 \in {ld.text_base, ld.text_size, ld.data_base, ld.data_size, ld.prog_entry} THEN Fatal
     ELSE at' = "argc" /\ UNCHANGED <<exe, argv, envp, i, sp, mem, ld, regs>>

-----------------------------------------------------------------------------
(* The stack.                                                              *)

StackBase == IF exe.target = "PISA" THEN T.stack_base ELSE ld.text_base - T.stack_gap

EnvironBase ==
  IF exe.target = "PISA" THEN ROUND_DOWN(StackBase - T.max_environ, 8)
  ELSE StackBase - T.max_environ

argv_addr == ld.environ_base + T.ptr

\* Mutant: no room is left for the NULL that ends the arguments.
envp_addr_no_null == argv_addr + Len(argv) * T.ptr

envp_addr == argv_addr + (Len(argv) + 1) * T.ptr

\* [argc] is written, and room is left for the two arrays of pointers.
WriteArgc ==
  LET base == EnvironBase
  IN  /\ at = "argc"
      /\ at' = "argv" /\ i' = 1
      /\ ld' = [ld EXCEPT !.stack_base = StackBase, !.stack_size = StackBase - base,
                          !.environ_base = base]
      /\ mem' = mem_access(mem, base, Len(argv), T.ptr)
      /\ regs' = IF exe.target = "PISA" THEN regs
                 ELSE [regs EXCEPT !.A0 = Len(argv), !.A1 = base + T.ptr]
      /\ sp' = base + T.ptr + (Len(argv) + 1) * T.ptr + (Len(envp) + 1) * T.ptr
      /\ UNCHANGED <<exe, argv, envp>>

\* One pointer of an array and its string, or the NULL that ends the array.
WriteStrings(step, strings, array, next) ==
  /\ at = step
  /\ IF i <= Len(strings)
     THEN /\ mem' = mem_strcpy(mem_access(mem, array + (i - 1) * T.ptr, sp, T.ptr), sp, strings[i])
          /\ sp' = sp + Len(strings[i]) + 1
          /\ i' = i + 1 /\ UNCHANGED at
     ELSE /\ mem' = mem_access(mem, array + (i - 1) * T.ptr, 0, T.ptr)
          /\ at' = next /\ i' = 1 /\ UNCHANGED sp
  /\ UNCHANGED <<exe, argv, envp, ld, regs>>

WriteArgv == WriteStrings("argv", argv, argv_addr, "envp")

WriteEnvp == WriteStrings("envp", envp, envp_addr, "finish")

\* MD_OP_ENUM()
md_op_enum(field) == IF field \in DOMAIN mask2op THEN mask2op[field] ELSE 0

\* The addresses the predecode loop stops at: from the base of the text segment,
\* whatever section lies there, to the end of the padding.
Decoded(a) ==
  /\ exe.target = "PISA"
  /\ a \in ld.text_base .. ld.text_base + ld.text_size - 1
  /\ (a - ld.text_base) % T.inst = 0

\* The predecode loop: in the first word of each instruction the opcode field,
\* its low byte, is replaced by the opcode.
Predecode(m) ==
  [a \in DOMAIN m \cup {x \in ld.text_base .. ld.text_base + ld.text_size - 1 : Decoded(x)} |->
     IF Decoded(a) THEN md_op_enum(Byte(a)) ELSE m[a]]

\* Did the strings run over the top of the stack?  If not, the heap begins on
\* the page after the data, and once PISA's text is decoded the program can start.
Finish ==
  /\ at = "finish"
  /\ IF sp > ld.stack_base THEN Fatal
     ELSE /\ at' = "loaded"
          /\ ld' = [ld EXCEPT !.brk_point = ROUND_UP(ld.data_base + ld.data_size, T.page),
                              !.stack_min = regs.SP]
          /\ regs' = [regs EXCEPT !.SP = ld.environ_base, !.PC = ld.prog_entry]
          /\ mem' = Predecode(mem)
          /\ UNCHANGED <<exe, argv, envp, i, sp>>

Init ==
  /\ exe \in Executables /\ argv \in Arguments /\ envp \in Environments
  /\ at = "header" /\ i = 1 /\ sp = 0
  /\ mem = [a \in {} |-> 0]
  /\ ld = [text_base |-> 0, text_size |-> 0, data_base |-> 0, data_size |-> 0,
           brk_point |-> 0, stack_base |-> 0, stack_size |-> 0, stack_min |-> -1,
           prog_entry |-> 0, environ_base |-> 0]
  /\ regs = [SP |-> 0, PC |-> 0, GP |-> 0, A0 |-> 0, A1 |-> 0]

Next == ReadHeader \/ LoadSection \/ CheckSegments \/ WriteArgc \/ WriteArgv \/ WriteEnvp \/ Finish

Spec == Init /\ [][Next]_vars

-----------------------------------------------------------------------------
(* What the program that was loaded sees.                                  *)

Word(a) == Byte(a) + 256 * Byte(a + 1) + 65536 * Byte(a + 2)

HasString(a, s) == \A k \in 1 .. Len(s) + 1 : Byte(a + k - 1) = Append(s, 0)[k]

HasStrings(array, strings) ==
  /\ \A k \in DOMAIN strings : HasString(Word(array + (k - 1) * T.ptr), strings[k])
  /\ Word(array + Len(strings) * T.ptr) = 0

Used(strings) == FoldSet(LAMBDA k, n : n + Len(strings[k]) + 1, 0, DOMAIN strings)

\* The program starts from the image it was given.  Reading from its stack
\* pointer it finds its argument count, a NULL-terminated array of its arguments
\* and behind that one of its environment, each pointer leading to its string;
\* the bytes of its text and its data are those of the file, except that in the
\* text segment of PISA the first byte of each instruction is its opcode, the
\* padding holds instructions of opcode field 0, and constants that lie in that
\* segment before the text are decoded with it; its uninitialised data is zero,
\* so neither the padding of the text nor the stack overwrote any of it; the heap
\* begins on the first page boundary after the data.  A good executable is
\* refused exactly when the arguments and the environment are larger than the
\* area that is set aside for them.
ProcessImage ==
  LET need == (Len(argv) + Len(envp) + 3) * T.ptr + Used(argv) + Used(envp)
      Loads == IF exe.target = "PISA" THEN PISALoads ELSE AlphaLoads
      \* the byte b of section s, in memory: an opcode if an instruction of the
      \* text begins there
      AsLoaded(s, b) ==
        IF IF s.styp = "TEXT" THEN exe.target = "PISA" /\ (b - 1) % T.inst = 0
           ELSE Decoded(s.vaddr + b - 1)
        THEN md_op_enum(s.data[b]) ELSE s.data[b]
      End   == ld.text_base + ld.text_size
      Good  == /\ MagicOK
               /\ \E k \in DOMAIN exe.sections : exe.sections[k].styp = "TEXT"
               /\ \A k \in DOMAIN exe.sections : exe.sections[k].styp \in Loads =>
                    exe.sections[k].data # <<>>
  IN  /\ at = "loaded" =>
           /\ Word(regs.SP) = Len(argv)
           /\ HasStrings(regs.SP + T.ptr, argv)
           /\ HasStrings(regs.SP + (Len(argv) + 2) * T.ptr, envp)
           /\ exe.target # "PISA" => regs.A0 = Len(argv) /\ regs.A1 = regs.SP + T.ptr
           /\ \A k \in DOMAIN exe.sections :
                LET s == exe.sections[k]
                IN  s.styp \in Loads =>
                      \A b \in DOMAIN s.data : Byte(s.vaddr + b - 1) = AsLoaded(s, b)
           /\ \A a \in End - T.padding .. End - 1 :
                Byte(a) = IF Decoded(a) THEN md_op_enum(0) ELSE 0
           /\ \A a \in ld.data_base + exe.dsize .. ld.brk_point - 1 : Byte(a) = 0
           /\ ld.brk_point % T.page = 0
           /\ ld.brk_point - (ld.data_base + ld.data_size) \in 0 .. T.page - 1
      /\ Good /\ at \in {"loaded", "fatal"} =>
           (at = "loaded" <=> need <= StackBase - EnvironBase)
=============================================================================
