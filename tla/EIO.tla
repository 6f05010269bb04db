-------------------------------- MODULE EIO --------------------------------
(***************************************************************************)
(* External I/O traces and checkpoints (eio.c, driven by sim-eio.c and the *)
(* EIO half of loader.c).  A live run of a program under -trace records    *)
(* every system call as a transaction; later sessions re-execute the file  *)
(* without the host, take checkpoints (-dump, -perdump), start from one     *)
(* (-chkpt), or record a new trace while replaying (-trace).                *)
(*                                                                         *)
(* The program is any sequence of the instructions in Plan: a store, or a  *)
(* system call with its argument registers set.  prog is the sequence the  *)
(* live run executed; a replay executes the same program.                   *)
(***************************************************************************)
EXTENDS Integers, Sequences, FiniteSets
LOCAL INSTANCE SequencesExt

CONSTANTS MemSize, PageSize, KnownFlags, KnownIoctls,
          Targets,       \* the targets built: a subset of {"pisa", "alpha"}
          Plan,          \* Plan[t][k]: calls the k-th instruction may make on target t
          Arguments,     \* the argument vectors tried
          Hosts,         \* the answers the host may give
          BlobTail,      \* BLOB_TAIL_SIZE
          MaxInsts,      \* -max:inst
          Interval,      \* the -perdump interval
          Commands       \* Commands[n]: the command lines the n-th simulator run may have

ASSUME SizesAssumption == {MemSize, PageSize, BlobTail, Interval} \subseteq Nat \ {0}

P == INSTANCE Syscall
A == INSTANCE OSFSyscall

VARIABLES target,     \* the instruction set, fixed by the build
          opts,       \* the command line of the running simulator
          status,     \* "idle", "fastfwd", "running", "exited" or "fatal"
          cause,      \* the message of the fatal() or panic()
          proc,       \* registers, memory, break, output, signal state
          pc, icnt,   \* position in the program; sim_num_insn
          trans_icnt, \* eio_trans_icnt
          eio,        \* the transactions sim_eio_fd has still to deliver
          files,      \* EIO files on disk: initial checkpoint and transactions
          chkpts,     \* checkpoint files on disk
          session,    \* number of the simulator run
          start,      \* pc at which the session was loaded
          prog,       \* instructions of the live run
          hist        \* hist[k + 1]: the live run's state after k instructions

vars == <<target, opts, status, cause, proc, pc, icnt, trans_icnt, eio, files, chkpts, session,
          start, prog, hist>>

Regs  == IF target = "pisa" THEN P!PISARegs ELSE A!AlphaRegs
InOut == Regs \cap (IF target = "pisa" THEN P!PISAInOut ELSE A!AlphaInOut)
Ret   == IF target = "pisa" THEN 2 ELSE A!V0
Args  == IF target = "pisa" THEN <<4, 5, 6, 7>> ELSE <<A!A0, A!A1, A!A2, A!A3, A!A4, A!A5>>

CallNumber == 9    \* stands for the call number in the result register

(* An EIO file: its initial checkpoint, once written, and its transactions. *)
NoFile == [chk |-> <<>>, trans |-> <<>>]

(* opts.next is next_chkpt_cycle, opts.ff what is left of -fastfwd.         *)
NoOptions == [eio |-> "none", trace |-> "none", chkpt |-> 0, dump |-> -1, perdump |-> FALSE,
              ff |-> 0, next |-> Interval]

LoadedRegs == [i \in Regs |-> IF i \in {29, 30} THEN MemSize - 2 ELSE 0]

LoadedProcess ==
    [r |-> LoadedRegs, mem |-> [a \in 0 .. MemSize - 1 |-> a % 3], brk |-> PageSize,
     out |-> <<>>, sigmask |-> 0, sigaction |-> [n \in 0 .. 3 |-> 0]]

(* Mutant: the file pointer saved is the instruction count.                *)
eio_write_chkpt_at_icnt ==
    [trans |-> icnt, icnt |-> icnt, pc |-> pc, r |-> proc.r, mem |-> proc.mem, brk |-> proc.brk]

(* A checkpoint holds the architected state; not the simulator's statics.  *)
eio_write_chkpt ==
    [trans |-> trans_icnt, icnt |-> icnt, pc |-> pc, r |-> proc.r, mem |-> proc.mem, brk |-> proc.brk]

eio_read_chkpt(chk) ==
    [r |-> chk.r, mem |-> chk.mem, brk |-> chk.brk, out |-> <<>>, sigmask |-> 0,
     sigaction |-> [n \in 0 .. 3 |-> 0]]

(* Mutant: a cell joins the last blob although it does not follow it.       *)
Record_any_room(blobs, a, v) ==
    LET n == Len(blobs)
    IN  IF n > 0 /\ Len(blobs[n].data) < BlobTail
          THEN [blobs EXCEPT ![n].data = Append(@, v)]
          ELSE Append(blobs, [addr |-> a, data |-> <<v>>])

(* my_mem_fn(): consecutive cells go into one blob while it has room.       *)
Record(blobs, a, v) ==
    LET n == Len(blobs)
    IN  IF n > 0 /\ blobs[n].addr + Len(blobs[n].data) = a /\ Len(blobs[n].data) < BlobTail
          THEN [blobs EXCEPT ![n].data = Append(@, v)]
          ELSE Append(blobs, [addr |-> a, data |-> <<v>>])

Blobs(log, cmd) ==
    FoldLeft(LAMBDA b, x : IF x.cmd = cmd THEN Record(b, x.addr, x.val) ELSE b, <<>>, log)

ReadAfterWrite(log) ==
    \E i, j \in DOMAIN log : i < j /\ log[i].cmd = "Write" /\ log[j].cmd = "Read"

Bytes(blobs) ==
    FoldLeft(LAMBDA s, b : s \o [k \in DOMAIN b.data |-> [addr |-> b.addr + k - 1, val |-> b.data[k]]],
             <<>>, blobs)

(* The process as a system call finds it.                                  *)
Entry(inst) ==
    LET argOf(i) == {k \in DOMAIN Args : Args[k] = i}
    IN  [r   |-> [i \in Regs |-> CASE i = Ret -> CallNumber
                                   [] argOf(i) # {} -> inst.arg[CHOOSE k \in argOf(i) : TRUE]
                                   [] OTHER -> proc.r[i]],
         mem |-> proc.mem, brk |-> proc.brk, out |-> proc.out,
         sigmask |-> proc.sigmask, sigaction |-> proc.sigaction, log |-> <<>>, end |-> ""]

(* MD_OUTPUT_SYSCALL: a write to stdout or stderr.                         *)
IsOutput(inst) == inst.code = "write" /\ inst.arg[1] \in {1, 2}

Live(inst, h) == IF target = "pisa" THEN P!PISA_syscall(inst.code, Entry(inst), h)
                                    ELSE A!Alpha_syscall(inst.code, Entry(inst), h)

(* sim_num_insn as the call sees it: not counted while fast forwarding.    *)
ThisInsn == IF status = "running" THEN icnt + 1 ELSE icnt

(* eio_read_trace(): the call as the next transaction of the file has it.  *)
(* The inputs are checked in the order of the code, the outputs installed  *)
(* only when all of them agree.                                            *)
eio_read_trace(inst) ==
    LET c == Entry(inst) IN
    IF inst.code = "exit" THEN [c EXCEPT !.end = "exit"] ELSE
    IF eio = <<>> THEN [c EXCEPT !.end = "cannot read EIO transaction"] ELSE
    LET t    == Head(eio)
        ins  == Bytes(t.inmem)
        outs == Bytes(t.outmem)
        log  == [k \in DOMAIN ins |-> P!Access("Read", ins[k].addr, c.mem[P!Cell(ins[k].addr)])]
        wlog == [k \in DOMAIN outs |-> P!Access("Write", outs[k].addr, outs[k].val)]
        bad  == IF t.icnt # ThisInsn THEN "ICNT mismatch"
                ELSE IF t.pc # pc THEN "PC mismatch"
                ELSE IF t.code # inst.code \/ \E i \in InOut : t.inregs[i] # c.r[i]
                  THEN "register input mismatch"
                ELSE IF \E k \in DOMAIN ins : log[k].val # ins[k].val
                  THEN "memory input mismatch" ELSE ""
    IN  IF bad # "" THEN [c EXCEPT !.end = bad]
        ELSE [c EXCEPT !.r   = [i \in Regs |-> IF i \in InOut THEN t.outregs[i] ELSE @[i]],
                       !.brk = t.brk,
                       !.mem = FoldLeft(LAMBDA m, x : [m EXCEPT ![P!Cell(x.addr)] = x.val], @, outs),
                       !.out = IF IsOutput(inst) THEN @ \o [k \in DOMAIN ins |-> ins[k].val] ELSE @,
                       !.log = log \o wlog]

(* sys_syscall(..., TRUE): the replay, and for Alpha the special treatment *)
(* of sigreturn(), which reads its context pointer from A0 after the       *)
(* transaction's outputs have replaced it.                                 *)
ReplayCall(inst) ==
    LET d == eio_read_trace(inst)
    IN  IF target = "alpha" /\ inst.code = "sigreturn" /\ d.end = ""
          THEN A!LoadContext(d, d.r[A!A0]) ELSE d

(* What the call does to the process, whoever answers it.                  *)
Answers(inst) ==
    IF opts.eio = "none" THEN {Live(inst, h) : h \in Hosts}
    ELSE IF opts.trace # "none" /\ status = "running" THEN {eio_read_trace(inst)}
    ELSE {ReplayCall(inst)}

Outcome(c) ==
    IF c.end = "" /\ opts.trace # "none" /\ status = "running" /\ ReadAfterWrite(c.log)
      THEN [c EXCEPT !.end = "Read after Write"] ELSE c

(* eio_write_trace(): the transaction a recorded call becomes.             *)
Transaction(inst, c) ==
    [icnt |-> icnt + 1, pc |-> pc, code |-> inst.code,
     inregs |-> [i \in InOut |-> Entry(inst).r[i]], inmem |-> Blobs(c.log, "Read"),
     outregs |-> [i \in InOut |-> c.r[i]], brk |-> c.brk, outmem |-> Blobs(c.log, "Write")]

(* The next instruction: any of the plan in a live run, the recorded one   *)
(* in a replay.                                                            *)
Instructions ==
    IF opts.eio = "none"
      THEN IF pc < Len(Plan[target]) THEN [code : Plan[target][pc + 1], arg : Arguments] ELSE {}
      ELSE IF pc < Len(prog) THEN {prog[pc + 1]} ELSE {}

Stored(inst) == [proc EXCEPT !.mem[P!Cell(inst.arg[1])] = inst.arg[2]]

Process(c) ==
    [r |-> c.r, mem |-> c.mem, brk |-> c.brk, out |-> c.out, sigmask |-> c.sigmask,
     sigaction |-> c.sigaction]

(* What the program asked to be written to stdout and stderr.              *)
Asked(inst) ==
    IF inst.code = "write" /\ inst.arg[1] \in {1, 2}
      THEN [k \in 1 .. inst.arg[3] |-> proc.mem[P!Cell(inst.arg[2] + k - 1)]] ELSE <<>>

Remember(inst, p) ==
    IF opts.eio = "none"
      THEN /\ prog' = Append(prog, inst)
           /\ hist' = Append(hist, [r |-> p.r, mem |-> p.mem, brk |-> p.brk,
                                    asked |-> hist[pc + 1].asked \o Asked(inst)])
      ELSE UNCHANGED <<prog, hist>>

-----------------------------------------------------------------------------
Init ==
    /\ target \in Targets
    /\ opts = NoOptions
    /\ status = "idle" /\ cause = ""
    /\ proc = LoadedProcess
    /\ pc = 0 /\ icnt = 0 /\ trans_icnt = -1
    /\ eio = <<>>
    /\ files = [f \in {"foo", "bar"} |-> NoFile]
    /\ chkpts = <<>>
    /\ session = 0 /\ start = 0
    /\ prog = <<>>
    /\ hist = <<[r |-> LoadedRegs, mem |-> LoadedProcess.mem, brk |-> PageSize, asked |-> <<>>]>>

(* Options the loader refuses before anything runs (sim_load_prog()).      *)
Refused(o) ==
    CASE o.dump # -1 /\ o.eio = "none" -> "checkpoints need an EIO trace"
      [] o.dump # -1 /\ o.eio # "none" /\ o.perdump -> "both regular and periodic"
      [] o.chkpt # 0 /\ o.eio = "none" -> "checkpoints only while EIO tracing"
      [] OTHER -> ""

(* eio_fast_forward(): the transactions after the checkpoint's.            *)
AfterTransaction(trans, i) == {k \in DOMAIN trans : trans[k].icnt = i}

(* A new simulator process loads the program, an EIO file, or an EIO file  *)
(* and a checkpoint (ld_load_prog()); -trace creates its file empty.       *)
Load(o) ==
    LET file == files[o.eio]
        chk  == IF o.chkpt = 0 THEN file.chk[1] ELSE chkpts[o.chkpt]
        at   == AfterTransaction(file.trans, chk.trans)
    IN  /\ session' = session + 1 /\ opts' = o
        /\ files' = IF o.trace = "none" THEN files ELSE [files EXCEPT ![o.trace] = NoFile]
        /\ IF Refused(o) # "" THEN
             /\ status' = "fatal" /\ cause' = Refused(o)
             /\ UNCHANGED <<proc, pc, icnt, trans_icnt, eio, start>>
           ELSE IF o.eio = "none" THEN
             /\ status' = "fastfwd" /\ cause' = ""
             /\ UNCHANGED <<proc, pc, icnt, trans_icnt, eio, start>>
           ELSE
             /\ proc' = eio_read_chkpt(chk) /\ pc' = chk.pc /\ icnt' = chk.icnt /\ start' = chk.pc
             /\ IF o.chkpt = 0 THEN
                  /\ eio' = file.trans /\ trans_icnt' = -1 /\ status' = "fastfwd" /\ cause' = ""
                ELSE IF at = {} THEN
                  /\ eio' = <<>> /\ trans_icnt' = -1
                  /\ status' = "fatal" /\ cause' = "could not fast forward"
                ELSE
                  /\ eio' = SubSeq(file.trans, (CHOOSE k \in at : TRUE) + 1, Len(file.trans))
                  /\ trans_icnt' = chk.trans /\ status' = "fastfwd" /\ cause' = ""
        /\ UNCHANGED <<target, chkpts, prog, hist>>

Record_live == session = 0 /\ \E o \in Commands[1] : Load(o)

Replay ==
    /\ session \in 1 .. Len(Commands) - 1
    /\ status = "exited" \/ (status = "fatal" /\ session > 1)
    /\ \E o \in Commands[session + 1] :
         /\ files[o.eio].chk # <<>> /\ o.chkpt <= Len(chkpts)
         /\ Load(o)

(* An instruction of the -fastfwd loop: not counted, never recorded.       *)
FastForward ==
    /\ status = "fastfwd" /\ opts.ff > 0
    /\ \E inst \in Instructions :
         IF inst.code = "store" THEN
           /\ proc' = Stored(inst) /\ pc' = pc + 1
           /\ opts' = [opts EXCEPT !.ff = @ - 1]
           /\ Remember(inst, proc')
           /\ UNCHANGED <<status, cause, trans_icnt, eio>>
         ELSE \E c \in Answers(inst) :
           /\ proc' = Process(c) /\ pc' = pc + 1
           /\ status' = CASE c.end = "" -> "fastfwd" [] c.end = "exit" -> "exited" [] OTHER -> "fatal"
           /\ cause' = c.end
           /\ opts' = [opts EXCEPT !.ff = @ - 1]
           /\ trans_icnt' = IF eio = <<>> \/ inst.code = "exit" THEN trans_icnt ELSE icnt
           /\ eio' = IF eio = <<>> \/ inst.code = "exit" THEN eio ELSE Tail(eio)
           /\ Remember(inst, proc')
    /\ UNCHANGED <<target, icnt, files, chkpts, session, start>>

(* After the fast forward the trace file gets its initial checkpoint,      *)
(* which the code takes to be before any transaction.                      *)
BeginTrace ==
    /\ status = "fastfwd" /\ opts.ff = 0
    /\ IF opts.trace = "none" THEN status' = "running" /\ UNCHANGED <<cause, files>>
       ELSE /\ files' = [files EXCEPT ![opts.trace].chk = <<eio_write_chkpt>>]
            /\ IF trans_icnt # -1 THEN status' = "fatal" /\ cause' = "checkpoint code is broken"
                                  ELSE status' = "running" /\ UNCHANGED cause
    /\ UNCHANGED <<target, opts, proc, pc, icnt, trans_icnt, eio, chkpts, session, start, prog, hist>>

DumpDue == opts.dump # -1 /\ icnt >= opts.dump

(* -dump writes its one checkpoint and ends the simulation.                *)
DumpCheckpoint ==
    /\ status = "running" /\ DumpDue
    /\ chkpts' = Append(chkpts, eio_write_chkpt)
    /\ status' = "exited"
    /\ UNCHANGED <<target, opts, cause, proc, pc, icnt, trans_icnt, eio, files, session, start, prog, hist>>

(* -perdump: before the instruction at next_chkpt_cycle is fetched.        *)
PeriodicDue == opts.perdump /\ opts.dump = -1 /\ icnt = opts.next

Ended(c) == CASE c.end = "exit" -> "exited"
              [] c.end # "" /\ c.end # "exit" -> "fatal"
              [] OTHER -> IF icnt + 1 >= MaxInsts THEN "exited" ELSE "running"

(* An instruction of the main loop of sim_main().                          *)
Step ==
    /\ status = "running" /\ ~DumpDue
    /\ IF PeriodicDue
         THEN /\ chkpts' = Append(chkpts, eio_write_chkpt)
              /\ opts' = [opts EXCEPT !.next = @ + Interval]
         ELSE UNCHANGED <<chkpts, opts>>
    /\ \E inst \in Instructions :
         /\ icnt' = icnt + 1 /\ pc' = pc + 1
         /\ IF inst.code = "store" THEN
              /\ proc' = Stored(inst)
              /\ status' = IF icnt + 1 >= MaxInsts THEN "exited" ELSE "running"
              /\ Remember(inst, proc')
              /\ UNCHANGED <<cause, trans_icnt, eio, files>>
            ELSE \E a \in Answers(inst) : LET c == Outcome(a) IN
              /\ proc' = Process(c)
              /\ status' = Ended(c) /\ cause' = c.end
              /\ Remember(inst, proc')
              /\ eio' = IF eio = <<>> \/ inst.code = "exit" THEN eio ELSE Tail(eio)
              /\ trans_icnt' = IF c.end = "exit" \/ (opts.eio = "none" /\ opts.trace = "none")
                                 THEN trans_icnt ELSE icnt + 1
              /\ files' = IF opts.trace = "none" \/ c.end # "" THEN files
                          ELSE [files EXCEPT ![opts.trace].trans = Append(@, Transaction(inst, c))]
    /\ UNCHANGED <<target, session, start>>

Next == Record_live \/ Replay \/ FastForward \/ BeginTrace \/ DumpCheckpoint \/ Step

Spec == Init /\ [][Next]_vars

-----------------------------------------------------------------------------
(* A replay, from the initial checkpoint or from any other, with or without *)
(* recording again, is at every instruction in the state the live run was   *)
(* in: "EIO trace executions are 100% reproducible" (sim-eio.c).            *)
ReplayReproduces ==
    session > 1 /\ status \in {"fastfwd", "running", "exited"} =>
        LET h == hist[pc + 1]
        IN  proc.r = h.r /\ proc.mem = h.mem /\ proc.brk = h.brk

(* The self check never fires on a faithful replay: a session that reads an *)
(* EIO file ends in an error only where the code cannot do what it was      *)
(* asked: fast forwarding through a system call, a checkpoint older than    *)
(* the first transaction, or a new trace started from a checkpoint.         *)
ReplayAccepted ==
    session > 1 /\ status = "fatal" =>
        \/ cause \in {"both regular and periodic"}
        \/ cause = "ICNT mismatch" /\ pc - icnt # (files[opts.eio].chk[1]).pc
        \/ cause = "could not fast forward" /\ chkpts[opts.chkpt].trans = -1
        \/ cause = "checkpoint code is broken" /\ opts.chkpt # 0

(* A replay shows on stdout and stderr exactly what the program asked to be *)
(* written there between the point it was loaded at and now, whatever the   *)
(* host made of those calls in the live run: eio_read_trace() repeats a     *)
(* write() to fd 1 or 2 (eio.c:739).  README.eio says the opposite, which   *)
(* ReplaySilent states; this property holds of the code, that one does not. *)
OutputReproduced ==
    session > 1 /\ status \in {"fastfwd", "running", "exited"} =>
        hist[pc + 1].asked = hist[start + 1].asked \o proc.out

(* README.eio:26: "Other than the error messages, EIO executions produce    *)
(* no output, because they're not really interacting with the OS".          *)
ReplaySilent == session > 1 => proc.out = <<>>

(* A traced run never reads target memory after it has written to it within *)
(* one call: the recording accessor of eio.c cannot record that.            *)
RecordableCalls == cause # "Read after Write"
=============================================================================
