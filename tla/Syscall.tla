------------------------------- MODULE Syscall -------------------------------
(***************************************************************************)
(* The PISA system call proxy, sys_syscall() of syscall.c.  Each handler    *)
(* maps the call record c (see TargetMemory) and the host's answer h to     *)
(* the call record afterwards:                                             *)
(*   h.res    what the host call returned, -1 on error                     *)
(*   h.errno  the host's errno after it                                    *)
(*   h.v      the data the host delivers (one value fills every cell)      *)
(* The call number is in $r2, arguments in $r4..$r7, results in $r2, $r3   *)
(* and the error flag in $r7; $r29 is the stack pointer.                    *)
(***************************************************************************)
EXTENDS TargetMemory
LOCAL INSTANCE SequencesExt

CONSTANTS PageSize,     \* MD_PAGE_SIZE
          KnownFlags,   \* open(2) flag words that ss_flag_table decodes
          KnownIoctls   \* requests the host build can translate

PISARegs   == {2, 3, 4, 5, 6, 7, 29}
PISAInOut  == 2 .. 7
PISACodes  == {"exit", "read", "write", "open", "close", "creat", "unlink", "chdir", "chmod",
               "chown", "brk", "lseek", "getpid", "getuid", "access", "stat", "dup", "pipe",
               "getgid", "ioctl", "fstat", "getpagesize", "setitimer", "getdtablesize", "dup2",
               "fcntl", "select", "sigvec", "sigblock", "sigsetmask", "gettimeofday",
               "getrusage", "writev", "utimes", "rlimit", "bogus"}

ENOMEM == 1
TIOCGETP == 3

Clip(n, hi) == IF n > hi THEN hi ELSE n

SetRegs(c, f) == [c EXCEPT !.r = [i \in DOMAIN @ |-> IF i \in DOMAIN f THEN f[i] ELSE @[i]]]

R1(i, x)             == [k \in {i} |-> x]
R2(i, x, j, y)       == [k \in {i, j} |-> IF k = i THEN x ELSE y]

(* The result protocol that ends almost every handler.                     *)
Result(c, h) ==
    IF h.res # -1 THEN SetRegs(c, R2(2, h.res, 7, 0)) ELSE SetRegs(c, R2(2, h.errno, 7, 1))

SYS_exit(c, h) == Fatal(c, "exit")

(* The copy back is of $r2 cells, which after an error is errno, not 0.    *)
SYS_read(c, h) ==
    LET d == Result(c, [h EXCEPT !.res = Clip(@, c.r[6])])
    IN  mem_write(d, d.r[5], Repeat(IF h.res = -1 THEN 0 ELSE h.v, d.r[2]))

IsOutput(c) == c.r[4] \in {1, 2}

(* Mutant: the last cell of the buffer is not copied in.                   *)
SYS_write_short_copy(c, h) ==
    LET d == mem_read(c, c.r[5], c.r[6] - 1)
        e == IF IsOutput(c)
               THEN [d EXCEPT !.out = @ \o [k \in 1 .. c.r[6] |-> c.mem[Cell(c.r[5] + k - 1)]]]
               ELSE d
    IN  Result(e, h)

SYS_write(c, h) ==
    LET d == mem_read(c, c.r[5], c.r[6])
        n == Clip(h.res, c.r[6])
        s == [k \in 1 .. n |-> c.mem[Cell(c.r[5] + k - 1)]]
        e == IF IsOutput(c) THEN [d EXCEPT !.out = @ \o s] ELSE d
    IN  IF n = c.r[6] THEN SetRegs(e, R2(2, n, 7, 0)) ELSE SetRegs(e, R2(2, h.errno, 7, 1))

SYS_open(c, h) ==
    IF c.r[5] \in KnownFlags THEN Result(mem_strcpy(c, c.r[4]), h)
                             ELSE Fatal(c, "cannot decode flags")

SYS_close(c, h) == IF c.r[4] \in 0 .. 2 THEN SetRegs(c, R1(7, 0)) ELSE Result(c, h)

SYS_creat(c, h)  == Result(mem_strcpy(c, c.r[4]), h)
SYS_unlink(c, h) == Result(mem_strcpy(c, c.r[4]), h)
SYS_chdir(c, h)  == Result(mem_strcpy(c, c.r[4]), h)
SYS_chmod(c, h)  == Result(mem_strcpy(c, c.r[4]), h)
SYS_chown(c, h)  == Result(mem_strcpy(c, c.r[4]), h)

RoundUp(x, y) == ((x + y - 1) \div y) * y

(* The heap may not shrink and may not meet the stack.                     *)
SYS_brk(c, h) ==
    LET a == RoundUp(c.r[4], PageSize)
    IN  IF a >= c.brk /\ a < c.r[29]
          THEN [SetRegs(c, R2(2, 0, 7, 0)) EXCEPT !.brk = a]
          ELSE SetRegs(c, R2(2, ENOMEM, 7, 1))

SYS_lseek(c, h)  == Result(c, h)
SYS_getpid(c, h) == Result(c, h)
SYS_getuid(c, h) == Result(SetRegs(c, R1(3, h.v)), h)
SYS_access(c, h) == Result(mem_strcpy(c, c.r[4]), h)

(* The host buffer is copied back even when the host call failed.          *)
SYS_stat(c, h) == LET d == Result(mem_strcpy(c, c.r[4]), h) IN mem_write(d, d.r[5], <<h.v>>)

SYS_dup(c, h) == Result(c, h)

SYS_pipe(c, h) ==
    LET d == mem_read(c, c.r[4], 2)
        p == IF h.res = -1 THEN c.mem[Cell(c.r[4] + 1)] ELSE h.v
    IN  IF h.res = -1
          THEN SetRegs(SetRegs(d, R2(2, h.errno, 7, 1)), R1(3, p))
          ELSE SetRegs(SetRegs(d, R2(2, h.v, 7, 0)), R1(3, p))

SYS_getgid(c, h) == Result(SetRegs(c, R1(3, h.v)), h)

(* A request the build cannot translate is ignored, except TIOCGETP, which *)
(* is emulated with tcgetattr().                                           *)
SYS_ioctl(c, h) ==
    CASE c.r[5] \in KnownIoctls ->
           Result(write_opt(read_opt(c, c.r[6]), c.r[6], h.v), h)
      [] c.r[5] = TIOCGETP /\ TIOCGETP \notin KnownIoctls ->
           Result(mem_write(c, c.r[6], <<h.v>>), h)
      [] OTHER -> SetRegs(c, R2(2, 0, 7, 0))

SYS_fstat(c, h) == LET d == Result(c, h) IN mem_write(d, d.r[5], <<h.v>>)

SYS_getpagesize(c, h) == SetRegs(c, R2(2, PageSize, 7, 0))
SYS_setitimer(c, h)   == SetRegs(c, R2(2, 0, 7, 0))

SYS_getdtablesize(c, h) == Result(c, [h EXCEPT !.res = IF @ = -1 THEN -1 ELSE h.v])

SYS_dup2(c, h)  == Result(c, h)
SYS_fcntl(c, h) == Result(c, h)

(* The exception set's pointer is in $r7, which the result protocol has    *)
(* overwritten with the error flag by the time the sets are copied back.   *)
SYS_select(c, h) ==
    LET param5 == c.mem[Cell(c.r[29] + 1)]
        d == mem_read(c, c.r[29] + 1, 1)
        e == read_opt(read_opt(read_opt(read_opt(d, c.r[5]), c.r[6]), c.r[7]), param5)
        f == Result(e, h)
    IN  write_opt(write_opt(write_opt(write_opt(f, f.r[5], h.v), f.r[6], h.v), f.r[7], h.v),
                  param5, h.v)

SYS_sigvec(c, h)     == SetRegs(c, R2(2, 0, 7, 0))
SYS_sigblock(c, h)   == SetRegs(c, R2(2, 0, 7, 0))
SYS_sigsetmask(c, h) == SetRegs(c, R2(2, 0, 7, 0))

(* Mutant: the time zone is read after the time has been written.          *)
SYS_gettimeofday_one_by_one(c, h) ==
    LET d == write_opt(Result(read_opt(c, c.r[4]), h), c.r[4], h.v)
    IN  write_opt(read_opt(d, c.r[5]), c.r[5], h.v)

SYS_gettimeofday(c, h) ==
    LET d == Result(read_opt(read_opt(c, c.r[4]), c.r[5]), h)
    IN  write_opt(write_opt(d, d.r[4], h.v), d.r[5], h.v)

SYS_getrusage(c, h) == LET d == Result(c, h) IN mem_write(d, d.r[5], <<h.v>>)

(* An I/O vector entry is two cells, base and length.                      *)
ReadVector(c, a, i) ==
    LET base == c.mem[Cell(a + 2 * i)]
        len  == c.mem[Cell(a + 2 * i + 1)]
    IN  IF base = 0 THEN c ELSE mem_read(c, base, len)

SYS_writev(c, h) ==
    LET d == mem_read(c, c.r[5], 2 * c.r[6])
    IN  Result(FoldLeft(LAMBDA x, i : ReadVector(x, c.r[5], i), d, [k \in 1 .. c.r[6] |-> k - 1]), h)

SYS_utimes(c, h) == Result(read_opt(mem_strcpy(c, c.r[4]), c.r[5]), h)

SYS_rlimit(c, h) ==
    LET d == Result(mem_read(c, c.r[5], 1), h) IN mem_write(d, d.r[5], <<h.v>>)

(* The live half of sys_syscall(): the switch on the call number.          *)
PISA_syscall(code, c, h) ==
    CASE code = "exit"         -> SYS_exit(c, h)
      [] code = "read"         -> SYS_read(c, h)
      [] code = "write"        -> SYS_write(c, h)
      [] code = "open"         -> SYS_open(c, h)
      [] code = "close"        -> SYS_close(c, h)
      [] code = "creat"        -> SYS_creat(c, h)
      [] code = "unlink"       -> SYS_unlink(c, h)
      [] code = "chdir"        -> SYS_chdir(c, h)
      [] code = "chmod"        -> SYS_chmod(c, h)
      [] code = "chown"        -> SYS_chown(c, h)
      [] code = "brk"          -> SYS_brk(c, h)
      [] code = "lseek"        -> SYS_lseek(c, h)
      [] code = "getpid"       -> SYS_getpid(c, h)
      [] code = "getuid"       -> SYS_getuid(c, h)
      [] code = "access"       -> SYS_access(c, h)
      [] code = "stat"         -> SYS_stat(c, h)
      [] code = "dup"          -> SYS_dup(c, h)
      [] code = "pipe"         -> SYS_pipe(c, h)
      [] code = "getgid"       -> SYS_getgid(c, h)
      [] code = "ioctl"        -> SYS_ioctl(c, h)
      [] code = "fstat"        -> SYS_fstat(c, h)
      [] code = "getpagesize"  -> SYS_getpagesize(c, h)
      [] code = "setitimer"    -> SYS_setitimer(c, h)
      [] code = "getdtablesize" -> SYS_getdtablesize(c, h)
      [] code = "dup2"         -> SYS_dup2(c, h)
      [] code = "fcntl"        -> SYS_fcntl(c, h)
      [] code = "select"       -> SYS_select(c, h)
      [] code = "sigvec"       -> SYS_sigvec(c, h)
      [] code = "sigblock"     -> SYS_sigblock(c, h)
      [] code = "sigsetmask"   -> SYS_sigsetmask(c, h)
      [] code = "gettimeofday" -> SYS_gettimeofday(c, h)
      [] code = "getrusage"    -> SYS_getrusage(c, h)
      [] code = "writev"       -> SYS_writev(c, h)
      [] code = "utimes"       -> SYS_utimes(c, h)
      [] code = "rlimit"       -> SYS_rlimit(c, h)
      [] OTHER                 -> Fatal(c, "unimplemented system call")
=============================================================================
