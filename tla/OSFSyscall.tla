----------------------------- MODULE OSFSyscall -----------------------------
(***************************************************************************)
(* The Alpha (OSF/1) system call proxy, sys_syscall() of                   *)
(* target-alpha/syscall.c.  The conventions are those of Syscall: a         *)
(* handler maps the call record and the host's answer to the call record   *)
(* afterwards.  The call number and the result are in V0, arguments in      *)
(* A0..A5, the error flag (0 or -1) in A3, a second result in A4.           *)
(* c.sigmask and c.sigaction are the module's static variables.            *)
(***************************************************************************)
EXTENDS TargetMemory
LOCAL INSTANCE SequencesExt
LOCAL INSTANCE Bitwise

CONSTANTS PageSize, KnownFlags

V0 == 0
A0 == 16
A1 == 17
A2 == 18
A3 == 19
A4 == 20
A5 == 21
SP == 30

AlphaRegs  == {V0, A0, A1, A2, A3, A4, A5, SP}
AlphaInOut == 0 .. 21
AlphaCodes ==
   {"exit", "read", "write", "getdomainname", "flock", "bind", "sendto", "recvfrom", "open",
    "close", "unlink", "chdir", "chmod", "chown", "sbrk", "obreak", "lseek", "getpid", "getuid",
    "access", "stat", "dup", "getgid", "ioctl", "fstat", "getpagesize", "setitimer", "table",
    "getdtablesize", "dup2", "fcntl", "gettimeofday", "getrusage", "utimes", "rlimit",
    "sigprocmask", "sigaction", "sigstack", "uswitch", "setsysinfo", "getdirentries",
    "truncate", "ftruncate", "statfs", "setregid", "setreuid", "socket", "connect", "uname",
    "writev", "readv", "setsockopt", "getsockname", "getpeername", "setgid", "setuid",
    "getpriority", "setpriority", "select", "shutdown", "poll", "usleep_thread", "gethostname",
    "madvise", "bogus"}

EPERM        == 1
EINVAL       == 2
TIOCGETP     == 3
FIONREAD     == 2
FIONBIO      == 1
SIG_BLOCK    == 1
SIG_UNBLOCK  == 2
SIG_SETMASK  == 3
TBL_SYSINFO  == 1
SockaddrSize == 2

Clip(n, hi) == IF n > hi THEN hi ELSE n

Set(c, i, x)          == [c EXCEPT !.r[i] = x]
Set2(c, i, x, j, y)   == Set(Set(c, i, x), j, y)

(* The result protocol that ends almost every handler.                     *)
Result(c, h) ==
    IF h.res # -1 THEN Set2(c, V0, h.res, A3, 0) ELSE Set2(c, V0, h.errno, A3, -1)

Path(c) == mem_strcpy(c, c.r[A0])

OSF_exit(c, h) == Fatal(c, "exit")

(* The whole buffer is copied back, whatever was read.                     *)
OSF_read(c, h) ==
    LET n == c.r[A2]
        m == Clip(h.res, n)
    IN  mem_write(Result(c, [h EXCEPT !.res = m]), c.r[A1],
                  [k \in 1 .. n |-> IF k <= m THEN h.v ELSE 0])

IsOutput(c) == c.r[A0] \in {1, 2}

OSF_write(c, h) ==
    LET d == mem_read(c, c.r[A1], c.r[A2])
        n == Clip(h.res, c.r[A2])
        s == [k \in 1 .. n |-> c.mem[Cell(c.r[A1] + k - 1)]]
        e == IF IsOutput(c) THEN [d EXCEPT !.out = @ \o s] ELSE d
    IN  IF n = c.r[A2] THEN Set2(e, V0, n, A3, 0) ELSE Set2(e, V0, h.errno, A3, -1)

OSF_getdomainname(c, h) == mem_write(Result(c, h), c.r[A0], Repeat(h.v, c.r[A1]))

OSF_flock(c, h) == Result(c, h)
OSF_bind(c, h)  == Result(mem_read(c, c.r[A1], c.r[A2]), h)

(* The sent data and the address are copied back unchanged.                *)
OSF_sendto(c, h) ==
    LET buf  == [k \in 1 .. c.r[A2] |-> c.mem[Cell(c.r[A1] + k - 1)]]
        sock == [k \in 1 .. c.r[A5] |-> c.mem[Cell(c.r[A4] + k - 1)]]
        d    == mem_read(mem_read(c, c.r[A1], c.r[A2]), c.r[A4], c.r[A5])
    IN  Result(mem_write(mem_write(d, c.r[A1], buf), c.r[A4], sock), h)

(* The length cell at A5 gives the size of the address copied each way;    *)
(* the host may change it, even to more than the caller's buffer holds.     *)
OSF_recvfrom(c, h) ==
    LET len == c.mem[Cell(c.r[A5])]
        m   == Clip(h.res, c.r[A2])
        d   == mem_read(mem_read(mem_read(c, c.r[A1], c.r[A2]), c.r[A5], 1), c.r[A4], len)
        new == IF h.res = -1 THEN len ELSE h.v
        e   == mem_write(d, c.r[A1], Repeat(h.v, m))
        f   == mem_write(e, c.r[A5], <<new>>)
    IN  Result(mem_write(f, c.r[A4], Repeat(h.v, new)), [h EXCEPT !.res = m])

OSF_open(c, h) ==
    IF c.r[A1] \in KnownFlags THEN Result(Path(c), h) ELSE Fatal(c, "cannot decode flags")

OSF_close(c, h) == IF c.r[A0] \in 0 .. 2 THEN Set(c, A3, 0) ELSE Result(c, h)

OSF_unlink(c, h) == Result(Path(c), h)
OSF_chdir(c, h)  == Result(Path(c), h)
OSF_chmod(c, h)  == Result(Path(c), h)
OSF_chown(c, h)  == Result(Path(c), h)

(* Neither break call checks the new break against the stack or the heap.  *)
OSF_sbrk(c, h)   == LET b == Cell(c.brk + c.r[A0]) IN [Set2(c, V0, b, A3, 0) EXCEPT !.brk = b]
OSF_obreak(c, h) == [Set2(c, V0, c.r[A0], A3, 0) EXCEPT !.brk = c.r[A0]]

OSF_lseek(c, h)  == Result(c, h)
OSF_getpid(c, h) == Result(c, h)
OSF_getuid(c, h) == Result(Set(c, A4, h.v), h)
OSF_access(c, h) == Result(Path(c), h)
OSF_stat(c, h)   == mem_write(Result(Path(c), h), c.r[A1], <<h.v>>)
OSF_dup(c, h)    == Result(c, h)
OSF_getgid(c, h) == Result(Set(c, A4, h.v), h)

OSF_ioctl(c, h) ==
    CASE c.r[A1] \in {TIOCGETP, FIONREAD} -> Result(mem_write(c, c.r[A2], <<h.v>>), h)
      [] c.r[A1] = FIONBIO -> Result(write_opt(read_opt(c, c.r[A2]), c.r[A2], h.v), h)
      [] OTHER -> Set(c, A3, 0)

OSF_fstat(c, h)       == mem_write(Result(c, h), c.r[A1], <<h.v>>)
OSF_getpagesize(c, h) == Set2(c, V0, PageSize, A3, 0)
OSF_setitimer(c, h)   == Set(c, A3, 0)

(* The success path leaves V0 as the call number.                          *)
OSF_table(c, h) ==
    CASE c.r[A1] # TBL_SYSINFO -> Set(c, A3, 0)
      [] c.r[A1] = TBL_SYSINFO /\ c.r[A2] # 0 -> Fatal(c, "TBL_SYSINFO requires 0 index")
      [] c.r[A1] = TBL_SYSINFO /\ c.r[A2] = 0 /\ c.r[A4] # 1 -> Fatal(c, "TBL_SYSINFO requires 1 elts")
      [] OTHER -> IF h.res = -1 THEN Result(c, h) ELSE Set(mem_write(c, c.r[A3], <<h.v>>), A3, 0)

OSF_getdtablesize(c, h) == Result(c, [h EXCEPT !.res = IF @ = -1 THEN -1 ELSE h.v])
OSF_dup2(c, h)          == Result(c, h)
OSF_fcntl(c, h)         == Result(c, h)

OSF_gettimeofday(c, h) ==
    LET d == Result(read_opt(read_opt(c, c.r[A0]), c.r[A1]), h)
    IN  write_opt(write_opt(d, c.r[A0], h.v), c.r[A1], h.v)

OSF_getrusage(c, h) == mem_write(Result(c, h), c.r[A1], <<h.v>>)
OSF_utimes(c, h)    == Result(read_opt(Path(c), c.r[A1]), h)
OSF_rlimit(c, h)    == mem_write(Result(mem_read(c, c.r[A1], 1), h), c.r[A1], <<h.v>>)

(* The mask lives in the simulator, not in the simulated process.          *)
OSF_sigprocmask(c, h) ==
    LET d   == Set2(c, V0, c.sigmask, A3, 0)
        arg == c.r[A1]
    IN  CASE c.r[A0] = SIG_BLOCK   -> [d EXCEPT !.sigmask = @ | arg]
          [] c.r[A0] = SIG_UNBLOCK -> [d EXCEPT !.sigmask = @ - (@ & arg)]
          [] c.r[A0] = SIG_SETMASK -> [d EXCEPT !.sigmask = arg]
          [] OTHER                 -> Set2(c, V0, EINVAL, A3, 1)

OSF_sigaction(c, h) ==
    LET n == c.r[A0]
        d == IF c.r[A1] # 0 THEN [c EXCEPT !.sigaction[n] = c.r[A1]] ELSE c
        e == IF c.r[A2] # 0 THEN Set(d, A2, d.sigaction[n]) ELSE d
    IN  Set2(e, V0, 0, A3, 0)

OSF_sigstack(c, h) == Set(c, A3, 0)

(* A signal context is the mask followed by the saved registers.           *)
ContextCell(i) == 1 + Cardinality({j \in AlphaRegs : j < i})

LoadContext(c, a) == [c EXCEPT !.r = [i \in AlphaRegs |-> c.mem[Cell(a + ContextCell(i))]]]

OSF_sigreturn(c, h) ==
    LET d == mem_read(c, c.r[A0], 1 + Cardinality(AlphaRegs))
    IN  [LoadContext(d, c.r[A0]) EXCEPT !.sigmask = c.mem[Cell(c.r[A0])]]

(* These three report no error: A3 keeps the fourth argument.              *)
OSF_uswitch(c, h)    == Set(c, V0, c.r[A1])
OSF_setsysinfo(c, h) == Set(c, V0, 0)
OSF_madvise(c, h)    == Set(c, V0, 0)

(* The translated entries are written first, the base pointer last.        *)
OSF_getdirentries(c, h) ==
    LET n == Clip(h.res, c.r[A2])
    IN  IF n <= 0 THEN Result(c, [h EXCEPT !.res = n])
        ELSE Result(write_opt(mem_write(c, c.r[A1], Repeat(h.v, n)), c.r[A3], h.v),
                    [h EXCEPT !.res = n])

OSF_truncate(c, h)  == Result(Path(c), h)
OSF_ftruncate(c, h) == Result(c, h)
OSF_statfs(c, h)    == mem_write(Result(Path(c), h), c.r[A1], <<h.v>>)
OSF_setregid(c, h)  == Result(c, h)
OSF_setreuid(c, h)  == Result(c, h)
OSF_socket(c, h)    == Result(c, h)

OSF_connect(c, h) ==
    IF c.r[A2] > SockaddrSize THEN Fatal(c, "sockaddr size overflow")
                              ELSE Result(mem_read(c, c.r[A1], c.r[A2]), h)

OSF_uname(c, h) == Set2(c, V0, EPERM, A3, -1)

(* An I/O vector entry is two cells, base and length.                      *)
Base(c, i) == c.mem[Cell(c.r[A1] + 2 * i)]
Length(c, i) == c.mem[Cell(c.r[A1] + 2 * i + 1)]
Entries(c) == [k \in 1 .. c.r[A2] |-> k - 1]

OSF_writev(c, h) ==
    LET Take(x, i) == LET y == mem_read(x, c.r[A1] + 2 * i, 2)
                      IN  IF Base(c, i) # 0 /\ Length(c, i) # 0
                            THEN mem_read(y, Base(c, i), Length(c, i)) ELSE y
    IN  Result(FoldLeft(Take, c, Entries(c)), h)

OSF_readv(c, h) ==
    LET Get(x, i) == mem_read(x, c.r[A1] + 2 * i, 2)
        Put(x, i) == IF Base(c, i) = 0 THEN x
                     ELSE mem_write(x, Base(c, i), Repeat(h.v, Length(c, i)))
    IN  Result(FoldLeft(Put, FoldLeft(Get, c, Entries(c)), Entries(c)), h)

OSF_setsockopt(c, h) ==
    Result(IF c.r[A3] # 0 /\ c.r[A4] # 0 THEN mem_read(c, c.r[A3], c.r[A4]) ELSE c, h)

(* The copy back is as long as the host says the name is.                  *)
SocketName(c, h) ==
    LET len == c.mem[Cell(c.r[A2])]
        new == IF h.res = -1 THEN len ELSE h.v
        d   == Result(mem_read(c, c.r[A2], 1), h)
    IN  mem_write(mem_write(d, c.r[A1], Repeat(h.v, new)), c.r[A2], <<new>>)

OSF_getsockname(c, h) == SocketName(c, h)
OSF_getpeername(c, h) == SocketName(c, h)

OSF_setgid(c, h)      == Result(c, h)
OSF_setuid(c, h)      == Result(c, h)
OSF_getpriority(c, h) == Result(c, h)
OSF_setpriority(c, h) == Result(c, h)

(* As in the PISA proxy, the exception set's pointer (A3) has become the   *)
(* error flag before the sets are copied back.                             *)
OSF_select(c, h) ==
    LET d == read_opt(read_opt(read_opt(read_opt(c, c.r[A1]), c.r[A2]), c.r[A3]), c.r[A4])
        e == Result(d, h)
    IN  write_opt(write_opt(write_opt(write_opt(e, e.r[A1], h.v), e.r[A2], h.v), e.r[A3], h.v),
                  e.r[A4], h.v)

OSF_shutdown(c, h) == Result(c, h)

OSF_poll(c, h) ==
    LET d == Result(mem_read(c, c.r[A0], c.r[A1]), h)
    IN  mem_write(d, c.r[A0], Repeat(h.v, c.r[A1]))

OSF_usleep_thread(c, h) == Set2(c, V0, 0, A3, 0)
OSF_gethostname(c, h)   == mem_write(Result(c, h), c.r[A0], Repeat(h.v, c.r[A1]))
OSF_default(c, h)       == Set2(c, V0, 0, A3, -1)

(* The live half of sys_syscall(): the switch on the call number.          *)
Alpha_syscall(code, c, h) ==
    CASE code = "exit"            -> OSF_exit(c, h)
      [] code = "read"            -> OSF_read(c, h)
      [] code = "write"           -> OSF_write(c, h)
      [] code = "getdomainname"   -> OSF_getdomainname(c, h)
      [] code = "flock"           -> OSF_flock(c, h)
      [] code = "bind"            -> OSF_bind(c, h)
      [] code = "sendto"          -> OSF_sendto(c, h)
      [] code = "recvfrom"        -> OSF_recvfrom(c, h)
      [] code = "open"            -> OSF_open(c, h)
      [] code = "close"           -> OSF_close(c, h)
      [] code = "unlink"          -> OSF_unlink(c, h)
      [] code = "chdir"           -> OSF_chdir(c, h)
      [] code = "chmod"           -> OSF_chmod(c, h)
      [] code = "chown"           -> OSF_chown(c, h)
      [] code = "sbrk"            -> OSF_sbrk(c, h)
      [] code = "obreak"          -> OSF_obreak(c, h)
      [] code = "lseek"           -> OSF_lseek(c, h)
      [] code = "getpid"          -> OSF_getpid(c, h)
      [] code = "getuid"          -> OSF_getuid(c, h)
      [] code = "access"          -> OSF_access(c, h)
      [] code = "stat"            -> OSF_stat(c, h)
      [] code = "dup"             -> OSF_dup(c, h)
      [] code = "getgid"          -> OSF_getgid(c, h)
      [] code = "ioctl"           -> OSF_ioctl(c, h)
      [] code = "fstat"           -> OSF_fstat(c, h)
      [] code = "getpagesize"     -> OSF_getpagesize(c, h)
      [] code = "setitimer"       -> OSF_setitimer(c, h)
      [] code = "table"           -> OSF_table(c, h)
      [] code = "getdtablesize"   -> OSF_getdtablesize(c, h)
      [] code = "dup2"            -> OSF_dup2(c, h)
      [] code = "fcntl"           -> OSF_fcntl(c, h)
      [] code = "gettimeofday"    -> OSF_gettimeofday(c, h)
      [] code = "getrusage"       -> OSF_getrusage(c, h)
      [] code = "utimes"          -> OSF_utimes(c, h)
      [] code = "rlimit"          -> OSF_rlimit(c, h)
      [] code = "sigprocmask"     -> OSF_sigprocmask(c, h)
      [] code = "sigaction"       -> OSF_sigaction(c, h)
      [] code = "sigstack"        -> OSF_sigstack(c, h)
      [] code = "uswitch"         -> OSF_uswitch(c, h)
      [] code = "setsysinfo"      -> OSF_setsysinfo(c, h)
      [] code = "getdirentries"   -> OSF_getdirentries(c, h)
      [] code = "truncate"        -> OSF_truncate(c, h)
      [] code = "ftruncate"       -> OSF_ftruncate(c, h)
      [] code = "statfs"          -> OSF_statfs(c, h)
      [] code = "setregid"        -> OSF_setregid(c, h)
      [] code = "setreuid"        -> OSF_setreuid(c, h)
      [] code = "socket"          -> OSF_socket(c, h)
      [] code = "connect"         -> OSF_connect(c, h)
      [] code = "uname"           -> OSF_uname(c, h)
      [] code = "writev"          -> OSF_writev(c, h)
      [] code = "readv"           -> OSF_readv(c, h)
      [] code = "setsockopt"      -> OSF_setsockopt(c, h)
      [] code = "getsockname"     -> OSF_getsockname(c, h)
      [] code = "getpeername"     -> OSF_getpeername(c, h)
      [] code = "setgid"          -> OSF_setgid(c, h)
      [] code = "setuid"          -> OSF_setuid(c, h)
      [] code = "getpriority"     -> OSF_getpriority(c, h)
      [] code = "setpriority"     -> OSF_setpriority(c, h)
      [] code = "select"          -> OSF_select(c, h)
      [] code = "shutdown"        -> OSF_shutdown(c, h)
      [] code = "poll"            -> OSF_poll(c, h)
      [] code = "usleep_thread"   -> OSF_usleep_thread(c, h)
      [] code = "gethostname"     -> OSF_gethostname(c, h)
      [] code = "madvise"         -> OSF_madvise(c, h)
      [] code = "sigreturn"       -> OSF_sigreturn(c, h)
      [] OTHER                    -> OSF_default(c, h)
=============================================================================
