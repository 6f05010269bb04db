---------------------------- MODULE TargetMemory ----------------------------
(***************************************************************************)
(* The simulated address space as the system call handlers use it          *)
(* (memory.c): every transfer between host and target goes, one cell at a  *)
(* time, through the accessor the caller passes (mem_access, or the        *)
(* recording accessor of eio.c).  A cell stands for a byte of a buffer or   *)
(* for a whole structure; MemSize cells wrap around like md_addr_t.         *)
(*                                                                         *)
(* A system call is a chain of operators on a call record c:               *)
(*   c.r    the registers          c.mem   the memory                      *)
(*   c.brk  ld_brk_point           c.log   the accesses made, in order     *)
(*   c.out  what the program wrote to stdout and stderr                    *)
(*   c.end  "", or how the call ended the simulation: "exit" or a fatal()  *)
(***************************************************************************)
EXTENDS Integers, Sequences, FiniteSets

CONSTANT MemSize

Addr == 0 .. MemSize - 1

Cell(a) == a % MemSize

Access(cmd, a, v) == [cmd |-> cmd, addr |-> Cell(a), val |-> v]

Repeat(v, n) == [k \in 1 .. n |-> v]

(* The last of the n cells written from a on that falls on cell x.         *)
LastOn(x, a, n) ==
    LET K == {k \in 1 .. n : Cell(a + k - 1) = x}
    IN  IF K = {} THEN 0 ELSE CHOOSE k \in K : \A j \in K : j <= k

(* mem_bcopy(..., Read, a, buf, n); a negative count copies nothing.       *)
mem_read(c, a, n) ==
    [c EXCEPT !.log = @ \o [k \in 1 .. n |-> Access("Read", a + k - 1, c.mem[Cell(a + k - 1)])]]

(* mem_bcopy(..., Write, a, buf, Len(d)).                                  *)
mem_write(c, a, d) ==
    [c EXCEPT !.mem = [x \in Addr |-> LET k == LastOn(x, a, Len(d)) IN IF k = 0 THEN @[x] ELSE d[k]],
              !.log = @ \o [k \in 1 .. Len(d) |-> Access("Write", a + k - 1, d[k])]]

(* mem_strcpy(..., Read, a, buf): up to and including the first 0.         *)
mem_strcpy(c, a) ==
    LET Ends == {k \in 1 .. MemSize : c.mem[Cell(a + k - 1)] = 0}
    IN  mem_read(c, a, IF Ends = {} THEN MemSize ELSE CHOOSE k \in Ends : \A j \in Ends : k <= j)

(* One cell read or written when the pointer is not NULL.                  *)
read_opt(c, a)     == IF a = 0 THEN c ELSE mem_read(c, a, 1)
write_opt(c, a, v) == IF a = 0 THEN c ELSE mem_write(c, a, <<v>>)

Fatal(c, why) == [c EXCEPT !.end = why]
=============================================================================
