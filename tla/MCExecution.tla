---------------------------- MODULE MCExecution ----------------------------
(***************************************************************************)
(* EIO for TLC: programs of three instructions whose first is any system   *)
(* call of the target, recorded, replayed, checkpointed, restored and      *)
(* recorded again.                                                         *)
(***************************************************************************)
EXTENDS EIO

Rest == <<{"store", "write"}, {"gettimeofday", "exit"}>>

AnyCall ==
    [t \in {"pisa", "alpha"} |->
        <<IF t = "pisa" THEN P!PISACodes ELSE A!AlphaCodes>> \o Rest]

(* A second system call, then a return from a signal handler.              *)
SignalReturn == [t \in {"pisa", "alpha"} |-> <<{"store"}, {"sigreturn"}, {"store"}>>]

(* A write() between a store and the end of the program.                   *)
OneWrite == [t \in {"pisa", "alpha"} |-> <<{"store"}, {"write"}, {"exit"}>>]

TwoVectors == {<<1, 2, 2, 1, 1, 3>>, <<3, 1, 0, 0, 1, 2>>}

OneVector == {<<1, 2, 2, 1, 1, 3>>}

Host(n, e, v) == [res |-> n, errno |-> e, v |-> v]

GoodAndBad == {Host(-1, 2, 1), Host(2, 1, 3)}

Cmd(e, t, k, d, p, f) ==
    [NoOptions EXCEPT !.eio = e, !.trace = t, !.chkpt = k, !.dump = d, !.perdump = p, !.ff = f]

Sessions ==
    <<{Cmd("none", "foo", 0, -1, FALSE, 0), Cmd("none", "foo", 0, -1, FALSE, 1)},
      {Cmd("foo", "none", 0, 0, FALSE, 0), Cmd("foo", "none", 0, 2, FALSE, 0),
       Cmd("foo", "bar", 0, -1, TRUE, 0), Cmd("foo", "none", 0, -1, FALSE, 1)},
      {Cmd("foo", "none", 1, -1, FALSE, 0), Cmd("bar", "none", 0, -1, FALSE, 0),
       Cmd("foo", "bar", 1, -1, FALSE, 0)}>>

ReplayOnce == <<{Cmd("none", "foo", 0, -1, FALSE, 0)}, {Cmd("foo", "none", 0, -1, FALSE, 0)}>>
=============================================================================
