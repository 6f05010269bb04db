--------------------------- MODULE MCSimOutOrder ---------------------------
(***************************************************************************)
(* Instances of the out-of-order core for TLC, with a history variable for *)
(* the address the program goes on at after the last retired instruction.  *)
(***************************************************************************)
EXTENDS SimOutOrder

VARIABLE arch_PC

MCvars == <<vars, arch_PC>>

MCInit == Init /\ arch_PC = 1

MCNext ==
  /\ Next
  /\ arch_PC' = IF Commit THEN HeadRS("RUU").next_PC ELSE arch_PC

MCSpec == MCInit /\ [][MCNext]_MCvars /\ WF_vars(Next)

\* The first instruction at or after pc that is not a NOP: NOPs are dropped at
\* dispatch and never retire.
SkipNops(pc) ==
  CHOOSE p \in pc..Bogus :
    /\ InstAt(p).op # "nop" \/ p = Bogus
    /\ \A k \in pc..(p - 1) : InstAt(k).op = "nop"

\* Only instructions of the correct path retire, in program order and without
\* a gap, whatever was executed down mispredicted paths.
RetiresProgramPath ==
  [][Commit => /\ HeadRS("RUU").PC = SkipNops(arch_PC)
               /\ ~HeadRS("RUU").spec_mode]_MCvars

-----------------------------------------------------------------------------
Inst(op, out, in, addr, target) ==
  [op |-> op, out |-> out, in |-> in, addr |-> addr, target |-> target]

\* A store whose data comes late, a second store that may hide it, a load from
\* the same address, a branch on the loaded value, and a jump back.
StoreLoadBranch ==
  <<Inst("mult", <<"r1", NA>>, <<"r1", NA, NA>>, 0, 0),
    Inst("store", <<NA, NA>>, <<"r1", "r2", NA>>, 4, 0),
    Inst("store", <<NA, NA>>, <<"r2", NA, NA>>, 4, 0),
    Inst("load", <<"r2", NA>>, <<NA, "r2", NA>>, 4, 0),
    Inst("branch", <<NA, NA>>, <<"r2", NA, NA>>, 0, 1),
    Inst("jump", <<NA, NA>>, <<NA, NA, NA>>, 0, 2)>>

\* An indirect jump that writes a register, system calls and NOPs.
CallsAndTraps ==
  <<Inst("jr", <<"r1", NA>>, <<"r2", NA, NA>>, 0, 3),
    Inst("trap", <<NA, NA>>, <<NA, NA, NA>>, 0, 0),
    NOP,
    Inst("alu", <<"r2", "r1">>, <<"r1", "r2", NA>>, 0, 0),
    Inst("load", <<"r2", NA>>, <<NA, "r1", NA>>, 4, 0),
    Inst("branch", <<NA, NA>>, <<"r2", NA, NA>>, 0, 1)>>

\* A loop around a store whose data comes late and a load from its address.
LateData ==
  <<Inst("mult", <<"r1", NA>>, <<"r1", NA, NA>>, 0, 0),
    Inst("store", <<NA, NA>>, <<"r1", "r2", NA>>, 4, 0),
    Inst("load", <<"r2", NA>>, <<NA, NA, NA>>, 4, 0),
    Inst("branch", <<NA, NA>>, <<"r2", NA, NA>>, 0, 1)>>

MCPrograms == {StoreLoadBranch, LateData, CallsAndTraps}

Flags(inorder, include_spec, bugcompat, perfect) ==
  [inorder_issue |-> inorder, include_spec |-> include_spec,
   bugcompat |-> bugcompat, pred_perfect |-> perfect]

MCConfigs == {Flags(FALSE, TRUE, FALSE, FALSE),
              Flags(TRUE, TRUE, FALSE, FALSE),
              Flags(FALSE, FALSE, TRUE, FALSE),
              Flags(FALSE, TRUE, FALSE, TRUE)}

Unit(x) == [quantity |-> 1, x |-> x]
Lat(oplat, issuelat) == [oplat |-> oplat, issuelat |-> issuelat]

MCUnits ==
  <<Unit([IntALU |-> Lat(1, 1)]),
    Unit([IntMULT |-> Lat(3, 1)]),
    Unit([RdPort |-> Lat(1, 1), WrPort |-> Lat(1, 1)])>>

=============================================================================
