CONSTANTS
  RUU_size = 8
  LSQ_size = 4
  ruu_ifq_size = 2
  ruu_decode_width = 2
  ruu_issue_width = 2
  ruu_commit_width = 2
  fetch_speed = 1
  ruu_branch_penalty = 1
  max_insts = 5
  MAX_RS_LINKS = 24
  Regs = {"r1", "r2"}
  Programs <- MCPrograms
  Configs <- MCConfigs
  fu_config <- MCUnits
  LoadLats = {1, 3}
  TlbLats = {1}
  FetchLats = {3}
SPECIFICATION MCSpec
INVARIANTS NoPanic SpeculationBoundary CreateVectorPrecise NoLostWakeup LoadsWaitForStores LinksConserved
PROPERTIES RetiresProgramPath RunEnds
