SPECIFICATION MCSpec
CONSTANTS
  SIZE_T_BITSIZE = 12
  TREEBIN_SHIFT = 2
  NTREEBINS = 6
  Page = 16
  prog_break_begin = 16
  prog_break_end = 112
  TrimThreshold = 20
  Requests = {20, 60, 130, 250, 3000}
  Callocs <- MCCallocs
  Alignments = {3}
  PosixAligns = {8, 24}
  AlignedRequests = {60, 3000}
  Mallopts <- MCMallopts
  Comallocs <- MCComallocs
  Pads = {0}
  Limits = {300}
  MaxLive = 12
INVARIANTS
  CheckMallocState
  BlocksAreChunks
  FootprintAccounts
PROPERTIES
  PlacementPolicy
  HeapIsBlockHeap
CHECK_DEADLOCK FALSE
