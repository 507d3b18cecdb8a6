\* Three jobs on two slots.
CONSTANTS
  Job = {j1, j2, j3}
  Slots = 2
  Chunks = 2
  Modes = {"stream", "parallel"}
SPECIFICATION FairSpec
INVARIANTS
  SlotsAreDownloads
  WholeFileOrError
PROPERTIES
  TransfersReturn
  SlotsComeBack
CHECK_DEADLOCK FALSE
