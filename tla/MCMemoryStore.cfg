CONSTANTS
  Tags = {a, b}
  MaxSaves = 3
  MaxLog = 2
  MaxEntries = 3
  GroupCommitSize = 2
  Configs <- MCConfigs
  Default <- MCDefault
SPECIFICATION Spec
SYMMETRY Symm
INVARIANTS  ReopenFaithful
CHECK_DEADLOCK FALSE
