CONSTANTS
  Chunks = {c1, c2}
  Hashes = {h1, h2}
  Versions <- MCVersions
  MaxRecords = 3
  None = None
SPECIFICATION WalSpec
INVARIANTS TypeOK AppendIsFree
PROPERTIES CommitSweeps 
