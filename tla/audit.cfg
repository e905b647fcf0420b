SPECIFICATION Spec
CONSTANTS
  p1 = p1
  Processes <- OneProcess
  WriteFaults = {"nothing", "torn", "unsynced"}
  MaxLines = 4
  MaxTampers = 1
INVARIANTS TypeOK ChainVerifies NumberedInOrder TamperingShows AcknowledgedIsLogged
