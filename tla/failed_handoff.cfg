SPECIFICATION BridgeSpec
CONSTANTS
  Call = {c1}
INVARIANTS
  FailedHandoffBlocks
