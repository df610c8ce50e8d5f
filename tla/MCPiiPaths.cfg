SPECIFICATION Spec
CONSTANTS
  Docs <- MCDocs
  Api <- MCApi
  Texts = {"", "a", "b", "c"}
  Payloads <- MCPayloads
  Deks = {1, 2}
  MaxLayers = 2
INVARIANTS
  LoopInv
  MarkedLeavesEncrypted
  OnlyMarkedLeavesChange
PROPERTIES
  ImplementsFieldStep
