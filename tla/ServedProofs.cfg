CONSTANTS
  Requests <- MCRequests
  Answers <- MCAnswers
  Nodes <- MCNodes
  Path <- MCPath
  Padded <- MCPadded
  MaxWord <- MCMaxWord
  Entries <- MCEntries
  Sent <- MCSent
  Raw <- MCRaw
  Committed <- MCCommitted
  ServedLogs <- MCServedLogs
  Width = 1
  Limit32 = 3
  NotHex = NotHex
  Provable <- MCProvable
  Forged <- MCForged
  MerkResult <- ExecuteMerkProof
  ByteBase = 2
  MaxValueLen = 6
  maxLayerDepth = 2
SPECIFICATION Spec
CHECK_DEADLOCK FALSE
INVARIANTS
  WalkedIsHeld
  TrueClaimTaken
  RlpReadsBack
  CompleteIsExact
  ProofReadsBack
  LayersRunOnce
