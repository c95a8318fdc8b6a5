SPECIFICATION Spec
CONSTANTS
  Utf8 <- MCUtf8
  Txs <- MCTxs
  Numbers <- MCNumbers
  Blobs <- MCBlobs
  RegistrationMeans <- ChainMeans
  Jsons <- MCJsons
  SchemaOf <- MCSchemaOf
  MaxId = 3
  MaxDid = 6
INVARIANTS OnlyWhatWasSigned SignedIsTaken RegistrationReadsBack
CHECK_DEADLOCK FALSE
