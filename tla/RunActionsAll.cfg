CONSTANTS
  None = None
  Clients = {c1, c2}
  MaxDeaths = 1
  Quota = TRUE
SPECIFICATION FairSpec
INVARIANTS TypeOK OneHandler ReceiptIsTrue SnapshotAgrees ActionInv
PROPERTIES LedgerSpec ReceiptCloses
CHECK_DEADLOCK FALSE
