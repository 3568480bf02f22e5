SPECIFICATION Spec
CONSTANTS
  Documents <- AllDocuments
  Before <- MCBefore
  After <- MCAfter
INVARIANT ScannerAgrees
INVARIANT NeverPartial
INVARIANT WrappedAccepted
CHECK_DEADLOCK FALSE
