SPECIFICATION Spec
CONSTANTS
  Documents <- AllDocuments
  Before <- MCBefore
  After <- MCAfter
INVARIANT TruncatedRejected
CHECK_DEADLOCK FALSE
