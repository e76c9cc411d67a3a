SPECIFICATION Spec
CONSTANT
  Documents <- AllDocuments
INVARIANT TypeOK
INVARIANT PathsFollowed
INVARIANT PrintedInOrder
INVARIANT FontGenerated
CHECK_DEADLOCK FALSE
