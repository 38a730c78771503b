SPECIFICATION ChecksumSpec
CHECK_DEADLOCK FALSE
INVARIANT SumIsRight
