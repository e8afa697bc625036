SPECIFICATION Spec
CONSTANT MaxKeys = 3
INVARIANT RotatedKeyIsFetched
