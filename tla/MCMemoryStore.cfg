CONSTANTS
  Event = {e1, e2}
  Bad = Bad
  None = None
  TearKinds <- Inside
  MaxCreates = 3
  MaxCrashes = 2
  MaxRotations = 2
SPECIFICATION FairSpec
CHECK_DEADLOCK FALSE
INVARIANTS Durable ExactlyOnce ReadIsWhole RotationConverges
PROPERTIES EventuallyShared
