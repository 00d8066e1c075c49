SPECIFICATION FairSpec
CONSTANTS
  Images = {a, b}
  None = None
  Foreign = Foreign
  MayLose = TRUE
  MayRefuse = TRUE
  MaxJobs = 2
INVARIANTS Knows StopEjects MountedImageServed ArmedMeansMounted
PROPERTIES StopReturns JobQueueSpec
