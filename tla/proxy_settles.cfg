SPECIFICATION FairSpec
CONSTANTS
  FailThreshold = 3
  RecoverThreshold = 2
  Overlap = 3
PROPERTIES LeavesAfterStreak PrimaryPreferred SecondaryServes
