SPECIFICATION FairSpec
CONSTANTS
  SectorSize <- Unit
  DepthLimit = 4
  VolumeLimit = 84
  Images <- MCImages
  Clean <- MCClean
  Shown <- MCShown
  Starts <- MCStarts
 
INVARIANT KnownImageBoots
INVARIANT PartIsNotAnother
PROPERTY WalkEnds
CHECK_DEADLOCK FALSE
