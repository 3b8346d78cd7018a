SPECIFICATION FairSpec
CONSTANTS
  wide = wide  narrow = narrow
  left = left  right = right  lone = lone
  NoSize = NoSize  NoTopology = NoTopology  NoCaps = NoCaps
  Sizes <- MCSizes
  Topologies <- MCTopologies
  Layouts <- TwoLayouts
  Advertisements <- MCAdvertisements
  IdMod = 3
  MaxFrames = 2
  MaxChanges = 1
CHECK_DEADLOCK FALSE
INVARIANTS
  TypeOK
  FrameOnMappedSurface
  SurfacesCoverPublished
  ResetPendingUnlessRaced
  AcksAddUp
  NoFrameOutlivesItsLayout
PROPERTIES
  NothingAfterClosed
  CloseCompletes
  QueueDrains
