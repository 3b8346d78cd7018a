SPECIFICATION Spec
CONSTANTS
  wide = wide  narrow = narrow
  left = left  right = right  lone = lone
  NoSize = NoSize  NoTopology = NoTopology  NoCaps = NoCaps
  Sizes <- MCSizes
  Topologies <- MCTopologies
  Layouts <- SwapLayouts
  Advertisements <- GoodAdvertisements
  IdMod = 4
  MaxFrames = 2
  MaxChanges = 1
CHECK_DEADLOCK FALSE
INVARIANT NextFrameRestarts
