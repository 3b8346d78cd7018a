SPECIFICATION FairSpec
CONSTANTS
  NoKey = NoKey
  Keysyms = {"lower", "upper"}
  Modes = {"portal", "workspace", "virtual"}
  Video = "video"
  Requesters = {"video", "other"}
  Pdus <- MCPdus
  Modifiers = {"ctrl", "shift"}
  Keymap <- MCKeymap
  MaxQueue = 2
CHECK_DEADLOCK FALSE
INVARIANTS
  SessionInv
  NothingStuck
  EndsClean
  WheelAsSigned
PROPERTIES
  Refines
  StartupEnds
  EndIsNoticed
