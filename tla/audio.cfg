SPECIFICATION AudioSpec
CONSTANTS
  Pcm = pcm
  ima = ima
  Others <- MCOthers
  MaxFormats = 2
  Sizes = {0, 3, 4, 10}
CHECK_DEADLOCK FALSE
INVARIANTS
  AudioTypeOK
  EmbedderWillKnow
  SamplesNeedFormat
