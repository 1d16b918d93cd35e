\* The documented rule that a terminal task is not queried again.
SPECIFICATION Spec
CONSTANTS
  RawProgress = {0, 30, 120}
  MaxImages = 2
  MaxVideos = 1
  NoItem = NoItem
PROPERTIES TerminalIsFinal
