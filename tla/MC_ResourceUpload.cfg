\* Two files of any type, two VOD nodes with two candidates each.
SPECIFICATION Spec
CONSTANTS
  N = 2
  Names = {frame}
  Kinds = {"image", "video", "audio"}
  MaxNodes = 2
  MaxTries = 2
CHECK_DEADLOCK FALSE
INVARIANTS TypeOK StoresOnlyWhatIsThere CompleteOrError PairedWithOwnPath
PROPERTIES UploadReturns
