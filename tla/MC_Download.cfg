SPECIFICATION Spec
CONSTANTS
  NoUrl = NoUrl
  Procs = {p1, p2}
  SizeOf <- McSizeOf
  MaxReruns = 1
  Urls <- McUrls
  TraitsOf <- McTraitsOf
  PathExt <- McPathExt
  MimeExt <- McMimeExt
  Answers <- McAnswers
CHECK_DEADLOCK FALSE
INVARIANTS FilesEndWhole ReportIsComplete ShownIsDownloaded
