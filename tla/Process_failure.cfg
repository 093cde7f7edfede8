SPECIFICATION PSpec
CONSTANTS
  main = main
  Page = {main, p1, p2, p3}
  NoPage = NoPage
  MaxTid = 4
  ExitStatus = {7}
  BadImage = TRUE
  Killable = FALSE
  OutOfMemory = FALSE
CHECK_DEADLOCK FALSE
PROPERTY ExecReportsFailure
