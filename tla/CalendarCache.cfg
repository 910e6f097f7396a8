SPECIFICATION Spec
CONSTANTS
  day = day
  future = future
  None = None
  Threads = {t1, t2}
  Files <- DayFiles
  Views <- DayViews
  FileOf <- SameFile
  Current <- DayCurrent
  Configs <- Budgets
  Doubtful = {future}
  MaxCalls = 4
  MaxWrites = 1
  MaxFaults = 1
INVARIANTS
  EntriesMatchRecency
  AnswersNeverGoBack
PROPERTIES
  CallsComeToRest
CHECK_DEADLOCK FALSE
