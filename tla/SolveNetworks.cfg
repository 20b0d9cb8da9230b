\* One network in every kind of window, and ensembles whose networks fail.
CONSTANTS
  Requests <- MCRequests
  Days <- MCDays
  MonthEnd <- MCMonthEnd
  YearEnd <- MCYearEnd
  LastDate = 9
  Absent = Absent
SPECIFICATION Spec
INVARIANTS
  EveryHourIsReportedOnce
  EveryHourIsCostedOnce
  ReportedHoursKeepTheirOwnWindow
  OptimalMeansSolved
