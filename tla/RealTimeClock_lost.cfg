SPECIFICATION Spec
CONSTANTS
  Months = {0, 1}
  Days = {1, 2}
  NotDates = {}
  UseSet = {TRUE}
INVARIANT GuestWriteWins
