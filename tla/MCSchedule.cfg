CONSTANTS
  Months <- MCMonths
  FirstOf <- MCFirstOf
  MonthOf <- MCMonthOf
  Sunday = 5
  Start = {1, 15, 30, 31, 61, 62, 91, 120}
  From = {1, 14, 31, 32, 62, 63, 90, 91, 92, 121, 122}
  To = {13, 31, 59, 62, 90, 91, 92, 121, 122, 123, 152}
SPECIFICATION Spec
INVARIANT AnswersExactly
CHECK_DEADLOCK FALSE
