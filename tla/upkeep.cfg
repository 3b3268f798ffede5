CONSTANTS
  Parts = {"schedules", "recurrences", "lots", "log", "numbers"}
  MonthDays <- ThreeYears
  FirstWeekday = 7
  RuleTypes <- AllButNth
  Multipliers = {1, 2}
  RuleStarts <- Edges
  LastRef = 200
  Schedules <- Mixed
  Starts = {2}
  Ends = {0, 4}
  Totals = {0, 3}
  AdvanceCreate = 1
  AdvanceRemind = 1
  Fresh = {TRUE, FALSE}
  LastDay = 4
  MaxSplits = 5
  MaxLots = 3
  MaxTrans = 3
  Dates = {1, 2}
  Amounts <- BuyOrSell
  MaxEdits = 2
  Transactions = {"t1"}
  Saved = {"bank", "food"}
  Opened = {"rent"}
  Contents <- TwoAndTwo
  MaxRecords = 3
  Bits = 6
  Numerators <- AroundTheEnds
  Denominators = {1, 2, 6, 9, 10, 15}
  Targets <- WholeAndReciprocal
SPECIFICATION Spec
CHECK_DEADLOCK FALSE
INVARIANTS
  NextIsEarliest
  EachOnce
  CountersAsOfLastDate
  RemindersLast
  NeverTooMany
  LotsAgree
  NothingLost
  FirstInFirstOut
  ScrubbedCache
  NothingCommittedIsLost
  RecoveredAsItWas
  ExactOrError
  ProductFound
  DecimalsAreExact
  RoundedOnce
