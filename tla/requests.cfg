\* Two requests at a time from one address, over six seconds of which two are an hour and three a day.
SPECIFICATION FairSpec
CONSTANTS
  Ip = {x}
  HourlyLimit = 2
  DailyLimit = 3
  Hour = 2
  Day = 3
  MaxClock = 5
  Caller = {a1, a2}
  Hostname = {h1, h2}
  None = None
  MaxFailures = 1
  MaxRestarts = 1
INVARIANTS RequestsTypeOK HourlyLimitKept DailyLimitKept DeniedAfterChain PostMeetsServer ServedRouted RoutedUnlessFailure
PROPERTY EveryRequestAnswered
