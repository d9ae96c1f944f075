SPECIFICATION FairSpec
CONSTANTS
  q1 = q1  q2 = q2  stockBasic = stockBasic  daily = daily
  Queries = {q1, q2}
  Apis = {stockBasic, daily}
  Minute = 5
  GlobalPerMinute = 2
  ApiPerMinute <- MCApiPerMinute
  MaxAttempts = 3
  BaseBackoff = 2
  MaxBackoff = 3
  MaxDuration = 3
  Timeout = 6
  Horizon = 6
INVARIANTS
  TypeOK
  RateHeld
  NoReservationAhead
  AttemptsPaid
  BackoffExact
PROPERTIES
  SendsInTime
  QueryEnds
