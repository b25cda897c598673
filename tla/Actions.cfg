SPECIFICATION MCSpec
CONSTANTS
  s1 = s1
  s2 = s2
  s3 = s3
  k1 = k1
  k2 = k2
  Stricker = {s1, s2, s3}
  Key = {k1, k2}
  NoKey = nokey
  Rates = {1, 2}
  MaxElements = 2
  MaxRates = 2
  MaxFaults = 1
  Ttl = 2
  Buffer = {b1, b2}
  MaxAnswers = 3
  MaxResets = 1
  Mixes <- SomeMixes
INVARIANTS ActionsTypeOK ActionPanicCause ReadCause KeysExpire CountsExact
PROPERTIES CallsEnd
CHECK_DEADLOCK FALSE
