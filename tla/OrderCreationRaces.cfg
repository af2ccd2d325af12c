CONSTANTS
  r1 = r1
  r2 = r2
  r3 = r3
  r4 = r4
  k1 = k1
  b1 = b1
  b2 = b2
  NoKey = NoKey
  Request = {r1, r2, r3, r4}
  Key = {k1}
  Body = {b1, b2}
  KeyFor <- RaceKeyFor
  BodyOf <- RaceBodyOf
  MaxTries = 3
  Faults = 2
SPECIFICATION FairSpec
INVARIANTS IInv OneOrderPerKey AnswersJustified
PROPERTIES AllAnswered
CHECK_DEADLOCK FALSE
