SPECIFICATION FairSpec
CONSTANTS
  tea = tea
  cup = cup
  Discounts = {tea, cup}
  UsageLimit <- SmallLimits
  NoLimit = NoLimit
  Existing = {tea}
  Windows <- SmallWindows
  Far = 3
  Evaluations = {e1}
  Writers = {w1, w2}
  MinTtl = 2
  MaxTtl = 3
  NoList = NoList
INVARIANTS
  TypeOK
  StaleForAReason
  EndedDiscountsLeave
  UsageIsCounted
PROPERTIES
  CacheCatchesUp
