CONSTANTS
  image = image
  upscale = upscale
  s1 = s1
  s2 = s2
  Request = {image, upscale}
  Upscale = {upscale}
  Sender = {s1, s2}
  Amount = {0, 4}
  Budget = 5
  MaxMonth = 2
  MaxFaults = 2
SPECIFICATION FairSpec
INVARIANTS TotalIsExact NamedIsShown AlertOnce
PROPERTIES AlertComes
CHECK_DEADLOCK FALSE
