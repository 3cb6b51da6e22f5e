SPECIFICATION FairSpec
CONSTANTS
  r1 = r1
  r2 = r2
  Run = {r1, r2}
  Marketable = {r1, r2}
  Broken = {r1}
  HasMarketingSite = TRUE
  MaxVersion = 2
  MaxCourseVersion = 1
PROPERTY DueRunsGoLive
