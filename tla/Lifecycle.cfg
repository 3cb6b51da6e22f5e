SPECIFICATION Spec
CONSTANTS
  r1 = r1
  r2 = r2
  Run = {r1, r2}
  Marketable = {r1}
  Broken = {}
  HasMarketingSite = TRUE
  MaxVersion = 2
  MaxCourseVersion = 2
INVARIANTS TypeOK PostReviewAgree OfficialFollowsDraft
   EverPublishedWasReviewed
PROPERTIES QuietPublishAfterReview KeepsOneMarketable
CONSTRAINT MCBound
