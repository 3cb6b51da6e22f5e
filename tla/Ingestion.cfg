SPECIFICATION Spec
CONSTANTS
  c1 = c1
  v1 = v1
  v2 = v2
  s1 = s1
  t1 = t1
  Course <- MCCourse
  Variant <- MCVariant
  NoVariant = NoVariant
  Schedule <- MCSchedule
  CourseOf <- MCCourseOf
  ScheduleOf <- MCScheduleOf
  VariantEditable = TRUE
  Task <- MCTask
  MaxRuns = 3
CONSTRAINT MCBound
SYMMETRY MCSymmetry
INVARIANTS
  TypeOK
  DistinctVariants
PROPERTIES
  ReviewsWhatItWrote
  VariantKept
  ArchivesOnlyMissing
  PublishedStays
  KeepsTaskPromises
