SPECIFICATION Spec
CONSTANTS
  c1 = c1
  c2 = c2
  r1 = r1
  r2 = r2
  s1 = s1
  s2 = s2
  s3 = s3
  Course <- MCCourse
  Run <- MCRun
  Slug <- MCSlug
  NoCourse = NoCourse
  NoSlug = NoSlug
  CourseOf <- MCCourseOf
  RunSlug <- MCRunSlug
  Subdirectory <- MCSubdirectory
  SubdirectoryOn = TRUE
INVARIANTS TypeOK OneActiveSlug ReviewedSlugIsServed RunUrlStays
PROPERTIES KeepsCatalogPromises
CONSTRAINT MCBound
