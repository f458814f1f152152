SPECIFICATION PartSpec
CONSTANTS
  s1 = s1
  s2 = s2
  s3 = s3
  t1 = t1
  t2 = t2
  Builds = {1, 2, 3}
  Id <- SameIds
  Tasks = {t1, t2}
  Rollbacks = FALSE
  Cached = FALSE
  MaxOccurrences = 4
  Sids = {s1, s2, s3}
  NoSid = NoSid
  Lists <- SomeLists
  Haste = {}
  MaxReports = 3
  MaxActs = 2
INVARIANTS ChoiceStands
PROPERTIES BuildSettlesHere
CHECK_DEADLOCK FALSE
