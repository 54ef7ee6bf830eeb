SPECIFICATION TaskPolicy
CONSTANTS
  None = None  Nothing = Nothing  Torn = Torn  Missing = Missing  Absent = Absent
  fileA = fileA  fileB = fileB  slug = slug
  s1 = s1  s2 = s2  s3 = s3  s4 = s4
INVARIANT PassHasNoNewFinding
CHECK_DEADLOCK FALSE
