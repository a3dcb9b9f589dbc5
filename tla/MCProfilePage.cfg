SPECIFICATION Spec
CONSTANTS
  s1 = s1
  s2 = s2
  k1 = k1
  SveltosClusters = {s1, s2}
  CAPIClusters = {k1}
  Profiles <- MCProfiles
  None = None
  MaxChanges = 2
INVARIANTS
  TypeOK
  AccessRespected
  FewReviews
  SummaryCountsRows
