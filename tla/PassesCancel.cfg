SPECIFICATION Spec
CONSTANTS
  flex = flex
  season = season
  e1 = e1
  FlexPass = {flex}
  SeasonPass = {season}
  Event = {e1}
  Covers <- FlexAndSeason
  Clerk = {k1, k2}
  Credits = 2
  MaxQty = 1
  MaxOrder = 2
  k1 = k1
  k2 = k2
SYMMETRY Clerks
CHECK_DEADLOCK FALSE
INVARIANTS AdmissionsAreUsed SeasonOncePerEvent
PROPERTIES OnlyOverlapsLoseCredits RevivedByOldReads
