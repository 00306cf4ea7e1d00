SPECIFICATION EditorSpec
CONSTANTS
  plain = plain
  bent = bent
  far = far
  Clamp <- ToTheBound
  s1 = s1
  s2 = s2
  Key = {1, 2, 3}
  First = {1, 2}
  Look = {plain, bent, far}
  Fresh = plain
  Slot = {s1, s2}
  HistoryLimit = 1
  MaxEdit = 2
  MaxRequest = 2
SYMMETRY Requests
INVARIANTS EditorTypeOK HistoryKeepsSections ListedAreKnown CleanIsSaved OrderingsApart
