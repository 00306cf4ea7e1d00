SPECIFICATION Spec
CONSTANTS
  ann = ann
  bob = bob
  cat = cat
  Person = {ann, bob, cat}
  Founder = ann
  Known = {ann, bob}
  Role = {"owner", "manager"}
  Slot = {s1, s2}
  MaxAdd = 1
  s1 = s1
  s2 = s2
SYMMETRY Slots
CHECK_DEADLOCK FALSE
INVARIANTS OwnersRunOutByRace InvitedWereMailed
PROPERTIES AuthorityHolds
