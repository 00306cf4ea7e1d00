SPECIFICATION FairSpec
CONSTANTS
  Guest = {g1, g2}
  Sender = {t1, t2}
  Editor = {e1}
  BatchSize = 2
  MaxDeaths = 1
  g1 = g1
  g2 = g2
  t1 = t1
  t2 = t2
  e1 = e1
INVARIANTS NobodyMailedTwice SentMeansDrained WithdrawalHonoured
PROPERTIES CampaignEnds
