SPECIFICATION SessionFairSpec
CONSTANTS
  s1 = s1
  s2 = s2
  s3 = s3
  NoSession = NoSession
  Session <- MCSession
  Unreadable <- MCUnreadable
  KeepLast = 1
PROPERTIES SweepSparesLive DeleteSparesProtected SweepEnds
