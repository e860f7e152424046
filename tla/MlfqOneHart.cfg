SPECIFICATION FairSpec
CONSTANTS
  c0 = c0
  c1 = c1
  NPROC = 3
  CPUs <- OneHart
  Boot = c0
  Slice <- ShortSlice
  BoostPeriod = 5
PROPERTIES BoostResetsAll HighestFirst NoStarvation
