SPECIFICATION Spec
CONSTANTS
  Images = {img1, img2}
  NoImage = NoImage
INVARIANTS
  TypeOK
  FatFsExclusive
  OpenImageUsed
  AckedMeansParked
PROPERTIES
  PauseReturns
  SectorEnds
  ImplementsDriveBay
