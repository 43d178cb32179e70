SPECIFICATION Spec
CONSTANTS
  Capacity = 3
  SegmentCount = 2
  small = small
  full = full
  oversize = oversize
  Images = {small, full, oversize}
  ImageSize <- MCImageSize
  NoImage = NoImage
  MaxErrors = 3
  MaxBoot = 5
INVARIANTS TypeOK FingerprintBacked
PROPERTIES BootEventAppended ImageStored NotStoredAgain
\* After MaxBoot boots the power stays off.
CHECK_DEADLOCK FALSE
