SPECIFICATION LayoutSpec
CONSTANTS
  SegmentSizes = {65536, 69632, 98304}
  Payloads = {0, 1021, 20000}
INVARIANTS RegionsDisjoint FooterAccepted
