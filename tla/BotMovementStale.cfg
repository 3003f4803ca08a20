\* One relocation, with a path being computed when it arrives.
SPECIFICATION MovementSpec
CONSTANTS
  north = north
  south = south
  none = none
  Headings = {north, south}
  NoHeading = none
  MaxRelocations = 1
SYMMETRY Symmetry
INVARIANT RelocationIsFinal
