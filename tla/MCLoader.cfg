SPECIFICATION Spec
CONSTANTS
  Dotted <- MCDotted
  Images <- MCImages
  EntSize = 2
  Page = 4
INVARIANTS
  RightUnlessCut
  OutsideNeedsPage
PROPERTIES
  LoadsAsListed
