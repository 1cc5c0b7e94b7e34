SPECIFICATION Spec
CONSTANTS
  Depths = {1, 2, 3, 4, 5, 6, 7, 8, 9, 12, 16}
INVARIANTS CountsPosition
PROPERTIES FlopIsAPosition
