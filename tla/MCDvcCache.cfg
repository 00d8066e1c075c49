SPECIFICATION Spec
CONSTANTS
  Colors <- MCColors
  Capacity = 4
PROPERTY PaletteSpec
