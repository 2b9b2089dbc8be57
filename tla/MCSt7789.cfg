SPECIFICATION Spec
CONSTANTS
  PANEL_WIDTH = 240
  PANEL_HEIGHT = 320
  MADCTL_VALUE = 54
  FILL_COLOR = 63489
  PixelCounts <- MCPixelCounts
  delay_count = 20
  StartAt <- MCDeselected
  MaxResets = 1
INVARIANTS
  TypeOK
  PanelInStep
PROPERTIES
  SteadyAtRise
  ImplementsDisplay
  AllFilled
