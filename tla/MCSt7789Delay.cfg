SPECIFICATION Spec
CONSTANTS
  PANEL_WIDTH = 240
  PANEL_HEIGHT = 320
  MADCTL_VALUE = 54
  FILL_COLOR = 63489
  PixelCounts <- MCOnePixel
  delay_count = 2000000
  StartAt <- MCDeselected
  MaxResets = 1
PROPERTY DelaysKept
