\* A screen of two lines of three cells, three lines of history; the line being
\* typed wraps.  Two keys fit into the keyboard's ring.
SPECIFICATION TerminalSpec
CONSTANTS
  KEYBOARD_BUFFER_SIZE = 3
  VGA_WIDTH = 3
  VGA_HEIGHT = 2
  CONSOLE_HISTORY_LINES = 3
  SIZE_RANGE = 64
  INPUT_MAX = 3
  PROMPT <- OnePrompt
  OUTPUTS <- Texts
  MAX_KEYS = 4
  MAX_ROW = 4
INVARIANTS IndexesInside LineShown
VIEW Live
PROPERTIES ImplementsQueue ReadingUndisturbed
