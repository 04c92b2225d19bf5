\* Two frames and three pages: a fault while both frames are pinned.
SPECIFICATION PagerSpec
CONSTANTS
  PAGER_MAX_PAGES = 3
  PAGER_FRAME_LIMIT = 2
  PAGES = {p1, p2, p3}
  FRAMES = {f1, f2}
  VALUES = {a}
  Initial = a
  NoPage = NoPage
  NoFrame = NoFrame
  MAX_TICK = 4
PROPERTY PinnedNeverEvicted
