\* Two frames for three pages and two contents, so that frames, entries, swap
\* slots and physical pages are all used again and both algorithms must choose.
SPECIFICATION PagerSpec
CONSTANTS
  PAGER_MAX_PAGES = 3
  PAGER_FRAME_LIMIT = 2
  PAGES = {p1, p2, p3}
  FRAMES = {f1, f2}
  VALUES = {a, b}
  Initial = a
  NoPage = NoPage
  NoFrame = NoFrame
  MAX_TICK = 4
SYMMETRY PagerSymmetry
INVARIANTS TablesExact
PROPERTIES ImplementsMemory PinnedEvictedLast RecentlyUsedKept
