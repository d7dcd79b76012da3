SPECIFICATION Spec
CONSTANTS
  Base = base
  Folders = {d1, d2}
  Files = {f1, f2}
  Gone = gone
  Dot = dot
  MaxChanges = 2
  Pictures = {"p1", "p2"}
  Designs <- MCDesigns
  MaxWidth = 7
  Sizes <- MCSizes
  MaxCount = 4
INVARIANTS NothingIsMixedUp StableFilesOnce SkinIsKept
PROPERTIES ReadsBack OnlyPackLoses
CHECK_DEADLOCK FALSE
