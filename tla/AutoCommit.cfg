SPECIFICATION ReopenSpec
CONSTANTS
  Chapters = {1, 2, 3}
  t1 = t1
  t2 = t2
  auto = auto
  None = None
  Text <- MCText
  Payload <- MCPayload
  Touches <- MCTouches
  Outlines <- MCOutlines
  AutoPayload = auto
  MaxCrashes = 2

INVARIANTS
  RefusedOnlyByStranded
PROPERTIES
  UnmarkedCommitIsRecovered
  BookEndsOrStrands
