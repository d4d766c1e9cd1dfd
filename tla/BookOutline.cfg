SPECIFICATION FairBookSpec
CONSTANTS
  Texts = {"a", "b"}
  Settings = {"s"}
  Openings <- MCOpenings
  Payloads <- MCPayloads
  MaxChapters = 2
  MaxArcs = 2
  Units = 1
  Dispatched = {"architect", "planner", "writer"}
  MaxDisturbances = 1
  MaxCrashes = 1
  None = None
INVARIANTS
  ViewsAgree
  ForwardWorkConfirmed
PROPERTIES
  WrittenEntriesKept
  CompletedWhenWritten
  ChapterByChapter
CHECK_DEADLOCK FALSE
